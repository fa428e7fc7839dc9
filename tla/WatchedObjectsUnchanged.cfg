SPECIFICATION Spec
CONSTANTS
    Requests = {r1, r2}
    Objects = {o1}
    UserNames = {alice}
    RealmNames = {acme}
    Conns = {c1, c2, c3}
    MaxOps = 2
    Original = Original
    NoObj = NoObj
    NoConn = NoConn
    NoName = NoName
    Untouched = Untouched
PROPERTIES WatchedObjectsUnchanged
