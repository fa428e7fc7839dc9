SPECIFICATION Spec
CONSTANTS
    Realms = {acme, beta}
    UserIds = {ann, bob}
    Names = {n1, n2}
    Addresses = {a1, a2}
    Passwords = {p1, p2}
    SessionIds = {s1, s2}
    Tokens = {t1, t2}
    Requests = {q1}
    AllowToggle = TRUE
    NoObj = NoObj
    Unused = Unused
    Ended = Ended
    Consumed = Consumed
    Idle = Idle
    Nobody = Nobody
    NoSession = NoSession
    NoAddress = NoAddress
SYMMETRY Symmetry
INVARIANTS TypeOK MembershipAgrees EmailProven DeactivatedRealmInactive
PROPERTIES EndedIsFinal
