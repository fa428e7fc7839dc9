SPECIFICATION Spec
CONSTANTS
    Requests = {s1}
    Users = {alice, bob}
    Groups = {g}
    Admin = alice
    Resources = {realm, repo}
    Realm = realm
    realm = realm
    repo = repo
    dockerfile = dockerfile
    ParentOf <- Tree
    Entries = {e1, e2, e3}
    Masks <- ReadOrWrite
    NoParent = NoParent
    NoObj = NoObj
    Idle = Idle
SYMMETRY EntrySymmetry
INVARIANTS TypeOK ListsPointHome AclAgrees OneEntryPerPair QueriesShowRights
PROPERTIES NoEscalation RevocationTakesEffect DeletedGroupHasNoRights DeactivationRemovesAll
