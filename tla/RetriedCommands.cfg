SPECIFICATION Spec
CONSTANTS
    c1 = c1
    c2 = c2
    v1 = v1
    v2 = v2
    alice = alice
    token = token
    Creators = {c1, c2}
    Validators = {v1, v2}
    Wanted <- WantedHere
    NoId = NoId
    NoReply = NoReply
    Lost = Lost
SYMMETRY Symmetry
CHECK_DEADLOCK FALSE
INVARIANTS TypeOK IdsUnique OneClaims OneValidates
