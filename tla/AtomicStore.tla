---------------------------- MODULE AtomicStore ----------------------------
(***************************************************************************)
(* What the transaction layer promises to a request handler, without the   *)
(* connections, caches and command queues that implement it: a handler     *)
(* records the object versions it intends to store, and the database       *)
(* changes only when one request's whole intention is applied in one step. *)
(* A request that is cancelled leaves no trace.                            *)
(***************************************************************************)
CONSTANTS
    Requests,     \* the HTTP requests
    Keys,         \* ids of persistent objects
    Versions,     \* what can be stored under an id
    Original,     \* the version of an object stored before any request
    NoObj,        \* "nothing stored under this id"
    Preexisting,  \* the ids that hold an object at the start
    Untouched     \* in an intention: this id is left alone

VARIABLES
    db,      \* db[k]: the version stored under k
    intent,  \* intent[r][k]: the version r intends to store under k
    ended    \* the requests that have been applied or cancelled

vars == <<db, intent, ended>>

Init ==
    /\ db = [k \in Keys |-> IF k \in Preexisting THEN Original ELSE NoObj]
    /\ intent = [r \in Requests |-> [k \in Keys |-> Untouched]]
    /\ ended = {}

Intend(r, k, v) ==
    /\ r \notin ended
    /\ intent' = [intent EXCEPT ![r][k] = v]
    /\ UNCHANGED <<db, ended>>

Apply(r) ==
    /\ r \notin ended
    /\ db' = [k \in Keys |-> IF intent[r][k] = Untouched THEN db[k]
                                                         ELSE intent[r][k]]
    /\ ended' = ended \cup {r}
    /\ UNCHANGED intent

Cancel(r) ==
    /\ r \notin ended
    /\ ended' = ended \cup {r}
    /\ UNCHANGED <<db, intent>>

Next == \E r \in Requests :
            \/ \E k \in Keys, v \in Versions \cup {NoObj} : Intend(r, k, v)
            \/ Apply(r)
            \/ Cancel(r)

Spec == Init /\ [][Next]_vars
=============================================================================
