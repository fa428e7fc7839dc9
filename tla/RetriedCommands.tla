--------------------------- MODULE RetriedCommands ---------------------------
(***************************************************************************)
(* The commands that requests send past their transactions, when           *)
(* connections break: INCR makes the ids of objects, HSET claims names,    *)
(* HDEL consumes e-mail tokens.                                            *)
(*                                                                         *)
(* ExecuteCommand sends a command again, on another connection, when the   *)
(* write or the read of the reply ends with EOF, and cannot know whether   *)
(* redis has executed it by then.  RequestTransactions is about the same   *)
(* commands where nothing fails.  A request sends at most three copies of  *)
(* a command, so that every instance is finite.                            *)
(***************************************************************************)
EXTENDS Naturals

CONSTANTS
    Creators,    \* requests that create an object under a name
    Validators,  \* requests that present an e-mail token
    Wanted,      \* Wanted[q]: the name or the token of request q
    NoId, NoReply, Lost

Requests == Creators \cup Validators
NamesWanted == {Wanted[q] : q \in Creators}
Tokens      == {Wanted[q] : q \in Validators}

ASSUME RetriedAssumption ==
    /\ Creators \cap Validators = {}
    /\ NoId \notin Nat /\ {NoReply, Lost} \cap Nat = {} /\ NoReply # Lost

VARIABLES
    UniqueId,  \* the redis key of the last id
    names,     \* the hash of user ids or of realm names
    pending,   \* the hash of e-mail tokens: those it holds
    uniqueId,  \* Persistence.uniqueId, a field that the requests share
    pc,        \* pc[q]: what the request does next
    op,        \* op[q]: its current command
    reply,     \* reply[q]: on its way: a number, or Lost with the connection
    newId      \* newId[q]: the id that the request has been given

redis  == <<UniqueId, names, pending>>
client == <<uniqueId, pc, op, reply, newId>>
vars   == <<redis, client>>

Ops == {"INCR", "HSET", "HDEL"}

\* A request that begins has made no object and claimed nothing.
Init ==
    /\ UniqueId = 0
    /\ names = [n \in NamesWanted |-> NoId]
    /\ pending = Tokens
    /\ uniqueId = 0
    /\ pc = [q \in Requests |-> "send"]
    /\ op = [q \in Requests |-> IF q \in Creators THEN "INCR" ELSE "HDEL"]
    /\ reply = [q \in Requests |-> NoReply]
    /\ newId = [q \in Requests |-> NoId]

Goto(q, label) == pc' = [pc EXCEPT ![q] = label]
-----------------------------------------------------------------------------
(***************************************************************************)
(* One command: sent, executed by redis or lost, answered or lost.         *)
(***************************************************************************)

\* What redis does: the reply is the new id, or the number of fields that
\* were added or deleted.
Execute(q, n) ==
    \/ /\ op[q] = "INCR"
       /\ UniqueId' = UniqueId + 1
       /\ n = UniqueId + 1
       /\ UNCHANGED <<names, pending>>
    \/ /\ op[q] = "HSET"
       /\ names' = [names EXCEPT ![Wanted[q]] = newId[q]]
       /\ n = IF names[Wanted[q]] = NoId THEN 1 ELSE 0
       /\ UNCHANGED <<UniqueId, pending>>
    \/ /\ op[q] = "HDEL"
       /\ pending' = pending \ {Wanted[q]}
       /\ n = IF Wanted[q] \in pending THEN 1 ELSE 0
       /\ UNCHANGED <<UniqueId, names>>

Sending   == {"send", "resend", "send again"}
Receiving == {"receive", "receive again"}

Awaited(label) == IF label = "send again" THEN "receive again" ELSE "receive"

\* SendCommand, and redis executes the command; the reply may be lost.
SendCommand(q) ==
    /\ pc[q] \in Sending
    /\ \E n \in 0 .. UniqueId + 1 :
         /\ Execute(q, n)
         /\ \E r \in {n, Lost} : reply' = [reply EXCEPT ![q] = r]
    /\ Goto(q, Awaited(pc[q]))
    /\ UNCHANGED <<uniqueId, op, newId>>

\* The write succeeds, but redis closes the connection without reading it.
SendUnread(q) ==
    /\ pc[q] \in Sending
    /\ reply' = [reply EXCEPT ![q] = Lost]
    /\ Goto(q, Awaited(pc[q]))
    /\ UNCHANGED <<redis, uniqueId, op, newId>>

\* The write fails: with EOF the first time it is repeated.
SendFails(q) ==
    /\ pc[q] \in Sending
    /\ \/ pc[q] = "send" /\ Goto(q, "resend")
       \/ Goto(q, "failed")
    /\ UNCHANGED <<redis, uniqueId, op, reply, newId>>

\* RecvReply fails: with EOF the first time the command is sent again.
ReceiveFails(q) ==
    /\ pc[q] \in Receiving
    /\ reply[q] = Lost
    /\ \/ pc[q] = "receive" /\ Goto(q, "send again")
       \/ Goto(q, "failed")
    /\ reply' = [reply EXCEPT ![q] = NoReply]
    /\ UNCHANGED <<redis, uniqueId, op, newId>>

\* The reply of the command o arrives.
RecvReply(q, o) ==
    /\ pc[q] \in Receiving
    /\ op[q] = o
    /\ reply[q] \in Nat
    /\ reply' = [reply EXCEPT ![q] = NoReply]
-----------------------------------------------------------------------------
(***************************************************************************)
(* What the requests do with the replies.                                  *)
(***************************************************************************)

Incremented_NoId(q) ==
    /\ RecvReply(q, "INCR")
    /\ uniqueId' = reply[q]
    /\ Goto(q, "made id")
    /\ UNCHANGED <<redis, op, newId>>

\* incrementDatabaseKey assigns the id to the shared field...
Incremented(q) ==
    /\ RecvReply(q, "INCR")
    /\ uniqueId' = reply[q]
    /\ newId' = [newId EXCEPT ![q] = reply[q]]
    /\ Goto(q, "made id")
    /\ UNCHANGED <<redis, op>>

\* ...and returns its local variable.
createUniqueDbObjectId_Shared(q) ==
    /\ pc[q] = "made id"
    /\ newId' = [newId EXCEPT ![q] = uniqueId]
    /\ Goto(q, "check")
    /\ UNCHANGED <<redis, uniqueId, op, reply>>

createUniqueDbObjectId(q) ==
    /\ pc[q] = "made id"
    /\ Goto(q, "check")
    /\ UNCHANGED <<redis, uniqueId, op, reply, newId>>

\* addUser and addRealm look the name up first; a repeated HGET is harmless.
CheckName(q) ==
    /\ pc[q] = "check"
    /\ IF names[Wanted[q]] = NoId
       THEN Goto(q, "send") /\ op' = [op EXCEPT ![q] = "HSET"]
       ELSE Goto(q, "failed") /\ UNCHANGED op
    /\ UNCHANGED <<redis, uniqueId, reply, newId>>

\* They go on if the field was added.
Added_Ignored(q) == TRUE
Added(q) == reply[q] = 1

ClaimAnswered(q) ==
    /\ RecvReply(q, "HSET")
    /\ Goto(q, IF Added(q) THEN "done" ELSE "failed")
    /\ UNCHANGED <<redis, uniqueId, op, newId>>

\* remIdentityValidationInfo goes on if one field was deleted.
NumDeleted_Ignored(q) == TRUE
NumDeleted(q) == reply[q] = 1

TokenDeleted(q) ==
    /\ RecvReply(q, "HDEL")
    /\ Goto(q, IF NumDeleted(q) THEN "done" ELSE "failed")
    /\ UNCHANGED <<redis, uniqueId, op, newId>>

Step(q) ==
    \/ SendCommand(q) \/ SendUnread(q) \/ SendFails(q) \/ ReceiveFails(q)
    \/ Incremented(q) \/ createUniqueDbObjectId(q)
    \/ CheckName(q) \/ ClaimAnswered(q) \/ TokenDeleted(q)

Next == \E q \in Requests : Step(q)

Spec == Init /\ [][Next]_vars
-----------------------------------------------------------------------------
(***************************************************************************)
(* Properties.                                                             *)
(***************************************************************************)

TypeOK ==
    /\ UniqueId \in Nat
    /\ names \in [NamesWanted -> Nat \cup {NoId}]
    /\ pending \subseteq Tokens
    /\ uniqueId \in Nat
    /\ pc \in [Requests -> Sending \cup Receiving
                           \cup {"made id", "check", "done", "failed"}]
    /\ op \in [Requests -> Ops]
    /\ \A q \in Requests : op[q] = "HDEL" <=> q \in Validators
    /\ reply \in [Requests -> Nat \cup {NoReply, Lost}]
    /\ newId \in [Requests -> Nat \cup {NoId}]
    /\ \A q \in Requests :
          /\ pc[q] \in {"made id", "check"} => op[q] = "INCR" /\ newId[q] \in Nat
          /\ op[q] = "HSET" => newId[q] \in Nat
          /\ pc[q] = "done" => op[q] # "INCR"
          /\ pc[q] \notin Receiving => reply[q] = NoReply

\* Ids are skipped when INCR is repeated, but no two requests are given the
\* same one, although all of them write the field uniqueId.
IdsUnique ==
    \A q, r \in Creators : newId[q] # NoId /\ newId[q] = newId[r] => q = r

\* Of the requests that claim one name at most one goes on to store its
\* object, whether they overlap or repeat their commands.
OneClaims ==
    \A q, r \in Creators :
        pc[q] = "done" /\ pc[r] = "done" /\ Wanted[q] = Wanted[r] => q = r

\* An e-mail token is good for one validation, and then it is gone.
OneValidates ==
    \A q, r \in Validators :
        pc[q] = "done" /\ pc[r] = "done" /\ Wanted[q] = Wanted[r] => q = r
=============================================================================
