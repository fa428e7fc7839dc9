----------------------- MODULE RetriedCommands_proofs -----------------------
(***************************************************************************)
(* What repeated commands cannot spoil, for any number of requests, names  *)
(* and tokens.                                                             *)
(***************************************************************************)
EXTENDS RetriedCommands, TLAPS

LEMMA InitTypeOK == Init => TypeOK
<1> SUFFICES ASSUME Init PROVE TypeOK
  OBVIOUS
<1>1. /\ UniqueId \in Nat /\ uniqueId \in Nat
      /\ names \in [NamesWanted -> Nat \cup {NoId}]
      /\ pending \subseteq Tokens
  BY DEF Init
<1>2. /\ reply \in [Requests -> Nat \cup {NoReply, Lost}]
      /\ newId \in [Requests -> Nat \cup {NoId}]
  BY DEF Init
<1>3. /\ pc \in [Requests -> Sending \cup Receiving
                             \cup {"made id", "check", "done", "failed"}]
      /\ op \in [Requests -> Ops]
  BY DEF Init, Sending, Ops
<1>4. \A q \in Requests : op[q] = "HDEL" <=> q \in Validators
  BY RetriedAssumption DEF Init, Requests
<1>5. \A q \in Requests : pc[q] = "send" /\ op[q] # "HSET" /\ reply[q] = NoReply
  BY DEF Init
<1> QED BY <1>1, <1>2, <1>3, <1>4, <1>5 DEF TypeOK

LEMMA CounterTyping ==
    ASSUME TypeOK
    PROVE  /\ UniqueId + 1 \in Nat /\ UniqueId + 1 # UniqueId
           /\ \A n \in 0 .. UniqueId + 1 : n \in Nat
<1>1. UniqueId \in Nat
  BY DEF TypeOK
<1> QED BY <1>1

LEMMA SendTyping ==
    ASSUME TypeOK, NEW q \in Requests,
           SendCommand(q) \/ SendUnread(q) \/ SendFails(q) \/ ReceiveFails(q)
    PROVE  TypeOK'
<1>0. UniqueId + 1 \in Nat /\ \A n \in 0 .. UniqueId + 1 : n \in Nat
  BY CounterTyping
<1>1. CASE SendCommand(q)
  <2>1. PICK n \in 0 .. UniqueId + 1 :
           Execute(q, n) /\ \E r \in {n, Lost} : reply' = [reply EXCEPT ![q] = r]
    BY <1>1 DEF SendCommand
  <2>2. reply' \in [Requests -> Nat \cup {NoReply, Lost}]
    <3>1. n \in Nat
      BY <1>0
    <3>2. PICK r \in {n, Lost} : reply' = [reply EXCEPT ![q] = r]
      BY <2>1
    <3> QED BY <3>1, <3>2 DEF TypeOK
  <2>3. /\ UniqueId' \in Nat
        /\ names' \in [NamesWanted -> Nat \cup {NoId}]
        /\ pending' \subseteq Tokens
    <3>1. CASE op[q] = "INCR"
      <4>1. UniqueId' = UniqueId + 1 /\ UNCHANGED <<names, pending>>
        BY <2>1, <3>1 DEF Execute
      <4> QED BY <1>0, <4>1 DEF TypeOK
    <3>2. CASE op[q] = "HSET"
      <4>1. newId[q] \in Nat
        BY <3>2 DEF TypeOK
      <4>2. /\ names' = [names EXCEPT ![Wanted[q]] = newId[q]]
            /\ UNCHANGED <<UniqueId, pending>>
        BY <2>1, <3>2 DEF Execute
      <4> QED BY <4>1, <4>2 DEF TypeOK
    <3>3. CASE op[q] = "HDEL"
      <4>1. pending' = pending \ {Wanted[q]} /\ UNCHANGED <<UniqueId, names>>
        BY <2>1, <3>3 DEF Execute
      <4> QED BY <4>1 DEF TypeOK
    <3> QED BY <3>1, <3>2, <3>3 DEF TypeOK, Ops
  <2>4. pc' = [pc EXCEPT ![q] = Awaited(pc[q])] /\ UNCHANGED <<uniqueId, op, newId>>
    BY <1>1 DEF SendCommand, Goto
  <2>5. Awaited(pc[q]) \in {"receive", "receive again"}
    BY DEF Awaited
  <2>6. \A r \in Requests : r # q => reply'[r] = reply[r] /\ pc'[r] = pc[r]
    BY <2>1, <2>4 DEF TypeOK
  <2>7. pc'[q] \in {"receive", "receive again"}
    BY <2>4, <2>5 DEF TypeOK
  <2>8. pc' \in [Requests -> Sending \cup Receiving
                             \cup {"made id", "check", "done", "failed"}]
    BY <2>4, <2>5 DEF TypeOK, Receiving
  <2>9. \A r \in Requests :
          /\ pc'[r] \in {"made id", "check"} => op[r] = "INCR" /\ newId[r] \in Nat
          /\ op[r] = "HSET" => newId[r] \in Nat
          /\ pc'[r] = "done" => op[r] # "INCR"
          /\ pc'[r] \notin Receiving => reply'[r] = NoReply
    BY <2>6, <2>7 DEF TypeOK, Receiving
  <2> QED BY <2>2, <2>3, <2>4, <2>8, <2>9 DEF TypeOK
<1>2. CASE SendUnread(q)
  <2>1. Awaited(pc[q]) \in {"receive", "receive again"}
    BY DEF Awaited
  <2> QED BY <1>2, <2>1 DEF SendUnread, Goto, Receiving, TypeOK, redis
<1>3. CASE SendFails(q)
  BY <1>3 DEF SendFails, Goto, Sending, Receiving, TypeOK, redis
<1>4. CASE ReceiveFails(q)
  BY <1>4 DEF ReceiveFails, Goto, Sending, Receiving, TypeOK, redis
<1> QED BY <1>1, <1>2, <1>3, <1>4

LEMMA NextTypeOK == TypeOK /\ [Next]_vars => TypeOK'
<1> SUFFICES ASSUME TypeOK, [Next]_vars PROVE TypeOK'
  OBVIOUS
<1> USE RetriedAssumption DEF TypeOK, Goto, RecvReply, redis
<1>1. CASE UNCHANGED vars
  BY <1>1 DEF vars, client
<1>2. ASSUME NEW q \in Requests, Step(q) PROVE TypeOK'
  <2>1. CASE SendCommand(q) \/ SendUnread(q) \/ SendFails(q) \/ ReceiveFails(q)
    BY <2>1, SendTyping
  <2>2. CASE Incremented(q)
    BY <2>2 DEF Incremented
  <2>3. CASE createUniqueDbObjectId(q)
    BY <2>3 DEF createUniqueDbObjectId, Receiving
  <2>4. CASE CheckName(q)
    <3>1. /\ op[q] = "INCR" /\ newId[q] \in Nat
          /\ UNCHANGED <<redis, uniqueId, reply, newId>>
      BY <2>4 DEF CheckName
    <3>2. CASE names[Wanted[q]] = NoId
      <4>1. pc' = [pc EXCEPT ![q] = "send"] /\ op' = [op EXCEPT ![q] = "HSET"]
        BY <2>4, <3>2 DEF CheckName
      <4>2. op' \in [Requests -> Ops] /\ "send" \notin Receiving /\ "send" \in Sending
        BY <4>1 DEF Ops, Sending, Receiving
      <4> QED BY <2>4, <3>1, <4>1, <4>2 DEF CheckName, Receiving
    <3>3. CASE names[Wanted[q]] # NoId
      BY <2>4, <3>1, <3>3 DEF CheckName, Receiving
    <3> QED BY <3>2, <3>3
  <2>5. CASE ClaimAnswered(q)
    BY <2>5 DEF ClaimAnswered, Receiving
  <2>6. CASE TokenDeleted(q)
    BY <2>6 DEF TokenDeleted, Receiving
  <2> QED BY <1>2, <2>1, <2>2, <2>3, <2>4, <2>5, <2>6 DEF Step
<1> QED BY <1>1, <1>2 DEF Next

\* Every variable keeps its type, and an id is there when it is needed.
THEOREM TypeCorrect == Spec => []TypeOK
BY InitTypeOK, NextTypeOK, PTL DEF Spec

-----------------------------------------------------------------------------
(***************************************************************************)
(* Ids.  Those that requests have, and those on their way to them, have    *)
(* been taken from the counter, each for one request.                      *)
(***************************************************************************)
Ids(q) == ({newId[q]} \cup (IF op[q] = "INCR" THEN {reply[q]} ELSE {})) \cap Nat

IdInv == /\ \A q \in Creators : Ids(q) \subseteq 0 .. UniqueId
         /\ \A q, r \in Creators : q # r => Ids(q) \cap Ids(r) = {}

LEMMA InitIdInv == Init => IdInv
BY RetriedAssumption DEF Init, IdInv, Ids, Requests

\* Only an INCR that redis executes gives a request an id it had not, and
\* that is the next one of the counter.
LEMMA IdSteps ==
    ASSUME TypeOK, NEW q \in Requests, Step(q)
    PROVE  /\ \A r \in Requests : r # q => Ids(r)' = Ids(r)
           /\ UniqueId' \in {UniqueId, UniqueId + 1}
           /\ Ids(q)' \subseteq Ids(q) \cup (IF UniqueId' = UniqueId THEN {} ELSE {UniqueId'})
<1> USE RetriedAssumption DEF TypeOK, Goto, RecvReply, redis, Ids
<1>1. CASE SendCommand(q)
  <2>1. PICK n \in 0 .. UniqueId + 1 :
           Execute(q, n) /\ \E r \in {n, Lost} : reply' = [reply EXCEPT ![q] = r]
    BY <1>1 DEF SendCommand
  <2>2. UNCHANGED <<op, newId>>
    BY <1>1 DEF SendCommand
  <2>3. CASE op[q] = "INCR"
    <3>1. UniqueId' = UniqueId + 1 /\ n = UniqueId'
      BY <2>1, <2>3 DEF Execute
    <3>2. reply'[q] \in {UniqueId', Lost} /\ \A r \in Requests : r # q => reply'[r] = reply[r]
      BY <2>1, <3>1
    <3>3. \A r \in Requests : r # q => Ids(r)' = Ids(r)
      BY <2>2, <3>2
    <3>4. Ids(q)' \subseteq Ids(q) \cup {UniqueId'}
      <4>1. Ids(q)' \subseteq {newId[q], UniqueId', Lost} \cap Nat
        BY <2>2, <2>3, <3>2
      <4>2. Lost \notin Nat /\ (newId[q] \in Nat => newId[q] \in Ids(q))
        OBVIOUS
      <4> QED BY <4>1, <4>2
    <3> HIDE DEF Ids, TypeOK
    <3>5. UniqueId' # UniqueId
      BY <3>1, CounterTyping
    <3> QED BY <3>1, <3>3, <3>4, <3>5
  <2>4. CASE op[q] # "INCR"
    <3>1. UniqueId' = UniqueId
      BY <2>1, <2>4 DEF Execute
    <3>2. \A r \in Requests : r # q => reply'[r] = reply[r]
      BY <2>1
    <3> QED BY <2>2, <2>4, <3>1, <3>2
  <2> QED BY <2>3, <2>4
<1>2. CASE SendUnread(q)
  BY <1>2 DEF SendUnread
<1>3. CASE SendFails(q)
  BY <1>3 DEF SendFails
<1>4. CASE ReceiveFails(q)
  BY <1>4 DEF ReceiveFails
<1>5. CASE Incremented(q)
  BY <1>5 DEF Incremented
<1>6. CASE createUniqueDbObjectId(q)
  BY <1>6 DEF createUniqueDbObjectId
<1>7. CASE CheckName(q)
  BY <1>7 DEF CheckName
<1>8. CASE ClaimAnswered(q)
  BY <1>8 DEF ClaimAnswered
<1>9. CASE TokenDeleted(q)
  BY <1>9 DEF TokenDeleted
<1> QED BY <1>1, <1>2, <1>3, <1>4, <1>5, <1>6, <1>7, <1>8, <1>9 DEF Step

LEMMA NextIdInv == TypeOK /\ IdInv /\ [Next]_vars => IdInv'
<1> SUFFICES ASSUME TypeOK, IdInv, [Next]_vars PROVE IdInv'
  OBVIOUS
<1>1. CASE UNCHANGED vars
  BY <1>1 DEF vars, redis, client, IdInv, Ids
<1>2. ASSUME NEW q \in Requests, Step(q) PROVE IdInv'
  <2>1. /\ \A r \in Requests : r # q => Ids(r)' = Ids(r)
        /\ UniqueId' \in {UniqueId, UniqueId + 1}
        /\ Ids(q)' \subseteq Ids(q) \cup (IF UniqueId' = UniqueId THEN {} ELSE {UniqueId'})
    BY <1>2, IdSteps
  <2>2. UniqueId \in Nat
    BY DEF TypeOK
  <2>3. \A r \in Creators : r \in Requests
    BY DEF Requests
  <2>4. ASSUME NEW r \in Creators PROVE Ids(r)' \subseteq 0 .. UniqueId'
    BY <2>1, <2>2, <2>3 DEF IdInv
  <2>5. ASSUME NEW r \in Creators, NEW t \in Creators, r # t
        PROVE  Ids(r)' \cap Ids(t)' = {}
    <3>1. Ids(r) \cap Ids(t) = {} /\ UniqueId + 1 \notin Ids(r) /\ UniqueId + 1 \notin Ids(t)
      BY <2>2, <2>5 DEF IdInv
    <3> QED BY <2>1, <2>3, <2>5, <3>1
  <2> QED BY <2>4, <2>5 DEF IdInv
<1> QED BY <1>1, <1>2 DEF Next

\* No two requests are given the same id, however often INCR is repeated.
THEOREM IdsAreUnique == Spec => []IdsUnique
<1>1. TypeOK /\ IdInv => IdsUnique
  BY RetriedAssumption DEF TypeOK, IdInv, Ids, IdsUnique, Requests
<1> QED BY <1>1, InitTypeOK, NextTypeOK, InitIdInv, NextIdInv, PTL DEF Spec

-----------------------------------------------------------------------------
(***************************************************************************)
(* Claims and tokens.  A request that has been told, or will be, that it   *)
(* was the one to add the name or to delete the token; from then on the    *)
(* name is in the hash, the token is not.                                  *)
(***************************************************************************)
Told(q) == op[q] # "INCR" /\ (reply[q] = 1 \/ pc[q] = "done")

Spent(q) == IF op[q] = "HSET" THEN names[Wanted[q]] # NoId ELSE Wanted[q] \notin pending

WinInv ==
    /\ \A q \in Requests : Told(q) => Spent(q)
    /\ \A q, r \in Requests :
          Told(q) /\ Told(r) /\ op[q] = op[r] /\ Wanted[q] = Wanted[r] => q = r

LEMMA InitWinInv == Init => WinInv
<1> SUFFICES ASSUME Init PROVE \A q \in Requests : ~Told(q)
  BY DEF WinInv
<1>1. 1 # NoReply
  BY RetriedAssumption
<1> QED BY <1>1 DEF Init, Told

\* A command that redis executes tells at most its own request, and only if
\* the name or the token was not spent.
LEMMA SendWins ==
    ASSUME TypeOK, NEW q \in Requests, SendCommand(q)
    PROVE  /\ op' = op
           /\ \A r \in Requests : r # q => (Told(r)' <=> Told(r))
           /\ Told(q)' => Spent(q)' /\ ~Spent(q)
           /\ \A r \in Requests : op[r] # "INCR" /\ Spent(r) => Spent(r)'
<1> USE RetriedAssumption
<1>1. PICK n \in 0 .. UniqueId + 1 :
         Execute(q, n) /\ \E r \in {n, Lost} : reply' = [reply EXCEPT ![q] = r]
  BY DEF SendCommand
<1>2. /\ UNCHANGED <<op, newId>> /\ pc[q] \in Sending
      /\ pc' = [pc EXCEPT ![q] = Awaited(pc[q])]
  BY DEF SendCommand, Goto
<1>3. pc'[q] # "done" /\ \A r \in Requests : r # q => pc'[r] = pc[r]
  BY <1>2 DEF Awaited, TypeOK
<1>4. reply'[q] \in {n, Lost} /\ \A r \in Requests : r # q => reply'[r] = reply[r]
  BY <1>1 DEF TypeOK
<1>5. \A r \in Requests : r # q => (Told(r)' <=> Told(r))
  BY <1>2, <1>3, <1>4 DEF Told
<1>6. \A r \in Creators : Wanted[r] \in NamesWanted
  BY DEF NamesWanted
<1>7. ASSUME NEW r \in Requests, op[r] = "HSET" PROVE Wanted[r] \in NamesWanted
  BY <1>6, <1>7 DEF Requests, TypeOK
<1>8. CASE op[q] = "INCR"
  <2>1. UNCHANGED <<names, pending>>
    BY <1>1, <1>8 DEF Execute
  <2> QED BY <1>2, <1>5, <1>8, <2>1 DEF Told, Spent
<1>9. CASE op[q] = "HSET"
  <2>1. /\ names' = [names EXCEPT ![Wanted[q]] = newId[q]]
        /\ n = IF names[Wanted[q]] = NoId THEN 1 ELSE 0
        /\ UNCHANGED pending
    BY <1>1, <1>9 DEF Execute
  <2>2. newId[q] \in Nat /\ newId[q] # NoId
    BY <1>9 DEF TypeOK
  <2>3. names'[Wanted[q]] # NoId
    BY <1>7, <1>9, <2>1, <2>2 DEF TypeOK
  <2>4. Told(q)' => names[Wanted[q]] = NoId
    <3>1. Told(q)' => reply'[q] = 1
      BY <1>3 DEF Told
    <3>2. Lost # 1
      OBVIOUS
    <3> QED BY <1>4, <2>1, <3>1, <3>2
  <2>5. ASSUME NEW r \in Requests, op[r] # "INCR", Spent(r) PROVE Spent(r)'
    BY <1>2, <1>7, <2>1, <2>2, <2>5 DEF Spent, TypeOK
  <2> QED BY <1>2, <1>5, <1>9, <2>3, <2>4, <2>5 DEF Spent
<1>10. CASE op[q] = "HDEL"
  <2>1. /\ pending' = pending \ {Wanted[q]}
        /\ n = IF Wanted[q] \in pending THEN 1 ELSE 0
        /\ UNCHANGED names
    BY <1>1, <1>10 DEF Execute
  <2>2. Told(q)' => Wanted[q] \in pending
    <3>1. Told(q)' => reply'[q] = 1
      BY <1>3 DEF Told
    <3>2. Lost # 1
      OBVIOUS
    <3> QED BY <1>4, <2>1, <3>1, <3>2
  <2> QED BY <1>2, <1>5, <1>10, <2>1, <2>2 DEF Spent
<1> QED BY <1>8, <1>9, <1>10 DEF Ops, TypeOK

\* Nothing else tells a request so, or spends or restores a name or token.
LEMMA OtherSteps ==
    ASSUME TypeOK, NEW q \in Requests, Step(q), ~SendCommand(q)
    PROVE  /\ UNCHANGED redis
           /\ \A r \in Requests : Told(r)' => Told(r) /\ op'[r] = op[r]
<1> USE RetriedAssumption DEF TypeOK, Goto, RecvReply, redis, Told
<1>1. CASE SendUnread(q)
  BY <1>1 DEF SendUnread, Awaited
<1>2. CASE SendFails(q)
  BY <1>2 DEF SendFails
<1>3. CASE ReceiveFails(q)
  BY <1>3 DEF ReceiveFails
<1>4. CASE Incremented(q)
  BY <1>4 DEF Incremented
<1>5. CASE createUniqueDbObjectId(q)
  BY <1>5 DEF createUniqueDbObjectId
<1>6. CASE CheckName(q)
  BY <1>6 DEF CheckName, Receiving
<1>7. CASE ClaimAnswered(q)
  BY <1>7 DEF ClaimAnswered, Added
<1>8. CASE TokenDeleted(q)
  BY <1>8 DEF TokenDeleted, NumDeleted
<1> QED BY <1>1, <1>2, <1>3, <1>4, <1>5, <1>6, <1>7, <1>8 DEF Step

LEMMA NextWinInv == TypeOK /\ WinInv /\ [Next]_vars => WinInv'
<1> SUFFICES ASSUME TypeOK, WinInv, [Next]_vars PROVE WinInv'
  OBVIOUS
<1>1. CASE UNCHANGED vars
  BY <1>1 DEF vars, redis, client, WinInv, Told, Spent
<1>2. ASSUME NEW q \in Requests, SendCommand(q) PROVE WinInv'
  <2>1. \A r \in Requests : Told(r) => op[r] # "INCR"
    BY DEF Told
  <2>2. \A r \in Requests : Told(r)' => Spent(r)'
    BY <1>2, <2>1, SendWins DEF WinInv
  <2>3. ASSUME NEW r \in Requests, r # q, Told(q)', Told(r)',
               op[q] = op[r], Wanted[q] = Wanted[r]
        PROVE  FALSE
    <3>1. ~Spent(q) /\ Told(r) /\ Spent(r)
      BY <1>2, <2>3, SendWins DEF WinInv
    <3> QED BY <2>3, <3>1 DEF Spent
  <2> QED BY <1>2, <2>2, <2>3, SendWins DEF WinInv
<1>3. ASSUME NEW q \in Requests, Step(q), ~SendCommand(q) PROVE WinInv'
  <2>1. \A r \in Requests : Told(r)' => Told(r) /\ op'[r] = op[r]
    BY <1>3, OtherSteps
  <2>2. UNCHANGED <<names, pending>>
    BY <1>3, OtherSteps DEF redis
  <2>3. \A r \in Requests : Told(r)' => Spent(r)'
    BY <2>1, <2>2 DEF WinInv, Spent
  <2> QED BY <2>1, <2>3 DEF WinInv
<1> QED BY <1>1, <1>2, <1>3 DEF Next

LEMMA WinInvariant == Spec => [](TypeOK /\ WinInv)
BY InitTypeOK, NextTypeOK, InitWinInv, NextWinInv, PTL DEF Spec

\* One request at most goes on with a name, whatever is repeated.
THEOREM ClaimsAreExclusive == Spec => []OneClaims
<1>1. TypeOK /\ WinInv => OneClaims
  <2> SUFFICES ASSUME TypeOK, WinInv, NEW q \in Creators, NEW r \in Creators,
                      pc[q] = "done", pc[r] = "done", Wanted[q] = Wanted[r]
               PROVE  q = r
    BY DEF OneClaims
  <2>1. q \in Requests /\ r \in Requests /\ q \notin Validators /\ r \notin Validators
    BY RetriedAssumption DEF Requests
  <2>2. op[q] = "HSET" /\ op[r] = "HSET"
    BY <2>1 DEF TypeOK, Ops
  <2> QED BY <2>1, <2>2 DEF WinInv, Told
<1> QED BY <1>1, WinInvariant, PTL

\* One request at most is let through by a token, whatever is repeated.
THEOREM TokensAreUsedOnce == Spec => []OneValidates
<1>1. TypeOK /\ WinInv => OneValidates
  <2> SUFFICES ASSUME TypeOK, WinInv, NEW q \in Validators, NEW r \in Validators,
                      pc[q] = "done", pc[r] = "done", Wanted[q] = Wanted[r]
               PROVE  q = r
    BY DEF OneValidates
  <2>1. q \in Requests /\ r \in Requests
    BY DEF Requests
  <2>2. op[q] = "HDEL" /\ op[r] = "HDEL"
    BY <2>1 DEF TypeOK
  <2> QED BY <2>1, <2>2 DEF WinInv, Told
<1> QED BY <1>1, WinInvariant, PTL
=============================================================================
