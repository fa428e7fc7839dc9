--------------------- MODULE RequestTransactions_proofs ---------------------
(***************************************************************************)
(* Proofs about RequestTransactions for any number of requests, objects,   *)
(* names and connections: types, ownership of connections, and that the    *)
(* store changes only as AtomicStore allows.                               *)
(***************************************************************************)
EXTENDS RequestTransactions, SequenceTheorems, TLAPS

Labels == {"new", "running", "claiming", "abort", "close",
           "deferredAbort", "lastClose", "done"}

(***************************************************************************)
(* The operators of the pool and of the queues.                            *)
(***************************************************************************)

\* Get and Put keep the pool a sequence of connections, and Get returns a
\* connection.
LEMMA PoolTyping ==
    ASSUME idle \in Seq(Conns)
    PROVE  /\ RemoveBack \in Seq(Conns)
           /\ GetConn \subseteq Conns
           /\ \A p \in {idle, RemoveBack}, c \in Conns : PutConn(p, c) \in Seq(Conns)
<1>1. RemoveBack \in Seq(Conns)
  BY DEF RemoveBack
<1>2. GetConn \subseteq Conns
  BY DEF GetConn, Dialed
<1>3. ASSUME NEW p \in Seq(Conns), NEW c \in Conns
      PROVE  PutConn(p, c) \in Seq(Conns)
  <2>1. CASE Len(p) >= MaxIdle
    <3>1. p # <<>>
      BY <2>1 DEF MaxIdle
    <3>2. Tail(p) \in Seq(Conns)
      BY <3>1
    <3> QED
      BY <2>1, <3>2 DEF PutConn
  <2>2. CASE ~(Len(p) >= MaxIdle)
    BY <2>2 DEF PutConn
  <2> QED
    BY <2>1, <2>2
<1> QED
  BY <1>1, <1>2, <1>3

\* Send records a version that is allowed, on the request's connection or, if
\* that is not in MULTI, in the store.
LEMMA SendTyping ==
    ASSUME TypeOK, NEW r \in Requests, NEW k \in Keys, NEW v \in {r, NoObj},
           pc[r] # "new", Send(r, k, v)
    PROVE  /\ store' \in [Keys -> Versions \cup {NoObj}]
           /\ queue' \in [Conns -> [Keys \cup Names
                                      -> Requests \cup {NoObj, Untouched}]]
           /\ wrote' \in [Requests -> [Keys -> Requests \cup {NoObj, Untouched}]]
<1> DEFINE c == conn[r]
<1>1. c \in Conns
  BY DEF TypeOK
<1>2. CASE multi[c]
  <2>1. /\ queue' = [queue EXCEPT ![c][k] = v]
        /\ wrote' = [wrote EXCEPT ![r][k] = v]
        /\ store' = store
    BY <1>2 DEF Send
  <2> QED
    BY <1>1, <2>1 DEF TypeOK
<1>3. CASE ~multi[c]
  <2>1. /\ store' = [store EXCEPT ![k] = v]
        /\ queue' = queue
        /\ wrote' = wrote
    BY <1>3 DEF Send
  <2> QED
    BY <2>1 DEF TypeOK, Versions
<1> QED
  BY <1>2, <1>3

\* A connection that is taken may join the retaken ones; none ever leaves.
LEMMA TakeTyping ==
    ASSUME idle \in Seq(Conns), retaken \subseteq Conns, NEW c, Take(c)
    PROVE  /\ c \in Conns /\ c \in GetConn
           /\ retaken' \subseteq Conns /\ retaken \subseteq retaken'
<1>1. c \in Conns
  BY PoolTyping DEF Take
<1> QED
  BY <1>1 DEF Take

(***************************************************************************)
(* Type correctness.                                                       *)
(***************************************************************************)

LEMMA InitTypeOK == Init => TypeOK
BY ConstantsAssumption DEF Init, TypeOK, NothingQueued, Versions

LEMMA NextTypeOK == TypeOK /\ [Next]_vars => TypeOK'
<1> SUFFICES ASSUME TypeOK, [Next]_vars PROVE TypeOK'
  OBVIOUS
<1> USE ConstantsAssumption
<1>pool. /\ RemoveBack \in Seq(Conns)
         /\ GetConn \subseteq Conns
         /\ \A c \in Conns : PutConn(idle, c) \in Seq(Conns)
         /\ \A c \in Conns : PutConn(RemoveBack, c) \in Seq(Conns)
  BY PoolTyping DEF TypeOK
<1>1. ASSUME NEW r \in Requests, Begin(r) PROVE TypeOK'
  <2>1. PICK c \in Conns : /\ Take(c)
                          /\ conn' = [conn EXCEPT ![r] = c]
                          /\ idle' = RemoveBack
                          /\ multi' = [multi EXCEPT ![c] = TRUE]
    BY <1>1 DEF Begin
  <2>2. /\ c \in Conns /\ retaken' \subseteq Conns
        /\ pc' = [pc EXCEPT ![r] = "running"]
        /\ UNCHANGED <<store, names, queue, cache, claim, ops, wrote, seen, returned>>
    BY <1>1, <2>1, TakeTyping DEF Begin, Goto, TypeOK
  <2>3. /\ conn' \in [Requests -> Conns \cup {NoConn}]
        /\ pc' \in [Requests -> Labels]
        /\ \A s \in Requests : pc'[s] # "new" => conn'[s] \in Conns
    BY <2>1, <2>2 DEF TypeOK, Labels
  <2>4. multi' \in [Conns -> BOOLEAN] /\ idle' \in Seq(Conns)
    BY <2>1, <1>pool DEF TypeOK
  <2> QED
    BY <2>2, <2>3, <2>4 DEF TypeOK, Labels
<1>2. ASSUME NEW r \in Requests, NEW k \in Keys, Read(r, k) PROVE TypeOK'
  <2> USE <1>2 DEF Read
  <2>1. PICK c \in GetConn :
           LET found == ~multi[c] /\ store[k] # NoObj IN
           /\ Borrow(c)
           /\ Proceed(r, found, "running")
           /\ cache' = IF found THEN [cache EXCEPT ![r][k] = store[k]] ELSE cache
           /\ seen' = IF found /\ seen[r][k] = NoObj
                      THEN [seen EXCEPT ![r][k] = store[k]] ELSE seen
    BY DEF Fetch
  <2>2. idle' \in Seq(Conns) /\ retaken' \subseteq Conns
    BY <2>1, <1>pool, TakeTyping DEF Borrow, TypeOK
  <2>3. pc' \in [Requests -> Labels]
    BY <2>1 DEF Proceed, Goto, TypeOK, Labels
  <2>4. /\ cache' \in [Requests -> [Keys -> Versions \cup {NoObj}]]
        /\ seen' \in [Requests -> [Keys -> Versions \cup {NoObj}]]
    BY <2>1 DEF TypeOK
  <2>5. /\ ops' \in [Requests -> 0..MaxOps]
        /\ \A s \in Requests : pc'[s] # "new" => conn'[s] \in Conns
    BY <2>1 DEF Operate, TypeOK, Proceed, Goto
  <2> QED
    BY <2>2, <2>3, <2>4, <2>5 DEF TypeOK, Labels, Operate, redisVars
<1>3. ASSUME NEW r \in Requests, NEW k \in Keys, Update(r, k) PROVE TypeOK'
  <2> USE <1>3 DEF Update
  <2>1. Send(r, k, r) /\ pc[r] # "new"
    BY DEF Operate
  <2>2. /\ store' \in [Keys -> Versions \cup {NoObj}]
        /\ queue' \in [Conns -> [Keys \cup Names -> Requests \cup {NoObj, Untouched}]]
        /\ wrote' \in [Requests -> [Keys -> Requests \cup {NoObj, Untouched}]]
    BY <2>1, SendTyping
  <2>3. /\ pc' \in [Requests -> Labels]
        /\ ops' \in [Requests -> 0..MaxOps]
        /\ \A s \in Requests : pc'[s] # "new" => conn'[s] \in Conns
        /\ cache' \in [Requests -> [Keys -> Versions \cup {NoObj}]]
    BY DEF Operate, TypeOK, Proceed, Goto, Labels, Remember, Versions
  <2> QED
    BY <2>2, <2>3 DEF TypeOK, Labels, Operate
<1>4. ASSUME NEW r \in Requests, NEW k \in Objects, Delete(r, k) PROVE TypeOK'
  <2> USE <1>4 DEF Delete
  <2>1. Send(r, k, NoObj) /\ pc[r] # "new" /\ k \in Keys
    BY DEF Operate, Keys
  <2>2. /\ store' \in [Keys -> Versions \cup {NoObj}]
        /\ queue' \in [Conns -> [Keys \cup Names -> Requests \cup {NoObj, Untouched}]]
        /\ wrote' \in [Requests -> [Keys -> Requests \cup {NoObj, Untouched}]]
    BY <2>1, SendTyping
  <2>3. /\ pc' \in [Requests -> Labels]
        /\ ops' \in [Requests -> 0..MaxOps]
        /\ \A s \in Requests : pc'[s] # "new" => conn'[s] \in Conns
        /\ cache' \in [Requests -> [Keys -> Versions \cup {NoObj}]]
    BY <2>1 DEF Operate, TypeOK, Proceed, Goto, Labels, Remember
  <2> QED
    BY <2>2, <2>3 DEF TypeOK, Labels, Operate
<1>5. ASSUME NEW r \in Requests, NEW n \in UserNames, CheckUserId(r, n)
      PROVE TypeOK'
  <2> USE <1>5 DEF CheckUserId
  <2>1. Send(r, r, r) /\ pc[r] # "new" /\ r \in Keys
    BY DEF Operate, Keys
  <2>2. /\ store' \in [Keys -> Versions \cup {NoObj}]
        /\ queue' \in [Conns -> [Keys \cup Names -> Requests \cup {NoObj, Untouched}]]
        /\ wrote' \in [Requests -> [Keys -> Requests \cup {NoObj, Untouched}]]
    BY <2>1, SendTyping
  <2>3. /\ ops' \in [Requests -> 0..MaxOps]
        /\ conn' = conn
        /\ claim' \in [Requests -> Names \cup {NoName}]
        /\ cache' \in [Requests -> [Keys -> Versions \cup {NoObj}]]
    BY <2>1 DEF Operate, TypeOK, Remember, Versions, Names
  <2>4. /\ pc' \in [Requests -> Labels]
        /\ idle' \in Seq(Conns) /\ retaken' \subseteq Conns
        /\ \A s \in Requests : pc'[s] # "new" => pc[s] # "new"
    <3>1. CASE Queued(r)
      <4>1. PICK c \in GetConn :
              Borrow(c) /\ Proceed(r, ~multi[c] /\ names[n] = NoObj, "claiming")
        BY <3>1
      <4>2. idle' \in Seq(Conns) /\ retaken' \subseteq Conns
        BY <4>1, <1>pool, TakeTyping DEF Borrow, TypeOK
      <4> QED
        BY <2>1, <4>1, <4>2 DEF Proceed, Goto, TypeOK, Labels
    <3>2. CASE ~Queued(r)
      BY <2>1, <3>2 DEF Goto, TypeOK, Labels
    <3> QED
      BY <3>1, <3>2
  <2> QED
    BY <2>2, <2>3, <2>4 DEF TypeOK, Labels
<1>6. ASSUME NEW r \in Requests, NEW n \in RealmNames, CheckRealmName(r, n)
      PROVE TypeOK'
  <2> USE <1>6 DEF CheckRealmName
  <2>1. r \in Keys /\ pc[r] # "new"
    BY DEF Operate, Keys
  <2>2. /\ ops' \in [Requests -> 0..MaxOps]
        /\ conn' = conn
        /\ claim' \in [Requests -> Names \cup {NoName}]
    BY DEF Operate, TypeOK, Names
  <2>3. PICK c \in GetConn :
           LET free == ~multi[c] /\ names[n] = NoObj IN
           /\ Borrow(c)
           /\ Proceed(r, free, "claiming")
           /\ cache' = IF free THEN [cache EXCEPT ![r][r] = r] ELSE cache
    OBVIOUS
  <2>4. /\ pc' \in [Requests -> Labels]
        /\ idle' \in Seq(Conns) /\ retaken' \subseteq Conns
        /\ \A s \in Requests : pc'[s] # "new" => pc[s] # "new"
    BY <2>1, <2>3, <1>pool, TakeTyping DEF Borrow, Proceed, Goto, TypeOK, Labels
  <2>5. cache' \in [Requests -> [Keys -> Versions \cup {NoObj}]]
    BY <2>1, <2>3 DEF TypeOK, Versions
  <2> QED
    BY <2>2, <2>4, <2>5 DEF TypeOK, Labels, redisVars
<1>7. ASSUME NEW r \in Requests, ClaimName(r) PROVE TypeOK'
  <2> USE <1>7 DEF ClaimName
  <2>1. r \in Keys /\ pc[r] # "new"
    BY DEF Keys
  <2>2. PICK c \in GetConn :
          /\ Borrow(c)
          /\ IF multi[c]
             THEN /\ queue' = [queue EXCEPT ![c][claim[r]] = r]
                  /\ Goto(r, "abort")
                  /\ UNCHANGED <<store, names, wrote>>
             ELSE /\ names' = [names EXCEPT ![claim[r]] = r]
                  /\ IF names[claim[r]] = NoObj
                     THEN Send(r, r, r) /\ Proceed(r, Queued(r), "running")
                     ELSE Goto(r, "abort") /\ UNCHANGED <<store, queue, wrote>>
    OBVIOUS
  <2>3. c \in Conns /\ idle' \in Seq(Conns) /\ retaken' \subseteq Conns
    BY <2>2, <1>pool, TakeTyping DEF Borrow, TypeOK
  <2>4. /\ pc' \in [Requests -> Labels]
        /\ \A s \in Requests : pc'[s] # "new" => pc[s] # "new"
    BY <2>1, <2>2 DEF Proceed, Goto, TypeOK, Labels
  <2>5. names' \in [Names -> Requests \cup {NoObj}]
    BY <2>2 DEF TypeOK
  <2>6. /\ store' \in [Keys -> Versions \cup {NoObj}]
        /\ queue' \in [Conns -> [Keys \cup Names -> Requests \cup {NoObj, Untouched}]]
        /\ wrote' \in [Requests -> [Keys -> Requests \cup {NoObj, Untouched}]]
    <3>1. CASE multi[c]
      <4>1. queue' = [queue EXCEPT ![c] = [queue[c] EXCEPT ![claim[r]] = r]]
        BY <2>2, <3>1
      <4>2. [queue[c] EXCEPT ![claim[r]] = r]
              \in [Keys \cup Names -> Requests \cup {NoObj, Untouched}]
        BY <2>3 DEF TypeOK
      <4> QED
        BY <2>2, <3>1, <4>1, <4>2 DEF TypeOK
    <3>2. CASE ~multi[c] /\ names[claim[r]] = NoObj
      BY <2>1, <2>2, <3>2, SendTyping
    <3>3. CASE ~multi[c] /\ names[claim[r]] # NoObj
      BY <2>2, <3>3 DEF TypeOK
    <3> QED
      BY <3>1, <3>2, <3>3
  <2> QED
    BY <2>3, <2>4, <2>5, <2>6 DEF TypeOK, Labels
<1>8. ASSUME NEW r \in Requests, Fail(r) \/ Panic(r) PROVE TypeOK'
  BY <1>8 DEF Fail, Panic, Goto, TypeOK, redisVars, history
<1>9. ASSUME NEW r \in Requests, Commit(r) PROVE TypeOK'
  <2> USE <1>9 DEF Commit
  <2>1. conn[r] \in Conns
    BY DEF TypeOK
  <2>2. /\ pc' \in [Requests -> Labels]
        /\ \A s \in Requests : pc'[s] # "new" => pc[s] # "new"
        /\ cache' \in [Requests -> [Keys -> Versions \cup {NoObj}]]
    BY DEF Goto, TypeOK, Labels
  <2>3. /\ multi' \in [Conns -> BOOLEAN]
        /\ queue' \in [Conns -> [Keys \cup Names -> Requests \cup {NoObj, Untouched}]]
    <3>1. NothingQueued \in [Keys \cup Names -> Requests \cup {NoObj, Untouched}]
      BY DEF NothingQueued
    <3>2. CASE multi[conn[r]]
      <4>1. /\ multi' = [multi EXCEPT ![conn[r]] = FALSE]
            /\ queue' = [queue EXCEPT ![conn[r]] = NothingQueued]
        BY <3>2
      <4> HIDE <1>9 DEF Commit
      <4> QED
        BY <2>1, <3>1, <4>1 DEF TypeOK
    <3>3. CASE ~multi[conn[r]]
      BY <3>3 DEF TypeOK, redisVars
    <3> QED
      BY <3>2, <3>3
  <2>4. /\ \A k \in Keys : After(store[k], queue[conn[r]][k]) \in Versions \cup {NoObj}
        /\ \A n \in Names : After(names[n], queue[conn[r]][n]) \in Requests \cup {NoObj}
    <3>1. queue[conn[r]] \in [Keys \cup Names -> Requests \cup {NoObj, Untouched}]
      BY <2>1 DEF TypeOK
    <3> QED
      BY <3>1 DEF TypeOK, After, Versions
  <2>5. /\ store' \in [Keys -> Versions \cup {NoObj}]
        /\ names' \in [Names -> Requests \cup {NoObj}]
    <3>1. CASE multi[conn[r]]
      BY <2>4, <3>1
    <3>2. CASE ~multi[conn[r]]
      BY <3>2 DEF TypeOK, redisVars
    <3> QED
      BY <3>1, <3>2
  <2> QED
    BY <2>2, <2>3, <2>4, <2>5 DEF TypeOK, Labels, history
<1>10. ASSUME NEW r \in Requests, Abort(r) PROVE TypeOK'
  BY <1>10 DEF Abort, Goto, TypeOK, NothingQueued, history
<1>11. ASSUME NEW r \in Requests, Close(r) PROVE TypeOK'
  BY <1>11, <1>pool DEF Close, Goto, TypeOK, redisVars
<1>12. CASE UNCHANGED vars
  BY <1>12 DEF vars, redisVars, requestVars, history, TypeOK
<1> QED
  BY <1>1, <1>2, <1>3, <1>4, <1>5, <1>6, <1>7, <1>8, <1>9, <1>10, <1>11, <1>12
  DEF Next, Step, Quiescent

\* Every variable of the request layer keeps its type.
THEOREM TypeCorrect == Spec => []TypeOK
<1>1. Init => TypeOK
  BY InitTypeOK
<1>2. TypeOK /\ [Next]_vars => TypeOK'
  BY NextTypeOK
<1> QED
  BY <1>1, <1>2, PTL DEF Spec

(***************************************************************************)
(* Ownership of connections.  Every step keeps the invariant for the       *)
(* requests whose connection was never retaken: what the others do stays   *)
(* on their own connections.                                               *)
(***************************************************************************)

\* A connection taken from the pool is quiet and nobody's, if it was never
\* retaken, and putting any connection into the pool leaves it as the only one
\* there.
LEMMA PoolOfOne ==
    ASSUME TypeOK, TransactionInv
    PROVE  /\ RemoveBack = <<>>
           /\ \A c \in GetConn :
                 /\ c \in Conns /\ PutConn(RemoveBack, c) = <<c>>
                 /\ c \notin retaken =>
                       /\ ~multi[c]
                       /\ \A s \in Requests : Holds(s) => conn[s] # c
           /\ \A c \in Conns : PutConn(idle, c) = <<c>>
<1>1. idle = <<>> \/ \E d \in Conns : idle = <<d>>
  <2>1. idle \in Seq(Conns) /\ Len(idle) <= 1
    BY DEF TypeOK, TransactionInv, PoolInv, MaxIdle
  <2>2. CASE Len(idle) = 0
    BY <2>1, <2>2
  <2>3. CASE Len(idle) = 1
    <3>1. idle[1] \in Conns
      BY <2>1, <2>3
    <3>2. <<idle[1]>> \in Seq(Conns) /\ Len(<<idle[1]>>) = 1
      BY <3>1
    <3>3. idle = <<idle[1]>>
      BY <2>1, <2>3, <3>2, SeqEqual
    <3> QED
      BY <3>1, <3>3
  <2>4. Len(idle) = 0 \/ Len(idle) = 1
    <3>1. Len(idle) \in Nat
      BY <2>1, LenProperties
    <3>2. \A n \in Nat : n <= 1 => n = 0 \/ n = 1
      OBVIOUS
    <3> QED
      BY <2>1, <3>1, <3>2, Zenon
  <2> QED
    BY <2>1, <2>2, <2>3, <2>4
<1>2. RemoveBack = <<>>
  <2>1. ASSUME NEW d \in Conns, idle = <<d>> PROVE SubSeq(idle, 1, Len(idle) - 1) = <<>>
    <3>1. Len(<<d>>) = 1
      OBVIOUS
    <3>2. SubSeq(<<d>>, 1, 0) = <<>>
      BY SubSeqEmpty
    <3> QED
      BY <2>1, <3>1, <3>2
  <2> QED
    BY <1>1, <2>1 DEF RemoveBack
<1>3. \A c \in Conns : PutConn(<<>>, c) = <<c>> /\ PutConn(idle, c) = <<c>>
  <2> SUFFICES ASSUME NEW c \in Conns
               PROVE  PutConn(<<>>, c) = <<c>> /\ PutConn(idle, c) = <<c>>
    OBVIOUS
  <2>1. Append(<<>>, c) = <<c>>
    <3>1. Append(<<>>, c) \in Seq(Conns) /\ Len(Append(<<>>, c)) = 1
      BY EmptySeq
    <3>2. Append(<<>>, c)[1] = c
      BY EmptySeq
    <3> QED
      BY <3>1, <3>2, SeqEqual
  <2>2. PutConn(<<>>, c) = <<c>>
    BY <2>1 DEF PutConn, MaxIdle
  <2>3. ASSUME NEW d \in Conns, idle = <<d>> PROVE PutConn(idle, c) = <<c>>
    <3>1. Tail(<<d>>) = <<>>
      BY HeadTailProperties
    <3> QED
      BY <2>1, <2>3, <3>1 DEF PutConn, MaxIdle
  <2> QED
    BY <1>1, <2>2, <2>3
<1>4. ASSUME NEW c \in GetConn
      PROVE  /\ c \in Conns
             /\ c \notin retaken =>
                   ~multi[c] /\ \A s \in Requests : Holds(s) => conn[s] # c
  <2>1. CASE idle = <<>>
    BY <2>1 DEF GetConn, Dialed, Holds
  <2>2. CASE idle # <<>>
    <3>1. InPool(c) /\ c \in Conns
      BY <1>1, <2>2 DEF GetConn, InPool
    <3> QED
      BY <3>1 DEF TransactionInv, PoolInv, OwnerInv, Secure
  <2> QED
    BY <2>1, <2>2
<1> QED
  BY <1>2, <1>3, <1>4

\* The steps of a handler at work leave every connection that was never
\* retaken with its owner: a connection may pass through the pool, the handler
\* may queue one command on its own connection, and a name may be queued on a
\* retaken one.
LEMMA HandlerStep ==
    ASSUME TypeOK, TransactionInv,
           NEW r \in Requests, pc[r] \in {"running", "claiming"},
           NEW l \in {"running", "claiming", "abort", "deferredAbort"},
           pc' = [pc EXCEPT ![r] = l],
           multi' = multi, conn' = conn, returned' = returned,
           retaken \subseteq retaken',
           \A s \in Requests \ {r} : claim'[s] = claim[s],
           l = "claiming" => claim'[r] \in Names,
           idle' = idle \/ \E c \in GetConn : idle' = <<c>>,
           \/ queue' = queue /\ wrote' = wrote
           \/ \E k \in Keys, v \in {r, NoObj} :
                 /\ multi[conn[r]]
                 /\ queue' = [queue EXCEPT ![conn[r]][k] = v]
                 /\ wrote' = [wrote EXCEPT ![r][k] = v]
           \/ \E c \in retaken, n \in Names :
                 /\ multi[c] /\ wrote' = wrote
                 /\ queue' = [queue EXCEPT ![c][n] = r]
    PROVE  TransactionInv'
<1> USE ConstantsAssumption
<1>1. /\ r \notin returned /\ Open(r) /\ Active(r) /\ Holds(r)
      /\ conn[r] \in Conns /\ retaken \subseteq Conns
  BY DEF TransactionInv, PhaseInv, Open, Active, Holds, TypeOK
<1>2. /\ \A s \in Requests : /\ Holds(s)' <=> Holds(s)
                             /\ Active(s)' <=> Active(s)
                             /\ Open(s)' <=> Open(s)
                             /\ Secure(s)' => Secure(s)
                             /\ s # r => pc'[s] = pc[s]
      /\ pc'[r] = l
  BY <1>1 DEF TypeOK, Holds, Active, Open, Secure
<1>3. PhaseInv'
  <2>1. \A s \in Requests, k \in Keys :
          wrote'[s][k] = wrote[s][k] \/ (s = r /\ wrote'[s][k] \in {r, NoObj})
    BY DEF TypeOK
  <2> QED
    BY <1>1, <1>2, <2>1 DEF TransactionInv, PhaseInv
<1>4. \A c \in Conns \ retaken' : InPool(c)' =>
        /\ ~multi[c] /\ \A s \in Requests : Holds(s) => conn[s] # c
  <2>1. CASE idle' = idle
    BY <2>1 DEF InPool, TransactionInv, PoolInv, OwnerInv, Secure
  <2>2. ASSUME NEW d \in GetConn, idle' = <<d>>
        PROVE  \A c \in Conns : InPool(c)' => c = d
    BY <2>2 DEF InPool
  <2> QED
    BY <2>1, <2>2, PoolOfOne
<1>5. \A c \in Conns : /\ c # conn[r] /\ c \notin retaken => queue'[c] = queue[c]
                       /\ ~multi[c] => queue'[c] = queue[c]
  BY <1>1 DEF TypeOK
<1>6. PoolInv'
  <2>1. Len(idle') <= MaxIdle
    <3>1. CASE idle' = idle
      BY <3>1 DEF TransactionInv, PoolInv
    <3>2. CASE \E c \in GetConn : idle' = <<c>>
      BY <3>2 DEF MaxIdle
    <3> QED
      BY <3>1, <3>2
  <2>2. \A c \in Conns : ~multi'[c] => queue'[c] = NothingQueued
    BY <1>5 DEF TransactionInv, PoolInv
  <2> QED
    BY <2>1, <2>2, <1>4 DEF PoolInv
<1>7. OwnerInv'
  <2>1. \A s \in Requests : Holds(s) => conn[s] \in Conns
    BY DEF TypeOK, Holds
  <2> QED
    BY <1>2, <1>4, <2>1 DEF TransactionInv, OwnerInv, Secure
<1>8. QueueInv'
  <2>1. ASSUME NEW s \in Requests, Open(s), Secure(s), s # r
        PROVE  queue'[conn[s]] = queue[conn[s]] /\ wrote'[s] = wrote[s]
    <3>1. conn[s] # conn[r] /\ conn[s] \in Conns /\ conn[s] \notin retaken
      BY <1>1, <2>1 DEF TransactionInv, OwnerInv, Open, Holds, TypeOK, Secure
    <3> QED
      BY <1>5, <2>1, <3>1 DEF TypeOK
  <2>2. ASSUME Secure(r)
        PROVE  /\ \A k \in Keys : queue'[conn[r]][k] = wrote'[r][k]
               /\ \A n \in Names : queue'[conn[r]][n] = Untouched
    <3>1. CASE queue' = queue /\ wrote' = wrote
      BY <1>1, <2>2, <3>1 DEF TransactionInv, QueueInv
    <3>2. ASSUME NEW k \in Keys, NEW v \in {r, NoObj},
                 queue' = [queue EXCEPT ![conn[r]][k] = v],
                 wrote' = [wrote EXCEPT ![r][k] = v]
          PROVE  /\ \A j \in Keys : queue'[conn[r]][j] = wrote'[r][j]
                 /\ \A n \in Names : queue'[conn[r]][n] = Untouched
      <4>1. queue'[conn[r]] = [queue[conn[r]] EXCEPT ![k] = v]
        BY <1>1, <3>2 DEF TypeOK
      <4>2. wrote'[r] = [wrote[r] EXCEPT ![k] = v]
        BY <3>2 DEF TypeOK
      <4>3. queue[conn[r]] \in [Keys \cup Names -> Requests \cup {NoObj, Untouched}]
        BY <1>1 DEF TypeOK
      <4>4. wrote[r] \in [Keys -> Requests \cup {NoObj, Untouched}]
        BY DEF TypeOK
      <4> QED
        BY <1>1, <2>2, <4>1, <4>2, <4>3, <4>4 DEF TransactionInv, QueueInv
    <3>3. ASSUME NEW c \in retaken, NEW n \in Names, wrote' = wrote,
                 queue' = [queue EXCEPT ![c][n] = r]
          PROVE  /\ \A j \in Keys : queue'[conn[r]][j] = wrote'[r][j]
                 /\ \A m \in Names : queue'[conn[r]][m] = Untouched
      <4>1. queue'[conn[r]] = queue[conn[r]]
        BY <1>1, <2>2, <3>3 DEF TypeOK, Secure
      <4> QED
        BY <1>1, <2>2, <3>3, <4>1 DEF TransactionInv, QueueInv
    <3> QED
      BY <3>1, <3>2, <3>3
  <2> QED
    BY <1>2, <2>1, <2>2 DEF TransactionInv, QueueInv
<1> QED
  BY <1>3, <1>6, <1>7, <1>8 DEF TransactionInv

\* What a handler sends is queued, or, outside MULTI, stored; and it is queued
\* unless the request's connection was retaken.
LEMMA SendQueues ==
    ASSUME TypeOK, TransactionInv,
           NEW r \in Requests, pc[r] \in {"running", "claiming"},
           NEW k \in Keys, NEW v, Send(r, k, v)
    PROVE  /\ Secure(r) => multi[conn[r]]
           /\ multi[conn[r]] => /\ queue' = [queue EXCEPT ![conn[r]][k] = v]
                                /\ wrote' = [wrote EXCEPT ![r][k] = v]
                                /\ store' = store
           /\ ~multi[conn[r]] => /\ queue' = queue /\ wrote' = wrote
                                 /\ store' = [store EXCEPT ![k] = v]
<1>1. Secure(r) => multi[conn[r]]
  BY DEF TransactionInv, PhaseInv, QueueInv, Open, Active, Holds
<1> QED
  BY <1>1 DEF Send

\* Ending the transaction of a request, or discarding on its connection once
\* more, leaves the connection quiet.
LEMMA EndStep ==
    ASSUME TypeOK, TransactionInv,
           NEW r \in Requests,
           pc[r] \in {"running", "abort", "deferredAbort"},
           NEW l \in {"close", "lastClose"}, r \in returned => l = "lastClose",
           pc' = [pc EXCEPT ![r] = l],
           multi' = [multi EXCEPT ![conn[r]] = FALSE],
           queue' = [queue EXCEPT ![conn[r]] = NothingQueued],
           UNCHANGED <<conn, returned, retaken, idle, wrote, claim>>
    PROVE  TransactionInv'
<1> DEFINE c == conn[r]
<1>1. Active(r) /\ c \in Conns
  BY DEF Active, TypeOK
<1>2. /\ \A s \in Requests : /\ Holds(s)' <=> Holds(s)
                             /\ Active(s)' <=> Active(s)
                             /\ Secure(s)' <=> Secure(s)
                             /\ s # r => pc'[s] = pc[s] /\ (Open(s)' <=> Open(s))
      /\ pc'[r] = l /\ ~Open(r)'
  BY <1>1 DEF TypeOK, Holds, Active, Open, Secure
<1>3. /\ \A d \in Conns : InPool(d)' = InPool(d)
      /\ ~multi'[c] /\ queue'[c] = NothingQueued
      /\ \A d \in Conns : d # c => multi'[d] = multi[d] /\ queue'[d] = queue[d]
  BY <1>1 DEF InPool, TypeOK
<1>4. PhaseInv'
  BY <1>2 DEF TransactionInv, PhaseInv
<1>5. PoolInv'
  BY <1>3 DEF TransactionInv, PoolInv, TypeOK
<1>6. OwnerInv'
  BY <1>2, <1>3 DEF TransactionInv, OwnerInv, InPool
<1>7. QueueInv'
  <2> SUFFICES ASSUME NEW s \in Requests, Active(s), Secure(s)
               PROVE  /\ (multi'[conn[s]] <=> Open(s)')
                      /\ Open(s)' => /\ \A k \in Keys : queue'[conn[s]][k] = wrote[s][k]
                                     /\ \A n \in Names : queue'[conn[s]][n] = Untouched
    BY <1>2 DEF QueueInv, Open, Active, Holds
  <2>1. conn[s] \in Conns
    BY DEF Active, TypeOK
  <2>2. CASE s = r
    BY <1>1, <1>2, <1>3, <2>2
  <2>3. CASE s # r /\ conn[s] # c
    BY <1>2, <1>3, <2>1, <2>3 DEF TransactionInv, QueueInv
  <2>4. CASE s # r /\ conn[s] = c
    <3>1. ~Open(s)
      BY <1>1, <2>4 DEF TransactionInv, OwnerInv, Open
    <3> QED
      BY <1>2, <1>3, <2>4, <3>1
  <2> QED
    BY <2>2, <2>3, <2>4
<1> QED
  BY <1>4, <1>5, <1>6, <1>7 DEF TransactionInv

LEMMA InitTransactionInv == Init => TransactionInv
<1> SUFFICES ASSUME Init PROVE TransactionInv
  OBVIOUS
<1>1. \A r \in Requests : ~Holds(r) /\ ~Active(r) /\ ~Open(r)
  BY DEF Init, Holds, Active, Open
<1>2. \A c \in Conns : ~InPool(c)
  BY DEF Init, InPool
<1>3. PhaseInv
  BY DEF Init, PhaseInv
<1>4. PoolInv
  BY <1>2 DEF Init, PoolInv, MaxIdle
<1> QED
  BY <1>1, <1>2, <1>3, <1>4 DEF TransactionInv, OwnerInv, QueueInv

\* A request begins on a connection that is nobody's, or that counts as
\* retaken from now on.
LEMMA BeginStep ==
    ASSUME TypeOK, TransactionInv, NEW r \in Requests, Begin(r)
    PROVE  TransactionInv'
<1> USE ConstantsAssumption
<1>1. PICK c \in Conns : /\ Take(c)
                        /\ conn' = [conn EXCEPT ![r] = c]
                        /\ idle' = RemoveBack
                        /\ multi' = [multi EXCEPT ![c] = TRUE]
  BY DEF Begin
<1>2. /\ pc[r] = "new" /\ pc' = [pc EXCEPT ![r] = "running"]
      /\ UNCHANGED <<queue, wrote, returned, claim>>
  BY DEF Begin, Goto
<1>3. /\ c \in GetConn /\ idle' = <<>>
      /\ retaken' = IF AbortAhead(c) THEN retaken \cup {c} ELSE retaken
  BY <1>1, PoolOfOne DEF Take
<1>4. r \notin returned
  BY <1>2 DEF TransactionInv, PhaseInv
<1>5. /\ \A s \in Requests : s # r => /\ Holds(s)' <=> Holds(s)
                                      /\ Active(s)' <=> Active(s)
                                      /\ Open(s)' <=> Open(s)
                                      /\ Secure(s)' => Secure(s)
                                      /\ conn'[s] = conn[s]
                                      /\ pc'[s] = pc[s]
      /\ pc'[r] = "running" /\ conn'[r] = c /\ Holds(r)' /\ Open(r)' /\ Active(r)'
  BY <1>1, <1>2, <1>3, <1>4 DEF TypeOK, Holds, Active, Open, Secure
<1>6. c \notin retaken' =>
        ~multi[c] /\ \A s \in Requests : Active(s) => conn[s] # c
  <2> SUFFICES ASSUME c \notin retaken'
               PROVE  ~multi[c] /\ \A s \in Requests : Active(s) => conn[s] # c
    OBVIOUS
  <2>1. c \notin retaken /\ ~AbortAhead(c)
    BY <1>3
  <2>2. ~multi[c] /\ \A s \in Requests : Holds(s) => conn[s] # c
    BY <1>3, <2>1, PoolOfOne
  <2>3. \A s \in Requests : Active(s) => Holds(s) \/ BetweenAborts(s)
    BY DEF Active, Holds, BetweenAborts
  <2> QED
    BY <2>1, <2>2, <2>3 DEF AbortAhead
<1>7. \A d \in Conns : ~InPool(d)'
  BY <1>3 DEF InPool
<1>8. PhaseInv'
  BY <1>2, <1>4, <1>5 DEF TransactionInv, PhaseInv
<1>9. PoolInv'
  <2>1. Len(idle') <= MaxIdle
    BY <1>3 DEF MaxIdle
  <2> QED
    BY <1>1, <1>2, <1>7, <2>1 DEF TransactionInv, PoolInv, TypeOK
<1>10. OwnerInv'
  <2>1. ASSUME NEW s \in Requests, Holds(s)', Secure(s)',
               NEW t \in Requests \ {s}, Active(t)'
        PROVE  conn'[t] # conn'[s]
    <3>1. CASE s = r
      BY <1>5, <1>6, <2>1, <3>1 DEF Secure
    <3>2. CASE t = r
      <4>1. s # r /\ Active(s) /\ conn'[s] = conn[s] /\ conn[s] \notin retaken'
        BY <1>5, <2>1, <3>2 DEF Secure, Holds, Active
      <4> QED
        BY <1>5, <1>6, <3>2, <4>1
    <3>3. CASE s # r /\ t # r
      BY <1>5, <2>1, <3>3 DEF TransactionInv, OwnerInv
    <3> QED
      BY <3>1, <3>2, <3>3
  <2>2. \A s \in Requests : Holds(s)' => conn'[s] \in Conns
    BY <1>5 DEF TypeOK, Holds
  <2> QED
    BY <1>7, <2>1, <2>2 DEF OwnerInv
<1>11. QueueInv'
  <2>1. ASSUME Secure(r)'
        PROVE  /\ multi'[c]
               /\ \A k \in Keys : queue[c][k] = wrote[r][k]
               /\ \A n \in Names : queue[c][n] = Untouched
    <3>1. queue[c] = NothingQueued
      BY <1>5, <1>6, <2>1 DEF TransactionInv, PoolInv, Secure
    <3> QED
      BY <1>1, <1>2, <3>1 DEF TypeOK, NothingQueued, TransactionInv, PhaseInv
  <2>2. ASSUME NEW s \in Requests, s # r, Active(s), Secure(s)'
        PROVE  multi'[conn[s]] = multi[conn[s]]
    <3>1. conn[s] # c /\ conn[s] \in Conns
      BY <1>5, <1>6, <2>2 DEF Secure, Active, TypeOK
    <3> QED
      BY <1>1, <3>1 DEF TypeOK
  <2>3. ASSUME NEW s \in Requests, Secure(s)'
        PROVE  /\ Active(s)' => (multi'[conn'[s]] <=> Open(s)')
               /\ Open(s)' => /\ \A k \in Keys : queue'[conn'[s]][k] = wrote'[s][k]
                              /\ \A n \in Names : queue'[conn'[s]][n] = Untouched
    <3>1. CASE s = r
      BY <1>2, <1>5, <2>1, <2>3, <3>1
    <3>2. CASE s # r
      BY <1>2, <1>5, <2>2, <2>3, <3>2 DEF TransactionInv, QueueInv
    <3> QED
      BY <3>1, <3>2
  <2> QED
    BY <2>3 DEF QueueInv
<1> QED
  BY <1>8, <1>9, <1>10, <1>11 DEF TransactionInv

LEMMA CloseStep ==
    ASSUME TypeOK, TransactionInv, NEW r \in Requests, Close(r)
    PROVE  TransactionInv'
<1> DEFINE l == IF pc[r] = "close" THEN "deferredAbort" ELSE "done"
<1>1. /\ pc[r] \in {"close", "lastClose"} /\ pc' = [pc EXCEPT ![r] = l]
      /\ returned' = returned \cup {r}
      /\ UNCHANGED <<multi, queue, conn, wrote, retaken, claim>>
  BY DEF Close, Goto, redisVars
<1>2. Active(r) /\ ~Open(r) /\ conn[r] \in Conns
  BY <1>1 DEF Active, Open, TypeOK
<1>3. idle' = <<conn[r]>>
  BY <1>2, PoolOfOne DEF Close
<1>4. /\ \A s \in Requests : s # r => /\ Holds(s)' <=> Holds(s)
                                      /\ Active(s)' <=> Active(s)
                                      /\ Open(s)' <=> Open(s)
                                      /\ pc'[s] = pc[s]
      /\ \A s \in Requests : Secure(s)' <=> Secure(s)
      /\ pc'[r] = l /\ ~Holds(r)' /\ ~Open(r)'
  BY <1>1 DEF TypeOK, Holds, Active, Open, Secure
<1>5. \A d \in Conns : InPool(d)' => d = conn[r]
  BY <1>3 DEF InPool
<1>6. Secure(r) => ~multi[conn[r]]
  BY <1>2 DEF TransactionInv, QueueInv
<1>7. PhaseInv'
  BY <1>1, <1>4 DEF TransactionInv, PhaseInv
<1>8. PoolInv'
  <2>1. Len(idle') <= MaxIdle
    BY <1>3 DEF MaxIdle
  <2> QED
    BY <1>1, <1>5, <1>6, <2>1 DEF TransactionInv, PoolInv, Secure
<1>9. OwnerInv'
  <2>1. \A s \in Requests : s # r /\ Holds(s) /\ Secure(s)
          => conn[s] # conn[r] /\ conn[s] \in Conns
    BY <1>2 DEF TransactionInv, OwnerInv, TypeOK, Holds
  <2>2. Active(r)' => Active(r)
    BY <1>2
  <2> QED
    BY <1>1, <1>4, <1>5, <2>1, <2>2 DEF TransactionInv, OwnerInv
<1>10. QueueInv'
  BY <1>1, <1>4, <1>6 DEF TransactionInv, QueueInv
<1> QED
  BY <1>7, <1>8, <1>9, <1>10 DEF TransactionInv

LEMMA NextTransactionInv ==
    TypeOK /\ TransactionInv /\ [Next]_vars => TransactionInv'
<1> SUFFICES ASSUME TypeOK, TransactionInv, [Next]_vars PROVE TransactionInv'
  OBVIOUS
<1>borrow. ASSUME NEW c, Borrow(c)
           PROVE  /\ \E d \in GetConn : idle' = <<d>>
                  /\ retaken \subseteq retaken'
  BY <1>borrow, PoolOfOne DEF Borrow, Take
<1>1. ASSUME NEW r \in Requests, NEW k \in Keys, Read(r, k) PROVE TransactionInv'
  <2>1. /\ pc[r] = "running" /\ \E c \in GetConn : Borrow(c)
        /\ \E l \in {"running", "abort"} : pc' = [pc EXCEPT ![r] = l]
        /\ UNCHANGED <<multi, queue, conn, wrote, returned, claim>>
    BY <1>1 DEF Read, Operate, Fetch, Proceed, Goto, redisVars
  <2> QED
    BY <2>1, <1>borrow, HandlerStep
<1>sent. ASSUME NEW r \in Requests, NEW k \in Keys, NEW v \in {r, NoObj},
                pc[r] \in {"running", "claiming"}, Send(r, k, v)
         PROVE  \/ queue' = queue /\ wrote' = wrote
                \/ \E j \in Keys, w \in {r, NoObj} :
                      /\ multi[conn[r]]
                      /\ queue' = [queue EXCEPT ![conn[r]][j] = w]
                      /\ wrote' = [wrote EXCEPT ![r][j] = w]
  BY <1>sent, SendQueues
<1>2. ASSUME NEW r \in Requests, NEW k \in Keys, NEW v \in {r, NoObj},
             pc[r] = "running", Send(r, k, v), Proceed(r, Queued(r), "running"),
             UNCHANGED <<multi, idle, conn, returned, retaken, claim>>
      PROVE  TransactionInv'
  <2>1. \E l \in {"running", "abort"} : pc' = [pc EXCEPT ![r] = l]
    BY <1>2 DEF Proceed, Goto
  <2>2. \/ queue' = queue /\ wrote' = wrote
        \/ \E j \in Keys, w \in {r, NoObj} :
              /\ multi[conn[r]]
              /\ queue' = [queue EXCEPT ![conn[r]][j] = w]
              /\ wrote' = [wrote EXCEPT ![r][j] = w]
    <3>1. pc[r] \in {"running", "claiming"} /\ Send(r, k, v)
      BY <1>2
    <3>2. CASE multi[conn[r]]
      <4>1. /\ queue' = [queue EXCEPT ![conn[r]][k] = v]
            /\ wrote' = [wrote EXCEPT ![r][k] = v]
        BY <3>1, <3>2, SendQueues
      <4> QED
        BY <3>2, <4>1
    <3>3. CASE ~multi[conn[r]]
      BY <3>1, <3>3, SendQueues
    <3> QED
      BY <3>2, <3>3
  <2>3. idle' = idle /\ claim' = claim /\ retaken' = retaken
        /\ UNCHANGED <<multi, conn, returned>>
    BY <1>2
  <2> QED
    BY <1>2, <2>1, <2>2, <2>3, HandlerStep
<1>3. ASSUME NEW r \in Requests, NEW k \in Keys, Update(r, k) PROVE TransactionInv'
  BY <1>2, <1>3 DEF Update, Operate
<1>4. ASSUME NEW r \in Requests, NEW k \in Objects, Delete(r, k) PROVE TransactionInv'
  BY <1>2, <1>4 DEF Delete, Operate, Keys
<1>5. ASSUME NEW r \in Requests, NEW n \in UserNames, CheckUserId(r, n)
      PROVE TransactionInv'
  <2>1. /\ pc[r] = "running" /\ Send(r, r, r) /\ r \in Keys
        /\ UNCHANGED <<multi, conn, returned>>
        /\ claim' = [claim EXCEPT ![r] = n] /\ n \in Names
    BY <1>5 DEF CheckUserId, Operate, Keys, Names
  <2>2. /\ idle' = idle \/ \E c \in GetConn : idle' = <<c>>
        /\ retaken \subseteq retaken'
        /\ \E l \in {"claiming", "abort"} : pc' = [pc EXCEPT ![r] = l]
    BY <1>5, <1>borrow DEF CheckUserId, Proceed, Goto
  <2> QED
    BY <1>sent, <2>1, <2>2, HandlerStep DEF TypeOK
<1>6. ASSUME NEW r \in Requests, NEW n \in RealmNames, CheckRealmName(r, n)
      PROVE TransactionInv'
  <2>1. /\ pc[r] = "running" /\ \E c \in GetConn : Borrow(c)
        /\ \E l \in {"claiming", "abort"} : pc' = [pc EXCEPT ![r] = l]
        /\ UNCHANGED <<multi, queue, conn, wrote, returned>>
        /\ claim' = [claim EXCEPT ![r] = n] /\ n \in Names
    BY <1>6 DEF CheckRealmName, Operate, Proceed, Goto, redisVars, Names
  <2> QED
    BY <1>borrow, <2>1, HandlerStep DEF TypeOK
<1>7. ASSUME NEW r \in Requests, ClaimName(r) PROVE TransactionInv'
  <2>1. PICK c \in GetConn :
          /\ Borrow(c)
          /\ IF multi[c]
             THEN /\ queue' = [queue EXCEPT ![c][claim[r]] = r]
                  /\ Goto(r, "abort")
                  /\ UNCHANGED <<store, names, wrote>>
             ELSE /\ names' = [names EXCEPT ![claim[r]] = r]
                  /\ IF names[claim[r]] = NoObj
                     THEN Send(r, r, r) /\ Proceed(r, Queued(r), "running")
                     ELSE Goto(r, "abort") /\ UNCHANGED <<store, queue, wrote>>
    BY <1>7 DEF ClaimName
  <2>2. /\ pc[r] = "claiming" /\ r \in Keys /\ c \in Conns
        /\ UNCHANGED <<multi, conn, returned, claim>> /\ claim[r] \in Names
    BY <1>7, PoolOfOne DEF ClaimName, Keys, TransactionInv, PhaseInv
  <2>3. \E l \in {"running", "abort"} : pc' = [pc EXCEPT ![r] = l]
    BY <2>1, <2>2 DEF Proceed, Goto
  <2>4. CASE multi[c]
    <3>1. c \in retaken
      BY <2>4, PoolOfOne
    <3>2. queue' = [queue EXCEPT ![c][claim[r]] = r] /\ wrote' = wrote
      BY <2>1, <2>4
    <3> QED
      BY <1>7, <1>borrow, <2>1, <2>2, <2>3, <2>4, <3>1, <3>2, HandlerStep
  <2>5. CASE ~multi[c]
    <3>1. \/ queue' = queue /\ wrote' = wrote
          \/ \E j \in Keys, w \in {r, NoObj} :
               /\ multi[conn[r]]
               /\ queue' = [queue EXCEPT ![conn[r]][j] = w]
               /\ wrote' = [wrote EXCEPT ![r][j] = w]
      <4>1. CASE names[claim[r]] = NoObj
        BY <1>sent, <2>1, <2>2, <2>5, <4>1
      <4>2. CASE names[claim[r]] # NoObj
        BY <2>1, <2>2, <2>5, <4>2
      <4> QED
        BY <4>1, <4>2
    <3> QED
      BY <1>borrow, <2>1, <2>2, <2>3, <3>1, HandlerStep
  <2> QED
    BY <2>4, <2>5
<1>8. ASSUME NEW r \in Requests, Fail(r) \/ Panic(r) PROVE TransactionInv'
  <2>1. /\ pc[r] = "running"
        /\ \E l \in {"abort", "deferredAbort"} : pc' = [pc EXCEPT ![r] = l]
        /\ UNCHANGED <<multi, queue, idle, conn, wrote, returned, retaken, claim>>
    BY <1>8 DEF Fail, Panic, Goto, redisVars, history
  <2> QED
    BY <2>1, HandlerStep
<1>9. ASSUME NEW r \in Requests, Commit(r) PROVE TransactionInv'
  <2>1. /\ pc[r] = "running" /\ r \notin returned /\ conn[r] \in Conns
        /\ pc' = [pc EXCEPT ![r] = "lastClose"]
        /\ UNCHANGED <<conn, returned, retaken, idle, wrote, claim>>
    BY <1>9 DEF Commit, Goto, history, TransactionInv, PhaseInv, TypeOK
  <2>2. /\ multi' = [multi EXCEPT ![conn[r]] = FALSE]
        /\ queue' = [queue EXCEPT ![conn[r]] = NothingQueued]
    <3>1. CASE multi[conn[r]]
      BY <1>9, <3>1 DEF Commit
    <3>2. CASE ~multi[conn[r]]
      <4>1. multi' = multi /\ queue' = queue /\ queue[conn[r]] = NothingQueued
        BY <1>9, <2>1, <3>2 DEF Commit, redisVars, TransactionInv, PoolInv
      <4> QED
        BY <2>1, <3>2, <4>1 DEF TypeOK
    <3> QED
      BY <3>1, <3>2
  <2> QED
    BY <2>1, <2>2, EndStep
<1>10. ASSUME NEW r \in Requests, Abort(r) PROVE TransactionInv'
  <2>1. r \in returned => pc[r] = "deferredAbort"
    BY <1>10 DEF Abort, TransactionInv, PhaseInv
  <2> QED
    BY <1>10, <2>1, EndStep DEF Abort, Goto, history
<1>11. CASE UNCHANGED vars
  BY <1>11 DEF vars, redisVars, requestVars, history, TransactionInv, PhaseInv,
     PoolInv, OwnerInv, QueueInv, InPool, Holds, Active, Open, Secure
<1> QED
  BY <1>1, <1>3, <1>4, <1>5, <1>6, <1>7, <1>8, <1>9, <1>10, <1>11,
     BeginStep, CloseStep
  DEF Next, Step, Quiescent

\* Between its Begin and its end a request whose connection was never retaken
\* has it for itself, and what is queued there is what its handler was told is
\* queued, whatever the other requests do, failed ones that abort twice
\* included: the inductive invariant of the request layer.
THEOREM TransactionsIsolated == Spec => []TransactionInv
<1>1. Init => TypeOK /\ TransactionInv
  BY InitTypeOK, InitTransactionInv
<1>2. TypeOK /\ TransactionInv /\ [Next]_vars => (TypeOK /\ TransactionInv)'
  BY NextTypeOK, NextTransactionInv
<1> QED
  BY <1>1, <1>2, PTL DEF Spec

\* No connection that was never retaken serves two requests at once: none is
\* in the pool while a request holds it, and nobody else's commands are queued
\* on it.
THEOREM ConnectionsOwned == Spec => []ConnectionOwned
<1>1. TypeOK /\ TransactionInv => ConnectionOwned
  <2> SUFFICES ASSUME TypeOK, TransactionInv,
                      NEW r \in Requests, Holds(r), Secure(r)
               PROVE  /\ ~InPool(conn[r])
                      /\ \A s \in Requests \ {r} : Holds(s) => conn[s] # conn[r]
                      /\ \A k \in Keys \cup Names :
                            queue[conn[r]][k] \in {r, NoObj, Untouched}
    BY DEF ConnectionOwned
  <2>1. conn[r] \in Conns /\ Active(r)
    BY DEF Holds, Active, TypeOK
  <2>2. /\ ~InPool(conn[r])
        /\ \A s \in Requests \ {r} : Holds(s) => conn[s] # conn[r]
    BY DEF TransactionInv, OwnerInv, Holds, Active
  <2>3. CASE Open(r)
    BY <2>2, <2>3 DEF TransactionInv, QueueInv, PhaseInv
  <2>4. CASE ~Open(r)
    <3>1. queue[conn[r]] = NothingQueued
      BY <2>1, <2>4 DEF TransactionInv, QueueInv, PoolInv
    <3> QED
      BY <2>2, <3>1 DEF NothingQueued
  <2> QED
    BY <2>3, <2>4
<1> QED
  BY <1>1, TypeCorrect, TransactionsIsolated, PTL

(***************************************************************************)
(* The request layer implements AtomicStore.                               *)
(***************************************************************************)

\* A step in which r stays at work neither ends r nor any other request.
LEMMA EndedUnchanged ==
    ASSUME TypeOK, NEW r \in Requests, pc[r] \in {"new", "running", "claiming"},
           NEW l \in {"running", "claiming", "abort", "deferredAbort"},
           pc' = [pc EXCEPT ![r] = l], returned' = returned
    PROVE  ended' = ended
BY DEF TypeOK, ended

\* A step that only queues a command for r is an Intend of r.
LEMMA IntendStep ==
    ASSUME TypeOK, TransactionInv, NEW r \in Requests, Secure(r),
           pc[r] \in {"running", "claiming"},
           NEW k \in Keys, NEW v \in Requests \cup {NoObj}, Send(r, k, v),
           NEW l \in {"running", "claiming", "abort", "deferredAbort"},
           pc' = [pc EXCEPT ![r] = l], returned' = returned
    PROVE  Abstract!Next
<1>1. /\ wrote' = [wrote EXCEPT ![r][k] = v]
      /\ store' = store
  <2>1. multi[conn[r]]
    BY DEF TransactionInv, PhaseInv, QueueInv, Open, Active, Holds
  <2> QED
    BY <2>1 DEF Send
<1>2. r \notin ended /\ ended' = ended
  BY EndedUnchanged DEF TransactionInv, PhaseInv, ended
<1>3. v \in Versions \cup {NoObj}
  BY DEF Versions
<1>4. Abstract!Intend(r, k, v)
  BY <1>1, <1>2 DEF Abstract!Intend
<1> QED
  BY <1>3, <1>4 DEF Abstract!Next

LEMMA SimulationInit == Init => Abstract!Init
BY DEF Init, Abstract!Init, ended

\* A retaken connection remains one.
LEMMA RetakenRemain == ASSUME [Next]_vars PROVE retaken \subseteq retaken'
<1>1. ASSUME NEW c, Take(c) PROVE retaken \subseteq retaken'
  BY <1>1 DEF Take
<1>2. ASSUME NEW c, Borrow(c) PROVE retaken \subseteq retaken'
  BY <1>1, <1>2 DEF Borrow
<1>3. ASSUME NEW r \in Requests, Begin(r) PROVE retaken \subseteq retaken'
  BY <1>1, <1>3 DEF Begin
<1>4. ASSUME NEW r \in Requests, NEW k \in Keys, Read(r, k) PROVE retaken \subseteq retaken'
  BY <1>2, <1>4 DEF Read, Fetch
<1>5. ASSUME NEW r \in Requests, NEW k, Update(r, k) \/ Delete(r, k)
      PROVE  retaken \subseteq retaken'
  BY <1>5 DEF Update, Delete
<1>6. ASSUME NEW r \in Requests, NEW n, CheckUserId(r, n) PROVE retaken \subseteq retaken'
  BY <1>2, <1>6 DEF CheckUserId
<1>7. ASSUME NEW r \in Requests, NEW n, CheckRealmName(r, n)
      PROVE  retaken \subseteq retaken'
  BY <1>2, <1>7 DEF CheckRealmName
<1>8. ASSUME NEW r \in Requests, ClaimName(r) PROVE retaken \subseteq retaken'
  BY <1>2, <1>8 DEF ClaimName
<1>9. ASSUME NEW r \in Requests, Fail(r) \/ Panic(r) \/ Commit(r) \/ Abort(r) \/ Close(r)
      PROVE  retaken \subseteq retaken'
  BY <1>9 DEF Fail, Panic, Commit, Abort, Close, history
<1>10. CASE UNCHANGED vars
  BY <1>10 DEF vars, history
<1> QED
  BY <1>3, <1>4, <1>5, <1>6, <1>7, <1>8, <1>9, <1>10 DEF Next, Step, Quiescent

LEMMA SimulationStep ==
    TypeOK /\ TransactionInv /\ [Next]_vars
        => ((\A r \in Requests : Moves(r) => Secure(r)')
                => [Abstract!Next]_(Abstract!vars))
<1> SUFFICES ASSUME TypeOK, TransactionInv, [Next]_vars,
                    \A r \in Requests : Moves(r) => Secure(r)'
             PROVE  Abstract!Next \/ UNCHANGED Abstract!vars
  OBVIOUS
<1>secure. ASSUME NEW r \in Requests, conn' = conn,
                  pc'[r] # pc[r] \/ ops'[r] # ops[r]
           PROVE  Secure(r)
  BY <1>secure, RetakenRemain DEF Moves, Secure
<1>operates. ASSUME NEW r \in Requests, Operate(r) PROVE Secure(r)
  <2>1. conn' = conn /\ ops'[r] = ops[r] + 1 /\ ops[r] \in Nat
    BY <1>operates DEF Operate, TypeOK
  <2> QED
    BY <1>secure, <2>1
<1>1. ASSUME NEW r \in Requests, pc[r] \in {"new", "running", "claiming"},
             NEW l \in {"running", "claiming", "abort", "deferredAbort"},
             pc' = [pc EXCEPT ![r] = l], UNCHANGED <<store, wrote, returned>>
      PROVE  UNCHANGED Abstract!vars
  BY <1>1, EndedUnchanged DEF Abstract!vars
<1>2. ASSUME NEW r \in Requests, Begin(r) \/ Fail(r) \/ Panic(r)
      PROVE  UNCHANGED Abstract!vars
  BY <1>1, <1>2 DEF Begin, Fail, Panic, Goto, history, redisVars
<1>3. ASSUME NEW r \in Requests, NEW k \in Keys, Read(r, k)
      PROVE  UNCHANGED Abstract!vars
  <2>1. /\ pc[r] = "running" /\ UNCHANGED <<store, wrote, returned>>
        /\ \E l \in {"running", "abort"} : pc' = [pc EXCEPT ![r] = l]
    BY <1>3 DEF Read, Operate, Fetch, Proceed, Goto, redisVars
  <2> QED
    BY <1>1, <2>1
<1>4. ASSUME NEW r \in Requests, NEW k \in Keys, Update(r, k)
      PROVE  Abstract!Next
  <2>1. /\ pc[r] = "running" /\ Send(r, k, r) /\ UNCHANGED returned
        /\ \E l \in {"running", "abort"} : pc' = [pc EXCEPT ![r] = l]
    BY <1>4 DEF Update, Operate, Proceed, Goto
  <2>2. Secure(r)
    BY <1>4, <1>operates DEF Update
  <2> QED
    BY <2>1, <2>2, IntendStep
<1>5. ASSUME NEW r \in Requests, NEW k \in Objects, Delete(r, k)
      PROVE  Abstract!Next
  <2>1. /\ pc[r] = "running" /\ Send(r, k, NoObj) /\ UNCHANGED returned /\ k \in Keys
        /\ \E l \in {"running", "abort"} : pc' = [pc EXCEPT ![r] = l]
    BY <1>5 DEF Delete, Operate, Proceed, Goto, Keys
  <2>2. Secure(r)
    BY <1>5, <1>operates DEF Delete
  <2> QED
    BY <2>1, <2>2, IntendStep
<1>6. ASSUME NEW r \in Requests, NEW n \in UserNames, CheckUserId(r, n)
      PROVE  Abstract!Next
  <2>1. /\ pc[r] = "running" /\ Send(r, r, r) /\ UNCHANGED returned /\ r \in Keys
    BY <1>6 DEF CheckUserId, Operate, Keys
  <2>2. \E l \in {"claiming", "abort"} : pc' = [pc EXCEPT ![r] = l]
    BY <1>6 DEF CheckUserId, Proceed, Goto
  <2>3. Secure(r)
    BY <1>6, <1>operates DEF CheckUserId
  <2> QED
    BY <2>1, <2>2, <2>3, IntendStep
<1>7. ASSUME NEW r \in Requests, NEW n \in RealmNames, CheckRealmName(r, n)
      PROVE  UNCHANGED Abstract!vars
  <2>1. /\ pc[r] = "running" /\ UNCHANGED <<store, wrote, returned>>
        /\ \E l \in {"claiming", "abort"} : pc' = [pc EXCEPT ![r] = l]
    BY <1>7 DEF CheckRealmName, Operate, Proceed, Goto, redisVars
  <2> QED
    BY <1>1, <2>1
<1>8. ASSUME NEW r \in Requests, ClaimName(r)
      PROVE  Abstract!Next \/ UNCHANGED Abstract!vars
  <2>1. /\ pc[r] = "claiming" /\ UNCHANGED returned /\ r \in Keys
        /\ \E l \in {"running", "abort"} : pc' = [pc EXCEPT ![r] = l]
        /\ Send(r, r, r) \/ UNCHANGED <<store, wrote>>
    BY <1>8 DEF ClaimName, Proceed, Goto, Keys
  <2>2. CASE Send(r, r, r)
    <3>1. conn' = conn /\ pc'[r] # pc[r]
      BY <1>8, <2>1 DEF ClaimName, TypeOK
    <3>2. Secure(r)
      BY <1>secure, <3>1
    <3> QED
      BY <2>1, <2>2, <3>2, IntendStep
  <2>3. CASE UNCHANGED <<store, wrote>>
    BY <1>1, <2>1, <2>3
  <2> QED
    BY <2>1, <2>2, <2>3
<1>9. ASSUME NEW r \in Requests, Commit(r) PROVE Abstract!Next
  <2>s. Secure(r)
    <3>1. conn' = conn /\ pc'[r] # pc[r]
      BY <1>9 DEF Commit, Goto, TypeOK
    <3> QED
      BY <1>secure, <3>1
  <2>1. /\ pc[r] = "running" /\ r \notin returned /\ multi[conn[r]]
        /\ \A k \in Keys : queue[conn[r]][k] = wrote[r][k]
    BY <1>9, <2>s
    DEF Commit, TransactionInv, PhaseInv, QueueInv, Open, Active, Holds
  <2>2. store' = [k \in Keys |-> IF wrote[r][k] = Untouched THEN store[k]
                                                             ELSE wrote[r][k]]
    BY <1>9, <2>1 DEF Commit, After
  <2>3. r \notin ended /\ ended' = ended \cup {r} /\ wrote' = wrote
    BY <1>9, <2>1 DEF Commit, Goto, history, TypeOK, ended
  <2>4. Abstract!Apply(r)
    BY <2>2, <2>3 DEF Abstract!Apply
  <2> QED
    BY <2>4 DEF Abstract!Next
<1>10. ASSUME NEW r \in Requests, Abort(r)
       PROVE  Abstract!Next \/ UNCHANGED Abstract!vars
  <2>1. /\ pc[r] \in {"abort", "deferredAbort"} /\ UNCHANGED <<store, wrote, returned>>
        /\ \E l \in {"close", "lastClose"} : pc' = [pc EXCEPT ![r] = l]
    BY <1>10 DEF Abort, Goto, history
  <2>2. ended' = ended \cup {r}
    BY <2>1 DEF TypeOK, ended
  <2>3. CASE r \in returned
    BY <2>1, <2>2, <2>3 DEF ended, Abstract!vars
  <2>4. CASE r \notin returned
    <3>1. r \notin ended
      BY <2>1, <2>4 DEF ended
    <3>2. Abstract!Cancel(r)
      BY <2>1, <2>2, <3>1 DEF Abstract!Cancel
    <3> QED
      BY <3>2 DEF Abstract!Next
  <2> QED
    BY <2>3, <2>4
<1>11. ASSUME NEW r \in Requests, Close(r) PROVE UNCHANGED Abstract!vars
  <2>1. /\ pc[r] \in {"close", "lastClose"} /\ UNCHANGED <<store, wrote>>
        /\ returned' = returned \cup {r}
        /\ \E l \in {"deferredAbort", "done"} : pc' = [pc EXCEPT ![r] = l]
    BY <1>11 DEF Close, Goto, redisVars
  <2>2. ended' = ended
    BY <2>1 DEF TypeOK, ended
  <2> QED
    BY <2>1, <2>2 DEF Abstract!vars
<1>12. CASE UNCHANGED vars
  BY <1>12 DEF vars, redisVars, requestVars, history, Abstract!vars, ended
<1> QED
  BY <1>2, <1>3, <1>4, <1>5, <1>6, <1>7, <1>8, <1>9, <1>10, <1>11, <1>12
  DEF Next, Step, Quiescent

\* The store that handlers share changes only by one request's whole
\* intention at once, and a request that was aborted leaves nothing in it, in
\* every step but those of a request whose connection was retaken: the
\* connections, queues, caches and double aborts implement AtomicStore up to
\* those steps.
THEOREM AtomicStoreImplemented == Spec => ImplementsAtomicStore
<1>1. Init => Abstract!Init
  BY SimulationInit
<1>2. TypeOK /\ TransactionInv /\ [Next]_vars
        => [(\A r \in Requests : Moves(r) => Secure(r)')
               => [Abstract!Next]_(Abstract!vars)]_vars
  BY SimulationStep
<1> QED
  BY <1>1, <1>2, TypeCorrect, TransactionsIsolated, PTL
  DEF Spec, ImplementsAtomicStore
-----------------------------------------------------------------------------
(***************************************************************************)
(* What a handler reads.  The invariant is about one request at a time:    *)
(* nobody else touches its cache or its record of what it wrote, and a     *)
(* handler that was told of an error reads no more.  It holds on retaken   *)
(* connections too.                                                        *)
(***************************************************************************)
InHandler(r) == pc[r] \in {"running", "claiming"}

CacheOf(r) ==
    /\ pc[r] = "new" => \A k \in Keys : /\ cache[r][k] = NoObj /\ seen[r][k] = NoObj
                                        /\ wrote[r][k] = Untouched
    /\ InHandler(r) => \A k \in Keys :
          /\ wrote[r][k] = r => cache[r][k] = r
          /\ wrote[r][k] = Untouched /\ k # r => cache[r][k] = seen[r][k]
    /\ pc[r] = "claiming" => cache[r][r] = r

CacheInv == \A r \in Requests : CacheOf(r)

LEMMA NextCacheInv == TypeOK /\ CacheInv /\ [Next]_vars => CacheInv'
<1> SUFFICES ASSUME TypeOK, CacheInv, [Next]_vars, NEW s \in Requests
             PROVE  CacheOf(s)'
  BY DEF CacheInv
<1> USE ConstantsAssumption DEF Keys, Versions
<1>old. CacheOf(s)
  BY DEF CacheInv
<1>same. ASSUME UNCHANGED <<pc[s], cache[s], wrote[s], seen[s]>> PROVE CacheOf(s)'
  BY <1>same, <1>old DEF CacheOf, InHandler
<1>out. ASSUME pc'[s] \notin {"new", "running", "claiming"} PROVE CacheOf(s)'
  BY <1>out DEF CacheOf, InHandler
<1>types. /\ pc \in [Requests -> Labels]
          /\ cache \in [Requests -> [Keys -> Versions \cup {NoObj}]]
          /\ wrote \in [Requests -> [Keys -> Requests \cup {NoObj, Untouched}]]
          /\ seen \in [Requests -> [Keys -> Versions \cup {NoObj}]]
  BY DEF TypeOK, Labels
<1>1. ASSUME NEW r \in Requests, Begin(r) PROVE CacheOf(s)'
  <2>1. CASE s = r
    BY <1>1, <1>old, <1>types, <2>1 DEF Begin, Goto, CacheOf, InHandler
  <2>2. CASE s # r
    BY <1>1, <1>same, <1>types, <2>2 DEF Begin, Goto
  <2> QED BY <2>1, <2>2
<1>2. ASSUME NEW r \in Requests, NEW k \in Keys, Read(r, k) PROVE CacheOf(s)'
  <2>1. CASE s # r
    BY <1>2, <1>same, <1>types, <2>1 DEF Read, Operate, Fetch, Proceed, Goto
  <2>2. CASE s = r /\ pc'[r] = "running"
    <3>1. /\ pc[r] = "running" /\ cache[r][k] = NoObj /\ wrote' = wrote
          /\ cache' = [cache EXCEPT ![r][k] = store[k]]
          /\ seen' = IF seen[r][k] = NoObj THEN [seen EXCEPT ![r][k] = store[k]] ELSE seen
      BY <1>2, <1>types, <2>2 DEF Read, Operate, Fetch, Proceed, Goto
    <3>2. \A j \in Keys \ {k} : cache'[r][j] = cache[r][j] /\ seen'[r][j] = seen[r][j]
      BY <1>types, <3>1
    <3>3. cache'[r][k] = store[k] /\ (seen[r][k] = NoObj => seen'[r][k] = store[k])
      BY <1>types, <3>1
    <3>4. wrote[r][k] # r
      BY <1>old, <2>2, <3>1 DEF CacheOf, InHandler
    <3>5. wrote[r][k] = Untouched /\ k # r => seen[r][k] = NoObj
      BY <1>old, <2>2, <3>1 DEF CacheOf, InHandler
    <3> QED
      BY <1>old, <2>2, <3>1, <3>2, <3>3, <3>4, <3>5 DEF CacheOf, InHandler
  <2>3. CASE s = r /\ pc'[r] # "running"
    BY <1>2, <1>out, <1>types, <2>3 DEF Read, Operate, Fetch, Proceed, Goto
  <2> QED BY <2>1, <2>2, <2>3
<1>3. ASSUME NEW r \in Requests, NEW k \in Keys, NEW v \in {r, NoObj}, NEW l,
             InHandler(r), Send(r, k, v), seen' = seen,
             pc' = [pc EXCEPT ![r] = l],
             l \in {"running", "claiming"} => Queued(r),
             \/ Remember(r, k, v)
             \/ pc[r] = "claiming" /\ k = r /\ v = r /\ cache' = cache,
             l = "claiming" => k = r /\ v = r,
             l # "new"
      PROVE  CacheOf(s)'
  <2>1. CASE s # r
    BY <1>3, <1>same, <1>types, <2>1 DEF Send, Remember
  <2>2. CASE s = r /\ l \notin {"running", "claiming"}
    BY <1>3, <1>out, <1>types, <2>2
  <2>3. CASE s = r /\ l \in {"running", "claiming"}
    <3>1. wrote' = [wrote EXCEPT ![r][k] = v]
      BY <1>3, <2>3 DEF Send, Queued
    <3>2. wrote'[r][k] = v /\ \A j \in Keys \ {k} : wrote'[r][j] = wrote[r][j]
      BY <1>types, <3>1
    <3>3. /\ cache'[r][k] = v
          /\ \A j \in Keys \ {k} : cache'[r][j] = cache[r][j]
      BY <1>3, <1>old, <1>types, <2>3 DEF Remember, CacheOf, InHandler
    <3>4. pc'[r] = l
      BY <1>3, <1>types
    <3> QED
      BY <1>3, <1>old, <2>3, <3>2, <3>3, <3>4 DEF CacheOf, InHandler
  <2> QED BY <2>1, <2>2, <2>3
<1>4. ASSUME NEW r \in Requests, NEW k \in Keys, Update(r, k) PROVE CacheOf(s)'
  <2>1. /\ pc[r] = "running" /\ Send(r, k, r) /\ seen' = seen /\ Remember(r, k, r)
    BY <1>4 DEF Update, Operate
  <2>2. PICK l \in {"running", "abort"} :
           pc' = [pc EXCEPT ![r] = l] /\ (l = "running" => Queued(r))
    BY <1>4 DEF Update, Proceed, Goto
  <2>3. InHandler(r) /\ (l \in {"running", "claiming"} => Queued(r)) /\ l # "new"
    BY <2>1, <2>2 DEF InHandler
  <2> QED BY <1>3, <2>1, <2>2, <2>3
<1>5. ASSUME NEW r \in Requests, NEW k \in Objects, Delete(r, k) PROVE CacheOf(s)'
  <2>1. /\ pc[r] = "running" /\ Send(r, k, NoObj) /\ seen' = seen /\ Remember(r, k, NoObj)
    BY <1>5 DEF Delete, Operate
  <2>2. PICK l \in {"running", "abort"} :
           pc' = [pc EXCEPT ![r] = l] /\ (l = "running" => Queued(r))
    BY <1>5 DEF Delete, Proceed, Goto
  <2>3. InHandler(r) /\ (l \in {"running", "claiming"} => Queued(r)) /\ l # "new"
    BY <2>1, <2>2 DEF InHandler
  <2> QED BY <1>3, <2>1, <2>2, <2>3
<1>6. ASSUME NEW r \in Requests, NEW n \in UserNames, CheckUserId(r, n) PROVE CacheOf(s)'
  <2>1. /\ pc[r] = "running" /\ Send(r, r, r) /\ seen' = seen /\ Remember(r, r, r)
    BY <1>6 DEF CheckUserId, Operate
  <2>2. PICK l \in {"claiming", "abort"} :
           pc' = [pc EXCEPT ![r] = l] /\ (l = "claiming" => Queued(r))
    BY <1>6 DEF CheckUserId, Proceed, Goto
  <2>3. InHandler(r) /\ (l \in {"running", "claiming"} => Queued(r)) /\ l # "new"
    BY <2>1, <2>2 DEF InHandler
  <2> QED BY <1>3, <2>1, <2>2, <2>3
<1>7. ASSUME NEW r \in Requests, NEW n \in RealmNames, CheckRealmName(r, n) PROVE CacheOf(s)'
  <2>1. CASE s # r
    BY <1>7, <1>same, <1>types, <2>1 DEF CheckRealmName, Operate, Proceed, Goto
  <2>2. CASE s = r /\ pc'[r] = "claiming"
    <3>1. /\ pc[r] = "running" /\ wrote' = wrote /\ seen' = seen
          /\ cache' = [cache EXCEPT ![r][r] = r]
      BY <1>7, <1>types, <2>2 DEF CheckRealmName, Operate, Proceed, Goto
    <3>2. cache'[r][r] = r /\ \A j \in Keys \ {r} : cache'[r][j] = cache[r][j]
      BY <1>types, <3>1
    <3> QED
      BY <1>old, <2>2, <3>1, <3>2 DEF CacheOf, InHandler
  <2>3. CASE s = r /\ pc'[r] # "claiming"
    BY <1>7, <1>out, <1>types, <2>3 DEF CheckRealmName, Operate, Proceed, Goto
  <2> QED BY <2>1, <2>2, <2>3
<1>8. ASSUME NEW r \in Requests, ClaimName(r) PROVE CacheOf(s)'
  <2>1. pc[r] = "claiming" /\ cache' = cache /\ seen' = seen
    BY <1>8 DEF ClaimName
  <2>2. \/ /\ Send(r, r, r)
           /\ \E l \in {"running", "abort"} :
                 pc' = [pc EXCEPT ![r] = l] /\ (l = "running" => Queued(r))
        \/ pc' = [pc EXCEPT ![r] = "abort"] /\ wrote' = wrote
    BY <1>8 DEF ClaimName, Proceed, Goto
  <2>3. CASE Send(r, r, r) /\ \E l \in {"running", "abort"} :
                 pc' = [pc EXCEPT ![r] = l] /\ (l = "running" => Queued(r))
    <3>1. PICK l \in {"running", "abort"} :
             pc' = [pc EXCEPT ![r] = l] /\ (l = "running" => Queued(r))
      BY <2>3
    <3>2. InHandler(r) /\ (l \in {"running", "claiming"} => Queued(r)) /\ l # "new"
      BY <2>1, <3>1 DEF InHandler
    <3> QED BY <1>3, <2>1, <2>3, <3>1, <3>2
  <2>4. CASE pc' = [pc EXCEPT ![r] = "abort"] /\ wrote' = wrote
    BY <1>same, <1>out, <1>types, <2>1, <2>4
  <2> QED BY <2>2, <2>3, <2>4
<1>9. ASSUME NEW r \in Requests, Fail(r) \/ Panic(r) \/ Commit(r) \/ Abort(r) \/ Close(r)
      PROVE  CacheOf(s)'
  <2>1. CASE s = r
    BY <1>9, <1>out, <1>types, <2>1 DEF Fail, Panic, Commit, Abort, Close, Goto
  <2>2. CASE s # r
    BY <1>9, <1>same, <1>types, <2>2 DEF Fail, Panic, Commit, Abort, Close, Goto, history
  <2> QED BY <2>1, <2>2
<1>10. CASE UNCHANGED vars
  BY <1>10, <1>same DEF vars, requestVars, history
<1> QED
  BY <1>1, <1>2, <1>4, <1>5, <1>6, <1>7, <1>8, <1>9, <1>10 DEF Next, Step, Quiescent

LEMMA CacheInvariant == Spec => []CacheInv
<1>1. Init => CacheInv
  BY ConstantsAssumption DEF Init, CacheInv, CacheOf, InHandler, Keys
<1> QED
  BY <1>1, NextCacheInv, TypeCorrect, PTL DEF Spec

\* A handler reads what it wrote, whatever happens on other connections.
THEOREM HandlersReadTheirWrites == Spec => []ReadsOwnWrites
<1>1. CacheInv => ReadsOwnWrites
  BY DEF CacheInv, CacheOf, InHandler, ReadsOwnWrites
<1> QED
  BY <1>1, CacheInvariant, PTL

\* An object that a handler has read and not changed does not change for it.
THEOREM ReadsAreRepeatable == Spec => []RepeatableRead
<1>1. CacheInv => RepeatableRead
  BY DEF CacheInv, CacheOf, InHandler, RepeatableRead
<1> QED
  BY <1>1, CacheInvariant, PTL

-----------------------------------------------------------------------------
(***************************************************************************)
(* Names.  A request that is going to store an object under its name, or   *)
(* has stored it, is the only one with that name, and the name is taken;   *)
(* nobody knows the object before it is stored.  All this is about the     *)
(* requests whose connection was never retaken: the others may store at    *)
(* once, but only their own object and what is already stored.             *)
(***************************************************************************)
Going(r) == pc[r] = "running" \/ store[r] # NoObj

StoredInv ==
    /\ \A r \in Requests : Secure(r) /\ store[r] # NoObj
          => claim[r] # NoName /\ pc[r] \in {"lastClose", "done"}
    /\ \A r \in Requests :
          Secure(r) /\ pc[r] \in {"new", "running"} /\ claim[r] = NoName
          => cache[r][r] = NoObj /\ wrote[r][r] = Untouched
    /\ \A r, s \in Requests :
          r # s /\ Secure(r) /\ (cache[s][r] # NoObj \/ wrote[s][r] # Untouched)
          => store[r] # NoObj
    /\ \A r, s \in Requests : wrote[s][r] # NoObj

\* What is queued on a retaken connection concerns stored objects only.
QueuedInv ==
    /\ \A c \in Conns, j \in Requests \cup Names : queue[c][j] # NoObj
    /\ \A c \in retaken, t \in Requests :
          Secure(t) /\ queue[c][t] # Untouched => store[t] # NoObj

ClaimInv ==
    /\ \A r \in Requests : /\ pc[r] = "new" => claim[r] = NoName /\ conn[r] = NoConn
                           /\ pc[r] = "claiming" => claim[r] # NoName
    /\ \A r \in Requests :
          Secure(r) /\ claim[r] # NoName /\ Going(r) => names[claim[r]] # NoObj
    /\ \A r, s \in Requests :
          r # s /\ Secure(r) /\ Secure(s) /\ claim[r] = claim[s] /\ claim[r] # NoName
          => ~Going(r) \/ ~Going(s)

NameInv == StoredInv /\ QueuedInv /\ ClaimInv

LEMMA InitNameInv == Init => NameInv
<1> SUFFICES ASSUME Init PROVE NameInv
  OBVIOUS
<1>1. StoredInv /\ ClaimInv
  BY ConstantsAssumption DEF Init, StoredInv, ClaimInv, Going, Keys, Versions
<1>2. QueuedInv
  BY ConstantsAssumption DEF Init, QueuedInv, NothingQueued, Keys
<1> QED
  BY <1>1, <1>2 DEF NameInv

\* What a step leaves on the queues: a connection that becomes retaken has
\* nothing queued, and whatever else is queued is queued for a stored object.
LEMMA QueuedStep ==
    ASSUME TypeOK, NameInv,
           \A t \in Requests : Secure(t)' =>
              Secure(t) /\ (store[t] # NoObj => store'[t] # NoObj),
           \A c \in Conns, j \in Requests \cup Names :
              \/ queue'[c][j] = queue[c][j]
              \/ queue'[c][j] = Untouched
              \/ /\ queue'[c][j] # NoObj
                 /\ c \in retaken' /\ j \in Requests /\ Secure(j)' => store[j] # NoObj,
           \A c \in retaken' \ retaken : queue'[c] = NothingQueued,
           retaken' \subseteq Conns
    PROVE  QueuedInv'
<1> USE ConstantsAssumption
<1>1. \A c \in Conns, j \in Requests \cup Names : queue'[c][j] # NoObj
  BY DEF NameInv, QueuedInv
<1>2. ASSUME NEW c \in retaken', NEW t \in Requests, Secure(t)',
             queue'[c][t] # Untouched
      PROVE  store'[t] # NoObj
  <2>1. CASE c \in retaken
    BY <1>2, <2>1 DEF NameInv, QueuedInv
  <2>2. CASE c \notin retaken
    BY <1>2, <2>2 DEF NothingQueued, Keys
  <2> QED BY <2>1, <2>2
<1> QED BY <1>1, <1>2 DEF QueuedInv

\* A step that stores no new object of a request that counts and claims no
\* name, after which r may hold the key k, which is stored or r's own under its
\* name.
LEMMA QuietStep ==
    ASSUME TypeOK, NameInv, NEW r \in Requests,
           \A t \in Requests : Secure(t)' =>
              Secure(t) /\ (store'[t] # NoObj <=> store[t] # NoObj),
           \A n \in Names : names[n] # NoObj => names'[n] # NoObj,
           claim' = claim,
           \A s \in Requests \ {r} : /\ pc'[s] = pc[s] /\ cache'[s] = cache[s]
                                     /\ wrote'[s] = wrote[s] /\ conn'[s] = conn[s],
           pc'[r] # "new", pc'[r] # "claiming",
           pc[r] \in {"lastClose", "done"} => pc'[r] \in {"lastClose", "done"},
           pc'[r] = "running" => pc[r] \in {"new", "running"},
           \A j \in Keys :
              \/ cache'[r][j] \in {cache[r][j], NoObj} /\ wrote'[r][j] = wrote[r][j]
              \/ /\ j \in Requests => wrote'[r][j] # NoObj
                 /\ \/ j \in Requests /\ (store[j] # NoObj \/ ~Secure(j))
                    \/ j = r /\ claim[r] # NoName
                    \/ j \in Objects
    PROVE  StoredInv' /\ ClaimInv'
<1> USE ConstantsAssumption DEF Keys, Versions
<1>1. ASSUME NEW s \in Requests, Secure(s)', store'[s] # NoObj
      PROVE  claim'[s] # NoName /\ pc'[s] \in {"lastClose", "done"}
  BY <1>1 DEF NameInv, StoredInv
<1>2. ASSUME NEW s \in Requests, Secure(s)', pc'[s] \in {"new", "running"},
             claim'[s] = NoName
      PROVE  cache'[s][s] = NoObj /\ wrote'[s][s] = Untouched
  <2>1. CASE s # r
    BY <1>2, <2>1 DEF NameInv, StoredInv
  <2>2. CASE s = r
    <3>1. pc[r] \in {"new", "running"} /\ claim[r] = NoName /\ Secure(r)
      BY <1>2, <2>2
    <3>2. cache[r][r] = NoObj /\ wrote[r][r] = Untouched /\ store[r] = NoObj
      BY <3>1 DEF NameInv, StoredInv
    <3> QED BY <2>2, <3>1, <3>2
  <2> QED BY <2>1, <2>2
<1>3. ASSUME NEW s \in Requests, NEW t \in Requests, t # s, Secure(t)',
             cache'[s][t] # NoObj \/ wrote'[s][t] # Untouched
      PROVE  store'[t] # NoObj
  <2>1. Secure(t) /\ (store'[t] # NoObj <=> store[t] # NoObj) /\ t \in Keys
    BY <1>3
  <2>2. CASE cache[s][t] # NoObj \/ wrote[s][t] # Untouched
    BY <1>3, <2>1, <2>2 DEF NameInv, StoredInv
  <2>3. CASE ~(cache[s][t] # NoObj \/ wrote[s][t] # Untouched)
    <3>1. s = r
      BY <1>3, <2>3
    <3> QED BY <1>3, <2>1, <2>3, <3>1
  <2> QED BY <2>2, <2>3
<1>4. ASSUME NEW s \in Requests, NEW t \in Requests PROVE wrote'[s][t] # NoObj
  BY <1>4 DEF NameInv, StoredInv
<1>5. StoredInv'
  BY <1>1, <1>2, <1>3, <1>4 DEF StoredInv
<1>6. ClaimInv'
  <2>1. \A s \in Requests : Secure(s)' /\ claim[s] # NoName => (Going(s)' => Going(s))
    BY DEF Going, NameInv, ClaimInv
  <2>2. \A s \in Requests : claim[s] # NoName => claim[s] \in Names
    BY DEF TypeOK
  <2> QED BY <2>1, <2>2 DEF NameInv, ClaimInv
<1> QED BY <1>5, <1>6

\* A command of a handler at work, for its own object or one in its cache,
\* changes for the requests that count neither what is stored nor what is
\* queued on retaken connections.
LEMMA SendNames ==
    ASSUME TypeOK, TransactionInv, NameInv, [Next]_vars,
           NEW r \in Requests, pc[r] \in {"running", "claiming"}, conn' = conn,
           NEW k \in Keys, NEW v \in {r, NoObj}, Send(r, k, v),
           v = NoObj => k \in Objects,
           k \in Requests /\ k # r => cache[r][k] # NoObj
    PROVE  /\ wrote' \in {wrote, [wrote EXCEPT ![r][k] = v]}
           /\ \A t \in Requests : Secure(t)' =>
                 Secure(t) /\ (store'[t] # NoObj <=> store[t] # NoObj)
           /\ \A c \in Conns, j \in Requests \cup Names :
                 \/ queue'[c][j] = queue[c][j]
                 \/ /\ queue'[c][j] # NoObj
                    /\ c \in retaken' /\ j \in Requests /\ Secure(j)'
                          => store[j] # NoObj
           /\ \A c \in Conns : ~multi[c] => queue'[c] = queue[c]
<1> USE ConstantsAssumption
<1> DEFINE c == conn[r]
<1>1. /\ c \in Conns /\ Keys = Objects \cup Requests /\ k \notin Names
      /\ r # NoObj /\ Objects \cap Requests = {}
  BY DEF TypeOK, Keys, Versions
<1>2. \A t \in Requests : Secure(t)' => Secure(t)
  BY RetakenRemain DEF Secure
<1>3. ASSUME k \in Requests, k # r, Secure(k) PROVE store[k] # NoObj
  BY <1>3 DEF NameInv, StoredInv
<1>4. CASE multi[c]
  <2>1. /\ queue' = [queue EXCEPT ![c][k] = v] /\ store' = store
        /\ wrote' = [wrote EXCEPT ![r][k] = v]
    BY <1>4, SendQueues
  <2>2. \A d \in Conns, j \in Keys \cup Names :
           queue'[d][j] = IF d = c /\ j = k THEN v ELSE queue[d][j]
    BY <1>1, <2>1 DEF TypeOK
  <2>3. \A d \in Conns : d # c => queue'[d] = queue[d]
    BY <1>1, <2>1 DEF TypeOK
  <2>4. c \in retaken' => ~Secure(r)'
    BY DEF Secure
  <2> QED
    BY <1>1, <1>2, <1>3, <1>4, <2>1, <2>2, <2>3, <2>4
<1>5. CASE ~multi[c]
  <2>1. /\ queue' = queue /\ wrote' = wrote
        /\ store' = [store EXCEPT ![k] = v]
    BY <1>5 DEF Send
  <2>3. ~Secure(r)
    <3>1. Secure(r) => multi[conn[r]]
      BY SendQueues
    <3> QED BY <1>5, <3>1
  <2>2. \A t \in Requests : store'[t] = IF t = k THEN v ELSE store[t]
    BY <1>1, <2>1 DEF TypeOK
  <2> QED
    BY <1>1, <1>2, <1>3, <2>1, <2>2, <2>3
<1> QED BY <1>4, <1>5

LEMMA NextNameInv ==
    TypeOK /\ TransactionInv /\ NameInv /\ [Next]_vars => NameInv'
<1> SUFFICES ASSUME TypeOK, TransactionInv, NameInv, [Next]_vars PROVE NameInv'
  OBVIOUS
<1>consts. /\ Keys = Objects \cup Requests /\ Objects \cap Requests = {}
           /\ \A r \in Requests : r # NoObj /\ r # Untouched
           /\ Untouched # NoObj /\ NoName \notin Names
  BY ConstantsAssumption DEF Keys, Versions
<1>types. /\ pc \in [Requests -> Labels]
          /\ cache \in [Requests -> [Keys -> Versions \cup {NoObj}]]
          /\ wrote \in [Requests -> [Keys -> Requests \cup {NoObj, Untouched}]]
          /\ store \in [Keys -> Versions \cup {NoObj}]
          /\ names \in [Names -> Requests \cup {NoObj}]
          /\ claim \in [Requests -> Names \cup {NoName}]
          /\ retaken \subseteq Conns /\ retaken \subseteq retaken'
          /\ retaken' \subseteq Conns
  BY <1>consts, NextTypeOK, RetakenRemain DEF TypeOK, Labels
\* While r runs, what it has in its cache is stored, or its own under its name.
<1>cached. ASSUME NEW r \in Requests, pc[r] = "running", NEW k \in Keys,
                  cache[r][k] # NoObj
           PROVE  \/ k \in Requests /\ (store[k] # NoObj \/ ~Secure(k))
                  \/ k = r /\ claim[r] # NoName
                  \/ k \in Objects
  BY <1>consts, <1>cached DEF NameInv, StoredInv
<1>claims. \A r \in Requests : Secure(r) /\ pc[r] \in {"running", "claiming"}
                                  => store[r] = NoObj
  BY <1>consts DEF NameInv, StoredInv
<1>sent. \A r, t \in Requests : wrote[r][t] # NoObj
  BY <1>consts DEF NameInv, StoredInv
<1>secure. ASSUME NEW t \in Requests, conn'[t] = conn[t], Secure(t)' PROVE Secure(t)
  BY <1>secure, <1>types DEF Secure
<1>quiet. \A d \in Conns : ~multi[d] => queue[d] = NothingQueued
  BY DEF TransactionInv, PoolInv
<1>nothing. \A j \in Requests \cup Names : NothingQueued[j] = Untouched
  BY DEF NothingQueued, Keys
\* A connection that becomes retaken was taken from the pool, with nothing
\* queued on it.
<1>take. ASSUME NEW c, Take(c)
         PROVE  \A d \in retaken' \ retaken : ~multi[d] /\ queue[d] = NothingQueued
  BY <1>take, <1>quiet, PoolOfOne DEF Take
<1>borrow. ASSUME NEW c, Borrow(c)
           PROVE  \A d \in retaken' \ retaken : ~multi[d] /\ queue[d] = NothingQueued
  BY <1>borrow, <1>take DEF Borrow
<1>1. ASSUME NEW r \in Requests, NEW k \in Keys, Read(r, k) PROVE NameInv'
  <2>1. /\ pc[r] = "running" /\ store' = store /\ names' = names /\ claim' = claim
        /\ wrote' = wrote /\ queue' = queue /\ conn' = conn
        /\ \E l \in {"running", "abort"} : pc' = [pc EXCEPT ![r] = l]
        /\ \E c \in GetConn : Borrow(c)
        /\ \/ cache' = cache
           \/ store[k] # NoObj /\ cache' = [cache EXCEPT ![r][k] = store[k]]
    BY <1>consts, <1>1 DEF Read, Operate, Fetch, Proceed, Goto, redisVars
  <2>2. \A t \in Requests : Secure(t)' => Secure(t)
    BY <1>secure, <2>1
  <2>3. QueuedInv'
    BY <1>borrow, <1>types, <2>1, <2>2, QueuedStep
  <2>4. \A j \in Keys :
           \/ cache'[r][j] \in {cache[r][j], NoObj} /\ wrote'[r][j] = wrote[r][j]
           \/ /\ j \in Requests => wrote'[r][j] # NoObj
              /\ \/ j \in Requests /\ (store[j] # NoObj \/ ~Secure(j))
                 \/ j = r /\ claim[r] # NoName
                 \/ j \in Objects
    BY <1>consts, <1>types, <1>sent, <2>1
  <2>5. StoredInv' /\ ClaimInv'
    BY <1>types, <2>1, <2>2, <2>4, QuietStep
  <2> QED BY <2>3, <2>5 DEF NameInv
<1>2. ASSUME NEW r \in Requests, NEW k \in Keys,
             Update(r, k) \/ (Delete(r, k) /\ k \in Objects)
      PROVE NameInv'
  <2>1. PICK v \in {r, NoObj} :
        /\ pc[r] = "running" /\ cache[r][k] # NoObj /\ names' = names
        /\ claim' = claim /\ conn' = conn /\ retaken' = retaken
        /\ cache' = [cache EXCEPT ![r][k] = v] /\ Send(r, k, v)
        /\ v = NoObj => k \in Objects
        /\ \E l \in {"running", "abort"} : pc' = [pc EXCEPT ![r] = l]
    BY <1>consts, <1>2 DEF Update, Delete, Operate, Proceed, Goto, Remember
  <2>2. /\ wrote' \in {wrote, [wrote EXCEPT ![r][k] = v]}
        /\ \A t \in Requests : Secure(t)' =>
              Secure(t) /\ (store'[t] # NoObj <=> store[t] # NoObj)
        /\ \A c \in Conns, j \in Requests \cup Names :
              \/ queue'[c][j] = queue[c][j]
              \/ /\ queue'[c][j] # NoObj
                 /\ c \in retaken' /\ j \in Requests /\ Secure(j)' => store[j] # NoObj
    <3>1. /\ v = NoObj => k \in Objects
          /\ k \in Requests /\ k # r => cache[r][k] # NoObj
          /\ pc[r] \in {"running", "claiming"}
      BY <1>consts, <2>1
    <3> QED BY <2>1, <3>1, SendNames
  <2>3. QueuedInv'
    BY <1>types, <2>1, <2>2, QueuedStep
  <2>4. \A j \in Keys :
           \/ cache'[r][j] \in {cache[r][j], NoObj} /\ wrote'[r][j] = wrote[r][j]
           \/ /\ j \in Requests => wrote'[r][j] # NoObj
              /\ \/ j \in Requests /\ (store[j] # NoObj \/ ~Secure(j))
                 \/ j = r /\ claim[r] # NoName
                 \/ j \in Objects
    <3>1. \/ k \in Requests /\ (store[k] # NoObj \/ ~Secure(k))
          \/ k = r /\ claim[r] # NoName
          \/ k \in Objects
      BY <1>cached, <2>1
    <3>2. /\ \A j \in Keys \ {k} : cache'[r][j] = cache[r][j] /\ wrote'[r][j] = wrote[r][j]
          /\ wrote'[r][k] \in {wrote[r][k], v}
      BY <1>types, <2>1, <2>2
    <3>3. k \in Requests => wrote'[r][k] # NoObj
      BY <1>consts, <1>sent, <2>1, <3>2
    <3> QED BY <3>1, <3>2, <3>3
  <2>5. StoredInv' /\ ClaimInv'
    <3>1. /\ \A s \in Requests \ {r} : /\ pc'[s] = pc[s] /\ cache'[s] = cache[s]
                                       /\ wrote'[s] = wrote[s] /\ conn'[s] = conn[s]
          /\ pc'[r] \in {"running", "abort"}
      BY <1>types, <2>1, <2>2
    <3> QED BY <2>1, <2>2, <2>4, <3>1, QuietStep
  <2> QED BY <2>3, <2>5 DEF NameInv
<1>3. ASSUME NEW r \in Requests, Begin(r) PROVE NameInv'
  <2>1. PICK c \in Conns : Take(c) /\ conn' = [conn EXCEPT ![r] = c]
    BY <1>3 DEF Begin
  <2>2. /\ pc[r] = "new" /\ pc' = [pc EXCEPT ![r] = "running"]
        /\ UNCHANGED <<store, names, queue, cache, claim, wrote>>
    BY <1>3 DEF Begin, Goto
  <2>3. \A t \in Requests : Secure(t)' => Secure(t)
    <3>1. conn[r] = NoConn /\ Secure(r)
      BY <1>types, <2>2, ConstantsAssumption DEF NameInv, ClaimInv, Secure
    <3>2. \A t \in Requests \ {r} : conn'[t] = conn[t]
      BY <2>1 DEF TypeOK
    <3> QED BY <1>secure, <3>1, <3>2
  <2>4. QueuedInv'
    BY <1>take, <1>types, <2>1, <2>2, <2>3, QueuedStep
  <2>5. /\ \A s \in Requests \ {r} : pc'[s] = pc[s] /\ conn'[s] = conn[s]
        /\ pc'[r] = "running"
    BY <1>types, <2>1, <2>2 DEF TypeOK
  <2>6. StoredInv' /\ ClaimInv'
    BY <2>2, <2>3, <2>5, QuietStep
  <2> QED BY <2>4, <2>6 DEF NameInv
<1>4. ASSUME NEW r \in Requests, Fail(r) \/ Panic(r) \/ Abort(r) \/ Close(r)
      PROVE  NameInv'
  <2>1. /\ store' = store /\ names' = names /\ claim' = claim /\ wrote' = wrote
        /\ conn' = conn /\ retaken' = retaken
        /\ \/ cache' = cache
           \/ cache' = [cache EXCEPT ![r] = [k \in Keys |-> NoObj]]
        /\ \/ queue' = queue
           \/ queue' = [queue EXCEPT ![conn[r]] = NothingQueued]
    BY <1>consts, <1>4 DEF Fail, Panic, Abort, Close, history, redisVars
  <2>2. \E l \in Labels :
           /\ pc' = [pc EXCEPT ![r] = l]
           /\ l # "new" /\ l # "claiming" /\ l # "running"
           /\ pc[r] \in {"lastClose", "done"} => l = "done"
    BY <1>consts, <1>4 DEF Fail, Panic, Abort, Close, Goto, Labels
  <2>3. \A t \in Requests : Secure(t)' => Secure(t)
    BY <1>secure, <2>1
  <2>4. \A c \in Conns, j \in Requests \cup Names :
           queue'[c][j] = queue[c][j] \/ queue'[c][j] = Untouched
    <3>1. \A c \in Conns : queue'[c] = queue[c] \/ queue'[c] = NothingQueued
      BY <2>1 DEF TypeOK
    <3> QED BY <1>nothing, <3>1
  <2>5. QueuedInv'
    BY <1>types, <2>1, <2>3, <2>4, QueuedStep
  <2>6. /\ \A s \in Requests \ {r} : pc'[s] = pc[s] /\ cache'[s] = cache[s]
        /\ \A j \in Keys : cache'[r][j] \in {cache[r][j], NoObj}
        /\ pc'[r] # "new" /\ pc'[r] # "claiming" /\ pc'[r] # "running"
        /\ pc[r] \in {"lastClose", "done"} => pc'[r] \in {"lastClose", "done"}
    BY <1>types, <2>1, <2>2
  <2>7. StoredInv' /\ ClaimInv'
    BY <2>1, <2>3, <2>6, QuietStep
  <2> QED BY <2>5, <2>7 DEF NameInv
\* The name is looked up: the request runs no more, and stops or claims it.
<1>5. ASSUME NEW r \in Requests, NEW n \in Names, pc[r] = "running",
             \A t \in Requests : Secure(t)' =>
                Secure(t) /\ (store'[t] # NoObj <=> store[t] # NoObj),
             names' = names, conn' = conn, claim' = [claim EXCEPT ![r] = n],
             NEW l \in {"claiming", "abort"}, pc' = [pc EXCEPT ![r] = l],
             \A s, t \in Requests : s # r \/ t # r
                => cache'[s][t] = cache[s][t] /\ wrote'[s][t] = wrote[s][t],
             wrote'[r][r] # NoObj
      PROVE  StoredInv' /\ ClaimInv'
  <2>1. /\ pc'[r] = l /\ claim'[r] = n /\ n # NoName
        /\ \A s \in Requests \ {r} : pc'[s] = pc[s] /\ claim'[s] = claim[s]
    BY <1>consts, <1>5, <1>types
  <2>2. /\ Secure(r)' => ~Going(r)'
        /\ \A s \in Requests \ {r} : Secure(s)' => (Going(s)' => Going(s))
    BY <1>consts, <1>5, <2>1, <1>claims DEF Going
  <2>3. StoredInv'
    BY <1>consts, <1>5, <2>1, <1>claims DEF NameInv, StoredInv
  <2>4. ClaimInv'
    BY <1>consts, <1>5, <2>1, <2>2 DEF NameInv, ClaimInv
  <2> QED BY <2>3, <2>4
<1>6. ASSUME NEW r \in Requests, NEW n \in UserNames, CheckUserId(r, n) PROVE NameInv'
  <2>1. /\ pc[r] = "running" /\ names' = names /\ claim' = [claim EXCEPT ![r] = n]
        /\ cache' = [cache EXCEPT ![r][r] = r] /\ Send(r, r, r) /\ conn' = conn
        /\ r \in Keys /\ n \in Names
    BY <1>consts, <1>6 DEF CheckUserId, Operate, Remember, Names
  <2>2. PICK l \in {"claiming", "abort"} : pc' = [pc EXCEPT ![r] = l]
    BY <1>consts, <1>6 DEF CheckUserId, Proceed, Goto
  <2>3. /\ wrote' \in {wrote, [wrote EXCEPT ![r][r] = r]}
        /\ \A t \in Requests : Secure(t)' =>
              Secure(t) /\ (store'[t] # NoObj <=> store[t] # NoObj)
        /\ \A c \in Conns, j \in Requests \cup Names :
              \/ queue'[c][j] = queue[c][j]
              \/ /\ queue'[c][j] # NoObj
                 /\ c \in retaken' /\ j \in Requests /\ Secure(j)' => store[j] # NoObj
        /\ \A c \in Conns : ~multi[c] => queue'[c] = queue[c]
    <3>1. (r = NoObj => r \in Objects) /\ pc[r] \in {"running", "claiming"}
      BY <1>consts, <2>1
    <3> QED BY <2>1, <3>1, SendNames
  <2>4. /\ \A s, t \in Requests : s # r \/ t # r
              => cache'[s][t] = cache[s][t] /\ wrote'[s][t] = wrote[s][t]
        /\ wrote'[r][r] # NoObj
    BY <1>consts, <2>1, <2>3, <1>types, <1>sent
  <2>5. \A d \in retaken' \ retaken : queue'[d] = NothingQueued
    <3>1. CASE \E c \in GetConn : Borrow(c)
      BY <1>borrow, <1>types, <2>3, <3>1
    <3>2. CASE retaken' = retaken
      BY <3>2
    <3> QED BY <1>6, <3>1, <3>2 DEF CheckUserId
  <2>6. QueuedInv'
    BY <1>types, <2>3, <2>5, QueuedStep
  <2> QED BY <1>5, <2>1, <2>2, <2>3, <2>4, <2>6 DEF NameInv
<1>7. ASSUME NEW r \in Requests, NEW n \in RealmNames, CheckRealmName(r, n) PROVE NameInv'
  <2>1. /\ pc[r] = "running" /\ names' = names /\ claim' = [claim EXCEPT ![r] = n]
        /\ store' = store /\ wrote' = wrote /\ conn' = conn /\ queue' = queue
        /\ cache' \in {cache, [cache EXCEPT ![r][r] = r]}
        /\ \E c \in GetConn : Borrow(c)
        /\ n \in Names
    BY <1>consts, <1>7 DEF CheckRealmName, Operate, redisVars, Names
  <2>2. PICK l \in {"claiming", "abort"} : pc' = [pc EXCEPT ![r] = l]
    BY <1>consts, <1>7 DEF CheckRealmName, Proceed, Goto
  <2>3. /\ \A s, t \in Requests : s # r \/ t # r
              => cache'[s][t] = cache[s][t] /\ wrote'[s][t] = wrote[s][t]
        /\ wrote'[r][r] # NoObj
    BY <1>consts, <2>1, <1>types, <1>sent
  <2>4. \A t \in Requests : Secure(t)' => Secure(t)
    BY <1>secure, <2>1
  <2>5. QueuedInv'
    BY <1>borrow, <1>types, <2>1, <2>4, QueuedStep
  <2> QED BY <1>5, <2>1, <2>2, <2>3, <2>4, <2>5 DEF NameInv
\* The name is claimed.  Who finds it free runs on with it, alone.
<1>8. ASSUME NEW r \in Requests, ClaimName(r) PROVE NameInv'
  <2>1. /\ pc[r] = "claiming" /\ cache' = cache /\ claim' = claim /\ conn' = conn
        /\ claim[r] \in Names /\ r \in Keys
    BY <1>consts, <1>8, <1>types DEF ClaimName, NameInv, ClaimInv
  <2>c. PICK c \in GetConn :
          /\ Borrow(c)
          /\ IF multi[c]
             THEN /\ queue' = [queue EXCEPT ![c][claim[r]] = r]
                  /\ Goto(r, "abort")
                  /\ UNCHANGED <<store, names, wrote>>
             ELSE /\ names' = [names EXCEPT ![claim[r]] = r]
                  /\ IF names[claim[r]] = NoObj
                     THEN Send(r, r, r) /\ Proceed(r, Queued(r), "running")
                     ELSE Goto(r, "abort") /\ UNCHANGED <<store, queue, wrote>>
    BY <1>8 DEF ClaimName
  <2>2. \/ /\ pc' = [pc EXCEPT ![r] = "abort"] /\ store' = store /\ wrote' = wrote
           /\ names' = names /\ multi[c]
           /\ queue' = [queue EXCEPT ![c][claim[r]] = r]
        \/ /\ pc' = [pc EXCEPT ![r] = "abort"] /\ store' = store /\ wrote' = wrote
           /\ names' = [names EXCEPT ![claim[r]] = r] /\ queue' = queue
        \/ /\ Send(r, r, r) /\ names[claim[r]] = NoObj
           /\ names' = [names EXCEPT ![claim[r]] = r]
           /\ \E l \in {"running", "abort"} : pc' = [pc EXCEPT ![r] = l]
    BY <2>c DEF Proceed, Goto
  <2>3. /\ \A n \in Names : names[n] # NoObj => names'[n] # NoObj
        /\ names' = [names EXCEPT ![claim[r]] = r] => names'[claim[r]] # NoObj
    BY <1>consts, <2>1, <2>2, <1>types
  <2>4. /\ wrote' \in {wrote, [wrote EXCEPT ![r][r] = r]}
        /\ \A t \in Requests : Secure(t)' =>
              Secure(t) /\ (store'[t] # NoObj <=> store[t] # NoObj)
        /\ \A d \in Conns, j \in Requests \cup Names :
              \/ queue'[d][j] = queue[d][j]
              \/ /\ queue'[d][j] # NoObj
                 /\ d \in retaken' /\ j \in Requests /\ Secure(j)' => store[j] # NoObj
        /\ \A d \in Conns : ~multi[d] => queue'[d] = queue[d]
    <3>1. CASE Send(r, r, r)
      <4>1. (r = NoObj => r \in Objects) /\ pc[r] \in {"running", "claiming"}
        BY <1>consts, <2>1
      <4> QED BY <2>1, <3>1, <4>1, SendNames
    <3>2. CASE queue' = queue /\ store' = store /\ wrote' = wrote
      BY <1>secure, <2>1, <3>2
    <3>3. CASE /\ store' = store /\ wrote' = wrote /\ multi[c]
               /\ queue' = [queue EXCEPT ![c][claim[r]] = r]
      <4>1. claim[r] \notin Requests /\ c \in Conns
        BY <1>consts, <2>1, PoolOfOne, ConstantsAssumption
      <4>2. \A d \in Conns, j \in Requests \cup Names :
               queue'[d][j] = IF d = c /\ j = claim[r] THEN r ELSE queue[d][j]
        BY <1>consts, <2>1, <3>3, <4>1 DEF TypeOK
      <4>3. \A d \in Conns : d # c => queue'[d] = queue[d]
        BY <3>3 DEF TypeOK
      <4> QED BY <1>secure, <1>consts, <2>1, <3>3, <4>1, <4>2, <4>3
    <3> QED BY <2>2, <3>1, <3>2, <3>3
  <2>5. /\ pc'[r] \in {"running", "abort"} /\ \A s \in Requests \ {r} : pc'[s] = pc[s]
        /\ pc'[r] = "running" => names[claim[r]] = NoObj /\ names'[claim[r]] # NoObj
    BY <1>consts, <2>2, <2>3, <1>types
  <2>q. QueuedInv'
    <3>1. \A d \in retaken' \ retaken : queue'[d] = NothingQueued
      BY <1>borrow, <1>types, <2>c, <2>4
    <3> QED BY <1>types, <2>4, <3>1, QueuedStep
  <2>6. StoredInv'
    <3>1. \A s, t \in Requests : wrote'[s][t] # NoObj
                                /\ (s # t => wrote'[s][t] = wrote[s][t])
      <4>1. CASE wrote' = wrote
        BY <4>1, <1>sent
      <4>2. CASE wrote' = [wrote EXCEPT ![r][r] = r]
        BY <1>consts, <4>2, <1>types, <1>sent
      <4> QED BY <2>4, <4>1, <4>2
    <3>2. \A s \in Requests \ {r} : wrote'[s][s] = wrote[s][s]
      BY <1>consts, <2>4, <1>types
    <3> QED BY <1>consts, <2>1, <2>4, <2>5, <3>1, <3>2 DEF NameInv, StoredInv, ClaimInv
  <2>7. \A s \in Requests \ {r} : Secure(s)' => (Going(s)' <=> Going(s))
    BY <1>consts, <2>4, <2>5 DEF Going
  <2>8. Secure(r)' /\ Going(r)' =>
           /\ names'[claim[r]] # NoObj
           /\ \A s \in Requests \ {r} : Secure(s) /\ claim[s] = claim[r] => ~Going(s)
    <3>1. Secure(r)' => store'[r] = NoObj
      BY <1>claims, <2>1, <2>4
    <3> QED BY <1>consts, <2>1, <2>5, <3>1 DEF Going, NameInv, ClaimInv
  <2>9. ClaimInv'
    <3>1. \A s \in Requests : Secure(s)' => Secure(s)
      BY <2>4
    <3>2. \A s \in Requests : claim[s] # NoName => claim[s] \in Names
      BY <1>types
    <3> QED
      BY <1>consts, <2>1, <2>3, <2>5, <2>7, <2>8, <3>1, <3>2 DEF NameInv, ClaimInv
  <2> QED BY <2>q, <2>6, <2>9 DEF NameInv
\* The queue holds what the request wrote, of which only its own object is new;
\* on a retaken connection it holds nothing new of any request that counts.
<1>9. ASSUME NEW r \in Requests, Commit(r) PROVE NameInv'
  <2>1. /\ pc[r] = "running" /\ pc' = [pc EXCEPT ![r] = "lastClose"]
        /\ claim' = claim /\ wrote' = wrote /\ conn' = conn /\ retaken' = retaken
        /\ cache' = [cache EXCEPT ![r] = [k \in Keys |-> NoObj]]
        /\ conn[r] \in Conns
    BY <1>consts, <1>9 DEF Commit, Goto, history, TypeOK
  <2>2. /\ \A t \in Requests : store'[t] \in {store[t], After(store[t], queue[conn[r]][t])}
        /\ \A n \in Names : names'[n] \in {names[n], After(names[n], queue[conn[r]][n])}
        /\ queue' = queue \/ queue' = [queue EXCEPT ![conn[r]] = NothingQueued]
        /\ Secure(r) => \A t \in Requests : store'[t] \in {store[t], After(store[t], wrote[r][t])}
    <3>1. Secure(r) => multi[conn[r]] /\ \A k \in Keys : queue[conn[r]][k] = wrote[r][k]
      BY <2>1 DEF TransactionInv, PhaseInv, Active, Open, Holds, QueueInv
    <3> QED BY <1>consts, <1>9, <3>1 DEF Commit, redisVars
  <2>3. \A j \in Requests \cup Names : queue[conn[r]][j] # NoObj
    BY <2>1 DEF NameInv, QueuedInv
  <2>4. \A n \in Names : names[n] # NoObj => names'[n] # NoObj
    BY <2>2, <2>3 DEF After
  <2>5. \A t \in Requests : Secure(t) =>
           /\ store[t] # NoObj => store'[t] # NoObj
           /\ t # r /\ store'[t] # NoObj => store[t] # NoObj
    <3>1. CASE Secure(r)
      BY <1>consts, <2>2, <3>1, <1>sent DEF After, NameInv, StoredInv
    <3>2. CASE ~Secure(r)
      <4>1. conn[r] \in retaken
        BY <3>2 DEF Secure
      <4>2. \A t \in Requests : Secure(t) /\ queue[conn[r]][t] # Untouched
                                   => store[t] # NoObj
        BY <4>1 DEF NameInv, QueuedInv
      <4> QED BY <2>2, <2>3, <4>2 DEF After
    <3> QED BY <3>1, <3>2
  <2>6. Secure(r) /\ store'[r] # NoObj => claim[r] # NoName
    BY <1>consts, <2>1, <2>2, <1>claims DEF After, NameInv, StoredInv
  <2>7. /\ pc'[r] = "lastClose" /\ \A s \in Requests \ {r} : pc'[s] = pc[s]
        /\ \A s, t \in Requests : cache'[s][t] \in {cache[s][t], NoObj}
        /\ \A s \in Requests \ {r} : cache'[s] = cache[s]
        /\ \A s \in Requests : Secure(s)' <=> Secure(s)
    BY <1>consts, <2>1, <1>types DEF Secure
  <2>q. QueuedInv'
    <3>1. \A c \in Conns, j \in Requests \cup Names :
             queue'[c][j] = queue[c][j] \/ queue'[c][j] = Untouched
      <4>1. \A c \in Conns : queue'[c] = queue[c] \/ queue'[c] = NothingQueued
        BY <2>1, <2>2 DEF TypeOK
      <4> QED BY <1>nothing, <4>1
    <3> QED BY <1>types, <2>1, <2>5, <2>7, <3>1, QueuedStep
  <2>8. StoredInv'
    BY <1>consts, <2>1, <2>5, <2>6, <2>7, <1>sent DEF NameInv, StoredInv
  <2>9. \A s \in Requests : Secure(s) => (Going(s)' => Going(s))
    BY <1>consts, <2>1, <2>5, <2>7 DEF Going
  <2>10. ClaimInv'
    BY <1>consts, <2>1, <2>4, <2>7, <2>9, <1>types DEF NameInv, ClaimInv
  <2> QED BY <1>consts, <2>q, <2>8, <2>10 DEF NameInv
<1>10. CASE UNCHANGED vars
  BY <1>consts, <1>10 DEF vars, redisVars, requestVars, history, NameInv, StoredInv,
     QueuedInv, ClaimInv, Going, Secure
<1> QED
  BY <1>consts, <1>1, <1>2, <1>3, <1>4, <1>6, <1>7, <1>8, <1>9, <1>10
  DEF Next, Step, Quiescent

\* No two requests whose connections were never retaken have stored a user, or
\* a realm, under one name.
THEOREM NamesAreUnique == Spec => []NamesUnique
<1>1. Init => TypeOK /\ TransactionInv /\ NameInv
  BY InitTypeOK, InitTransactionInv, InitNameInv
<1>2. TypeOK /\ TransactionInv /\ NameInv /\ [Next]_vars
        => (TypeOK /\ TransactionInv /\ NameInv)'
  BY NextTypeOK, NextTransactionInv, NextNameInv
<1>3. NameInv => NamesUnique
  BY DEF NameInv, StoredInv, ClaimInv, Going, NamesUnique
<1> QED
  BY <1>1, <1>2, <1>3, PTL DEF Spec
=============================================================================
