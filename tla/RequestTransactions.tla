------------------------ MODULE RequestTransactions ------------------------
(***************************************************************************)
(* How SafeHarborServer runs one REST request as one redis transaction.    *)
(*                                                                         *)
(* Dispatcher.handleRequest opens an InMemClient, which takes a connection *)
(* from the goredis pool and sends MULTI on it; the handler then reads,    *)
(* updates, deletes and creates objects through the client; the dispatcher *)
(* ends with commit (EXEC) or abort (DISCARD).  Objects are read with a    *)
(* plain GET on some other pooled connection, because a read inside MULTI  *)
(* would only be queued, and are cached for the rest of the request.       *)
(*                                                                         *)
(* Every exchange of a command and its reply is one step; requests (one    *)
(* goroutine each) interleave between the steps.  An object's content is   *)
(* abstracted to its version: Original, or the request that last wrote it. *)
(* Each request can create one user or realm object, whose id, unique      *)
(* because it comes from INCR, is represented by the request itself.       *)
(***************************************************************************)
EXTENDS Naturals, Sequences, FiniteSets

CONSTANTS
    Requests,     \* the requests in progress or to come
    Objects,      \* ids of objects stored before the first request
    UserNames,    \* user-ids, the keys of the redis hash "users"
    RealmNames,   \* realm names, the keys of the redis hash "realms"
    Conns,        \* identities of TCP connections to redis
    MaxOps,       \* bound: database operations of one handler
    Original, NoObj, NoConn, NoName, Untouched

Names == UserNames \cup RealmNames
Keys  == Objects \cup Requests
Versions == Requests \cup {Original}

ASSUME ConstantsAssumption ==
    /\ Objects \cap Requests = {}
    /\ UserNames \cap RealmNames = {}
    /\ Keys \cap Names = {}
    /\ MaxOps \in Nat
    /\ NoConn \notin Conns
    /\ NoName \notin Names
    /\ Original \notin Requests
    /\ NoObj \notin Versions
    /\ Untouched \notin Versions \cup {NoObj}

VARIABLES
    \* redis
    store,     \* store[k]: the version of the object stored under obj/k
    names,     \* names[n]: the object id that the hash maps name n to
    multi,     \* multi[c]: the server holds c in the MULTI state
    queue,     \* queue[c]: what is queued on c since MULTI, per key and name
    \* goredis
    idle,      \* connPool.idle, front first
    \* one request: dispatcher, InMemClient and its transaction
    pc,        \* where the goroutine of the request is
    conn,      \* the connection of the request's goredis Transaction
    cache,     \* InMemClient.objectsCache; NoObj where Go has nil
    claim,     \* the name under which the request creates an object
    ops,       \* database operations made so far
    \* history
    wrote,     \* wrote[r][k]: what r was told is queued for k
    seen,      \* seen[r][k]: the version r first read, NoObj if none
    returned,  \* the requests whose connection went back to the pool
    retaken    \* the connections taken from the pool while a request that
               \* had put them there was still going to abort on them

redisVars   == <<store, names, multi, queue>>
requestVars == <<pc, conn, cache, claim, ops>>
history     == <<wrote, seen, returned, retaken>>
vars == <<redisVars, idle, requestVars, history>>

(***************************************************************************)
(* The commands queued on a connection: EXEC runs them in order, so for    *)
(* each object id and each name only the last queued value matters.        *)
(***************************************************************************)
NothingQueued == [k \in Keys \cup Names |-> Untouched]
After(old, new) == IF new = Untouched THEN old ELSE new

(***************************************************************************)
(* The connection pool.  NewServer dials with maxidle = 1; Get takes from  *)
(* the back or dials, Put drops the front connection of a full pool.       *)
(***************************************************************************)
MaxIdle == 1

InPool(c) == \E i \in DOMAIN idle : idle[i] = c
Holds(r)  == pc[r] \notin {"new", "done"} /\ r \notin returned
Dialed(c) == /\ ~InPool(c) /\ ~multi[c]
             /\ \A r \in Requests : conn[r] # c \/ pc[r] \in {"new", "done"}

\* The connections that Get may return now.
GetConn == IF idle # <<>> THEN {idle[Len(idle)]} ELSE {c \in Conns : Dialed(c)}

RemoveBack_Keeps == idle
RemoveBack == IF idle # <<>> THEN SubSeq(idle, 1, Len(idle) - 1) ELSE idle
PutConn(pool, c) ==
    Append(IF Len(pool) >= MaxIdle THEN Tail(pool) ELSE pool, c)

\* A failed request has returned its connection and will abort on it, and
\* return it, once more.  Nothing keeps others from taking it meanwhile.
BetweenAborts(r) == r \in returned /\ pc[r] # "done"
AbortAhead(c) == \E r \in Requests : BetweenAborts(r) /\ conn[r] = c

Take(c) ==
    /\ c \in GetConn
    /\ retaken' = IF AbortAhead(c) THEN retaken \cup {c} ELSE retaken

-----------------------------------------------------------------------------
Init ==
    /\ store = [k \in Keys |-> IF k \in Objects THEN Original ELSE NoObj]
    /\ names = [n \in Names |-> NoObj]
    /\ multi = [c \in Conns |-> FALSE]
    /\ queue = [c \in Conns |-> NothingQueued]
    /\ idle = <<>>
    /\ pc = [r \in Requests |-> "new"]
    /\ conn = [r \in Requests |-> NoConn]
    /\ cache = [r \in Requests |-> [k \in Keys |-> NoObj]]
    /\ claim = [r \in Requests |-> NoName]
    /\ ops = [r \in Requests |-> 0]
    /\ wrote = [r \in Requests |-> [k \in Keys |-> Untouched]]
    /\ seen = [r \in Requests |-> [k \in Keys |-> NoObj]]
    /\ returned = {}
    /\ retaken = {}

(***************************************************************************)
(* Building blocks of the steps.                                           *)
(***************************************************************************)
Goto(r, l) == pc' = [pc EXCEPT ![r] = l]

\* The handler makes one more database operation.
Operate(r) ==
    /\ pc[r] = "running"
    /\ ops[r] < MaxOps
    /\ ops' = [ops EXCEPT ![r] = @ + 1]
    /\ UNCHANGED conn

\* ExecuteCommand: a plain command borrows c from the pool and puts it back.
\* On a connection in MULTI it is only queued, and the caller gets an error.
Borrow(c) == Take(c) /\ idle' = PutConn(RemoveBack, c)

\* Transaction.Command: SET or DEL on the request's own connection.  The
\* reply is QUEUED in MULTI; otherwise redis executes the command at once
\* and the unexpected reply is an error.
Send(r, k, v) ==
    LET c == conn[r] IN
    IF multi[c]
    THEN /\ queue' = [queue EXCEPT ![c][k] = v]
         /\ wrote' = [wrote EXCEPT ![r][k] = v]
         /\ UNCHANGED store
    ELSE /\ store' = [store EXCEPT ![k] = v]
         /\ UNCHANGED <<queue, wrote>>
Queued(r) == multi[conn[r]]

\* An error from the database layer makes the handler return a FailureDesc.
Proceed(r, ok, l) == Goto(r, IF ok THEN l ELSE "abort")

Remember_Nothing(r, k, v) == UNCHANGED cache
Remember(r, k, v) == cache' = [cache EXCEPT ![r][k] = v]

(***************************************************************************)
(* The steps of a request.                                                 *)
(***************************************************************************)

\* handleRequest: a new InMemClient, and MULTI on a pooled connection.  The
\* reply to MULTI is not looked at: on a connection already in MULTI it is
\* an error and changes nothing.
Begin_NoConnection(r) ==
    /\ pc[r] = "new"
    /\ Goto(r, "running")
    /\ UNCHANGED <<redisVars, idle, conn, cache, claim, ops, history>>

Begin(r) ==
    /\ pc[r] = "new"
    /\ \E c \in Conns :
         /\ Take(c)
         /\ conn' = [conn EXCEPT ![r] = c]
         /\ idle' = RemoveBack
         /\ multi' = [multi EXCEPT ![c] = TRUE]
    /\ Goto(r, "running")
    /\ UNCHANGED <<store, names, queue, cache, claim, ops, wrote, seen, returned>>

\* getObject: GET on a pooled connection.  The WATCH sent first on the
\* request's own connection is refused inside MULTI, and the refusal is not
\* looked at, so it leaves no trace.
Fetch(r, k) ==
    \E c \in GetConn :
        LET found == ~multi[c] /\ store[k] # NoObj IN
        /\ Borrow(c)
        /\ Proceed(r, found, "running")
        /\ cache' = IF found THEN [cache EXCEPT ![r][k] = store[k]] ELSE cache
        /\ seen' = IF found /\ seen[r][k] = NoObj
                   THEN [seen EXCEPT ![r][k] = store[k]] ELSE seen

\* getPersistentObject of an object that is not cached.
Read_IgnoringCache(r, k) ==
    /\ Operate(r)
    /\ Fetch(r, k)
    /\ UNCHANGED <<redisVars, claim, wrote, returned>>

Read(r, k) ==
    /\ Operate(r)
    /\ cache[r][k] = NoObj
    /\ Fetch(r, k)
    /\ UNCHANGED <<redisVars, claim, wrote, returned>>

\* updateObject of an object the handler has read or created.
Update(r, k) ==
    /\ Operate(r)
    /\ cache[r][k] # NoObj
    /\ Remember(r, k, r)
    /\ Send(r, k, r)
    /\ Proceed(r, Queued(r), "running")
    /\ UNCHANGED <<names, multi, idle, claim, seen, returned, retaken>>

\* deleteObject: the cache forgets the object, so that a later read of the
\* same request finds the stored one again.  Users and realms are never
\* deleted.
Delete(r, k) ==
    /\ Operate(r)
    /\ cache[r][k] # NoObj
    /\ Remember(r, k, NoObj)
    /\ Send(r, k, NoObj)
    /\ Proceed(r, Queued(r), "running")
    /\ UNCHANGED <<names, multi, idle, claim, seen, returned, retaken>>

\* addUser, first half: the user object is cached and its SET queued; then
\* HGET asks whether the user-id is taken.
CheckUserId(r, n) ==
    /\ Operate(r)
    /\ claim[r] = NoName
    /\ claim' = [claim EXCEPT ![r] = n]
    /\ Remember(r, r, r)
    /\ Send(r, r, r)
    /\ IF Queued(r)
       THEN \E c \in GetConn :
              /\ Borrow(c)
              /\ Proceed(r, ~multi[c] /\ names[n] = NoObj, "claiming")
       ELSE Goto(r, "abort") /\ UNCHANGED <<idle, retaken>>
    /\ UNCHANGED <<names, multi, seen, returned>>

\* addRealm, first half: HGET asks whether the name is taken, and the realm
\* object is cached.  Its SET follows the claim.
CheckRealmName(r, n) ==
    /\ Operate(r)
    /\ claim[r] = NoName
    /\ claim' = [claim EXCEPT ![r] = n]
    /\ \E c \in GetConn :
         LET free == ~multi[c] /\ names[n] = NoObj IN
         /\ Borrow(c)
         /\ Proceed(r, free, "claiming")
         /\ cache' = IF free THEN [cache EXCEPT ![r][r] = r] ELSE cache
    /\ UNCHANGED <<redisVars, wrote, seen, returned>>

\* addUser and addRealm, second half: HSET writes the name at once, outside
\* the transaction; it overwrites an entry made since the check, and only
\* then reports that it added nothing.  The object's SET is queued last.
ClaimName_AddedIgnored(r) ==
    /\ pc[r] = "claiming"
    /\ \E c \in GetConn :
         /\ Borrow(c)
         /\ IF multi[c]
            THEN /\ queue' = [queue EXCEPT ![c][claim[r]] = r]
                 /\ Goto(r, "abort")
                 /\ UNCHANGED <<store, names, wrote>>
            ELSE /\ names' = [names EXCEPT ![claim[r]] = r]
                 /\ Send(r, r, r) /\ Proceed(r, Queued(r), "running")
    /\ UNCHANGED <<multi, conn, cache, claim, ops, seen, returned>>

ClaimName(r) ==
    /\ pc[r] = "claiming"
    /\ \E c \in GetConn :
         /\ Borrow(c)
         /\ IF multi[c]
            THEN /\ queue' = [queue EXCEPT ![c][claim[r]] = r]
                 /\ Goto(r, "abort")
                 /\ UNCHANGED <<store, names, wrote>>
            ELSE /\ names' = [names EXCEPT ![claim[r]] = r]
                 /\ IF names[claim[r]] = NoObj
                    THEN Send(r, r, r) /\ Proceed(r, Queued(r), "running")
                    ELSE Goto(r, "abort") /\ UNCHANGED <<store, queue, wrote>>
    /\ UNCHANGED <<multi, conn, cache, claim, ops, seen, returned>>

\* The handler returns a FailureDesc (a validation or authorization error).
Fail(r) ==
    /\ pc[r] = "running"
    /\ Goto(r, "abort")
    /\ UNCHANGED <<redisVars, idle, conn, cache, claim, ops, history>>

\* The handler panics: only the deferred abort runs.
Panic(r) ==
    /\ pc[r] = "running"
    /\ Goto(r, "deferredAbort")
    /\ UNCHANGED <<redisVars, idle, conn, cache, claim, ops, history>>

\* commit: the cache is emptied and EXEC runs the queue.
Commit(r) ==
    LET c == conn[r] IN
    /\ pc[r] = "running"
    /\ IF multi[c]
       THEN /\ store' = [k \in Keys |-> After(store[k], queue[c][k])]
            /\ names' = [n \in Names |-> After(names[n], queue[c][n])]
            /\ multi' = [multi EXCEPT ![c] = FALSE]
            /\ queue' = [queue EXCEPT ![c] = NothingQueued]
       ELSE UNCHANGED redisVars
    /\ cache' = [cache EXCEPT ![r] = [k \in Keys |-> NoObj]]
    /\ Goto(r, "lastClose")
    /\ UNCHANGED <<idle, conn, claim, ops, history>>

\* abort: the cache is emptied and DISCARD drops the queue of whatever
\* transaction is open on the connection.
Abort_NoDiscard(r) ==
    /\ pc[r] \in {"abort", "deferredAbort"}
    /\ cache' = [cache EXCEPT ![r] = [k \in Keys |-> NoObj]]
    /\ Goto(r, IF pc[r] = "abort" THEN "close" ELSE "lastClose")
    /\ UNCHANGED <<redisVars, idle, conn, claim, ops, history>>

Abort(r) ==
    LET c == conn[r] IN
    /\ pc[r] \in {"abort", "deferredAbort"}
    /\ multi' = [multi EXCEPT ![c] = FALSE]
    /\ queue' = [queue EXCEPT ![c] = NothingQueued]
    /\ cache' = [cache EXCEPT ![r] = [k \in Keys |-> NoObj]]
    /\ Goto(r, IF pc[r] = "abort" THEN "close" ELSE "lastClose")
    /\ UNCHANGED <<store, names, idle, conn, claim, ops, history>>

\* Transaction.Close puts the connection back.  After the abort of a failed
\* handler comes the deferred one, because handleRequest clears inMemClient
\* where the deferred function looks at inMemClients[0].
Close_NoPut(r) ==
    /\ pc[r] \in {"close", "lastClose"}
    /\ Goto(r, IF pc[r] = "close" THEN "deferredAbort" ELSE "done")
    /\ UNCHANGED <<redisVars, idle, conn, cache, claim, ops, history>>

Close(r) ==
    /\ pc[r] \in {"close", "lastClose"}
    /\ idle' = PutConn(idle, conn[r])
    /\ returned' = returned \cup {r}
    /\ Goto(r, IF pc[r] = "close" THEN "deferredAbort" ELSE "done")
    /\ UNCHANGED <<redisVars, conn, cache, claim, ops, wrote, seen, retaken>>

Step(r) ==
    \/ Begin(r)
    \/ \E k \in Keys : Read(r, k) \/ Update(r, k)
    \/ \E k \in Objects : Delete(r, k)
    \/ \E n \in UserNames : CheckUserId(r, n)
    \/ \E n \in RealmNames : CheckRealmName(r, n)
    \/ ClaimName(r)
    \/ Fail(r) \/ Panic(r)
    \/ Commit(r) \/ Abort(r) \/ Close(r)

\* All requests have been answered.
Quiescent == (\A r \in Requests : pc[r] = "done") /\ UNCHANGED vars

Next == (\E r \in Requests : Step(r)) \/ Quiescent

Spec == Init /\ [][Next]_vars

\* net/http runs each request in its own goroutine, and the go scheduler runs
\* every goroutine that can run; a handler that has started comes to an end.
FairSpec == Spec /\ \A r \in Requests : WF_vars(Step(r))
-----------------------------------------------------------------------------
(***************************************************************************)
(* Properties.                                                             *)
(***************************************************************************)

TypeOK ==
    /\ store \in [Keys -> Versions \cup {NoObj}]
    /\ names \in [Names -> Requests \cup {NoObj}]
    /\ multi \in [Conns -> BOOLEAN]
    /\ queue \in [Conns -> [Keys \cup Names -> Requests \cup {NoObj, Untouched}]]
    /\ idle \in Seq(Conns)
    /\ pc \in [Requests -> {"new", "running", "claiming", "abort", "close",
                            "deferredAbort", "lastClose", "done"}]
    /\ conn \in [Requests -> Conns \cup {NoConn}]
    /\ \A r \in Requests : pc[r] # "new" => conn[r] \in Conns
    /\ cache \in [Requests -> [Keys -> Versions \cup {NoObj}]]
    /\ claim \in [Requests -> Names \cup {NoName}]
    /\ ops \in [Requests -> 0..MaxOps]
    /\ wrote \in [Requests -> [Keys -> Requests \cup {NoObj, Untouched}]]
    /\ seen \in [Requests -> [Keys -> Versions \cup {NoObj}]]
    /\ returned \subseteq Requests
    /\ retaken \subseteq Conns

(***************************************************************************)
(* A failed request aborts and closes twice, and what it does the second   *)
(* time it does to whoever has taken its connection since.  The properties *)
(* below say that this is all the harm there is, and that it stays on that *)
(* connection: a request is Secure unless its connection was retaken.      *)
(***************************************************************************)
Secure(r) == conn[r] \notin retaken

\* A connection that was never taken from the pool under a pending second
\* abort carries one request's transaction at a time: it is neither shared by
\* two requests nor offered by the pool while a request holds it, and what is
\* queued on it was queued by the request that holds it, whatever happens
\* meanwhile on the connections that were.
ConnectionOwned ==
    \A r \in Requests : Holds(r) /\ Secure(r) =>
        /\ ~InPool(conn[r])
        /\ \A s \in Requests \ {r} : Holds(s) => conn[s] # conn[r]
        /\ \A k \in Keys \cup Names :
              queue[conn[r]][k] \in {r, NoObj, Untouched}

(***************************************************************************)
(* The inductive invariant behind ConnectionOwned and                      *)
(* ImplementsAtomicStore.                                                  *)
(***************************************************************************)
Active(r) == pc[r] \notin {"new", "done"}
Open(r)   == Holds(r) /\ pc[r] \notin {"close", "lastClose"}

PhaseInv ==
    \A r \in Requests :
        /\ pc[r] \in {"new", "running", "claiming", "abort", "close"}
              => r \notin returned
        /\ pc[r] = "done" => r \in returned
        /\ pc[r] = "new" => \A k \in Keys : wrote[r][k] = Untouched
        /\ pc[r] = "claiming" => claim[r] \in Names
        /\ \A k \in Keys : wrote[r][k] \in {r, NoObj, Untouched}

PoolInv ==
    /\ Len(idle) <= MaxIdle
    /\ \A c \in Conns \ retaken : InPool(c) => ~multi[c]
    /\ \A c \in Conns : ~multi[c] => queue[c] = NothingQueued

OwnerInv ==
    \A r \in Requests : Holds(r) /\ Secure(r) =>
        /\ ~InPool(conn[r])
        /\ \A s \in Requests \ {r} : Active(s) => conn[s] # conn[r]

QueueInv ==
    \A r \in Requests : Secure(r) =>
        /\ Active(r) => (multi[conn[r]] <=> Open(r))
        /\ Open(r) => /\ \A k \in Keys : queue[conn[r]][k] = wrote[r][k]
                      /\ \A n \in Names : queue[conn[r]][n] = Untouched

\* Unless its connection was retaken, what is queued for the open transaction
\* of a request is exactly what its handler has been told; and a connection
\* outside transactions, or in the pool and never retaken, is quiet.
TransactionInv == PhaseInv /\ PoolInv /\ OwnerInv /\ QueueInv

\* What a handler wrote is what it reads until it ends: no read replaces an
\* object the same request has updated and not deleted since.
ReadsOwnWrites ==
    \A r \in Requests, k \in Keys :
        pc[r] = "running" /\ wrote[r][k] = r => cache[r][k] = r

\* An object that a handler has read stays the version it read, whatever
\* other requests commit meanwhile, until the handler itself changes it.
RepeatableRead ==
    \A r \in Requests, k \in Keys :
        pc[r] = "running" /\ wrote[r][k] = Untouched /\ k # r
            => cache[r][k] = seen[r][k]

\* The database never holds two users with one user-id, or two realms with
\* one name, however the checks and claims of their creators interleave, when
\* both created them on connections that were never retaken.
NamesUnique ==
    \A r, s \in Requests :
        r # s /\ claim[r] = claim[s] /\ Secure(r) /\ Secure(s)
            => store[r] = NoObj \/ store[s] = NoObj

\* The object store changes only as the abstract store does: one request's
\* whole intention at once, and nothing of a request that was aborted.  This
\* is so of every step but those of a request whose connection was retaken:
\* its transaction may be gone, and then what it writes is stored at once.
ended == {r \in Requests : pc[r] \in {"close", "lastClose", "done"}} \cup returned
Abstract == INSTANCE AtomicStore WITH
    db <- store, intent <- wrote, Preexisting <- Objects
Moves(r) == pc'[r] # pc[r] \/ ops'[r] # ops[r]
ImplementsAtomicStore ==
    /\ Abstract!Init
    /\ [][(\A r \in Requests : Moves(r) => Secure(r)')
             => [Abstract!Next]_(Abstract!vars)]_vars

\* Every request that has taken a connection comes to its end and has given
\* the connection back.
EveryRequestEnds ==
    \A r \in Requests : pc[r] # "new" ~> pc[r] = "done" /\ r \in returned

(***************************************************************************)
(* What the comments of the code say, and the code does not do.            *)
(***************************************************************************)

\* getObject: "Set a watch on the object so that if it changes, the
\* transaction will fail": a commit that changes the store finds every
\* object that its request has read as it was when read.
WatchedObjectsUnchanged ==
    [][\A r \in Requests :
          pc[r] = "running" /\ pc'[r] = "lastClose" /\ store' # store
            => \A k \in Keys : seen[r][k] # NoObj => store[k] = seen[r][k]]_vars

\* InMemClient.abort: "after calling this, methods on this instance of
\* InMemClient can no longer be called": a request whose transaction is over
\* does not touch the transaction of another.
AbortIsFinal ==
    [][\A r \in Requests :
          r \in returned => \A s \in Requests :
              Holds(s) /\ pc'[r] # pc[r] => multi'[conn[s]] = multi[conn[s]]]_vars
=============================================================================
