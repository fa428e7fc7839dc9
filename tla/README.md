# A formal model of SafeHarborServer

SafeHarborServer (`src/src/safeharbor`) is a REST server, written in Go, that
keeps realms, users, groups, repositories, dockerfiles, images, scan
configurations and access control lists in redis, builds and scans docker
images, and answers every request in a goroutine of its own.  This directory
holds TLA+ modules that model it, TLC configurations that check them on small
instances, and proofs that TLAPS checks.

## 1. Inventory

Paths are relative to `src/src/safeharbor/server` unless they say otherwise.

| Component | State it keeps | Operations | Interacts with |
|---|---|---|---|
| HTTP server (`Server.go`) | listener, configuration flags | `ServeHTTP`, `dispatch`, `Stop` | one goroutine per connection; calls the dispatcher, recovers panics |
| Dispatcher (`Dispatcher.go`) | table of handlers | `handleRequest`: begin, handler, commit or abort | opens an `InMemClient` per request, ends its transaction |
| Object client (`InMemory.go`, `InMemClient`) | per-request caches of objects, users, realms | `getPersistentObject`, `updateObject`, `deleteObject`, `addUser`, `addRealm` | Persistence |
| Persistence (`Persistence.go`) | redis keys `obj/*`, hashes `users`, `realms`, `emailTokens`, the id counter; process-wide maps | transactions, object reads and writes, name hashes, id generation | goredis |
| goredis (`src/src/goredis`) | pool of connections, MULTI state per connection (in redis) | `Transaction`, `Command`, `Exec`, `Discard`, `ExecuteCommand` | redis |
| Access control (`auth.go`, ACL part of `InMemory.go`, permission handlers) | ACL entries, the lists of entry ids of resources and of parties | `setAccess`, `addAccess`, `deleteAccess`, `deleteAllAccessToResource`, `authorized` | every handler calls `authorizeHandlerAction` |
| Parties (realm, user and group part of `InMemory.go`, `Handlers.go`) | realm lists, group members, a user's groups | create, disable, move, group membership, `deleteGroup`, `deactivateRealm` | ACLs, repos |
| Repositories and their resources | lists of child ids in both directions | create and delete of repos, dockerfiles, images and versions, scan configs, flags, events | ACLs, docker, scanners |
| Sessions and login (`auth.go`, `Handlers.go`) | map of session ids, recent login attempts | `authenticate`, `logout`, `identifySession` | every handler |
| Email verification (`EstablishEmail.go`) | tokens in a redis hash, flag on the user | establish, validate | Persistence, SMTP |
| JSON codec (`DBjson.go`, `asJSON`, `Reconstitute*`) | none | object to JSON and back | Persistence |
| Configuration, API types, file repository | none at run time | parsing and formatting | - |

What is hard here: every request is a goroutine and they share redis, the
connection pool and several Go maps without locks; a redis transaction only
queues, so reads go around it; some writes (names, tokens) go around it as
well; commands, objects and lists refer to each other in two directions and
are updated one object at a time; and an abort must undo all of it.

What makes each part correct:

* request transactions: a connection serves one transaction at a time; the
  store changes by whole requests; a request sees its own writes and a stable
  view of the rest; names stay unique; each request ends and gives its
  connection back;
* access control: the two lists of ACL entry ids agree with the entries, so
  that a right that was removed is gone and a right that was granted counts;
* parties: membership is recorded alike in group and user, a deleted or left
  group conveys no right, a user belongs to one realm;
* repositories: child and parent lists agree, nothing refers to a deleted
  object, a default repository knows its users;
* sessions: a session is accepted from login to logout only, and by no server
  that was started later;
* email: only the address that was sent the token becomes verified, and a token
  is good for one validation;
* realms and users: a user belongs to one realm, in both records; a deactivated
  realm stays so;
* codec: what is written can be read again, with every field;
* commands: one that is repeated after a broken connection must not give one id
  or one name to two requests.

`PROJECT.json` lists the hazards line by line.

## 2. Plan

Modules, in the order of their importance to the program:

1. `RequestTransactions` with its abstract specification `AtomicStore`: what a
   handler may rely on when it reads and writes objects.  *Done.*
2. `AccessControl`: rights, groups, the authorization decision, and the queries
   that list a user's own resources.  *Done;* the order of lists is left out.
3. `RepoResources`: repositories, dockerfiles, images, versions, scan
   configurations, flags and events, with the lists of ids they keep of each
   other, and what a delete or a failing request leaves behind.  *Done;* scan
   parameters are left out.
4. `StoredObjects`: what redis holds of an object and what comes back of it,
   that is, the writers and the parser.  *Done.*
5. `Accounts`: realms and users, sessions and log-in, e-mail verification.
   *Done;* groups are in `AccessControl` only.
6. `RetriedCommands`: ids, names and tokens when connections to redis break.
   *Done.*

What remains to be done is listed at the end of section 7.

How they fit together.  `RequestTransactions` shows that a request reads a
stable view and writes all its objects at once, or none, and what it may not
rely on: nothing is watched, and names and tokens are written past the
transaction.  `AccessControl` is stated over requests that read a snapshot and
commit writes over it; `Accounts` and `RepoResources` over whole requests, with
an action of its own for what an aborted request leaves behind, which is the
same with one handler running at a time.  In `Accounts` the time between the
identification of a request and its handler is kept, as sessions are not
behind the transaction.  `RetriedCommands` opens up the three commands that
the others take to be executed once.  `StoredObjects` says which objects a
later request can read at all; `RepoResources` takes from it that versions and
events cannot be read with redis (`Readable`).

## 3. Modules

### AtomicStore

What the transaction layer promises: a request collects an intention (which
version to store under which id); the stored objects change only by the
application of one whole intention, once, and a cancelled request leaves
nothing behind.

### RequestTransactions

One action per exchange of a command and its reply.

| Action | Code |
|---|---|
| `Begin` | `handleRequest` up to the handler; `NewInMemClient`, `NewTxnContext`, `goredis.Transaction` (Get, MULTI) |
| `Read` (`Fetch`) | `getPersistentObject`, `Persistence.getObject`: cache, WATCH, GET through `ExecuteCommand` |
| `Update`, `Delete` (`Send`) | `updateObject`, `deleteObject`: cache, SET or DEL queued on the request's connection |
| `CheckUserId`, `CheckRealmName`, `ClaimName` | `addUser`, `addRealm`: HGET and HSET outside the transaction, the object's SET inside |
| `Fail`, `Panic` | a handler returns a `FailureDesc`, or panics |
| `Commit`, `Abort`, `Close` | `commit`, `abort` and the deferred abort of `handleRequest`; EXEC, DISCARD and `Transaction.Close` (Put) |

State: redis (`store`, `names`, and per connection `multi` and `queue`), the
pool's `idle` list, and per request its program counter, connection and cache.
`wrote`, `seen`, `returned` and `retaken` are history: they record what the
code's replies told a request, and what was taken from the pool when, and never
enable anything.

Abstractions: an object's content is the identity of the request that wrote
it last; a queue keeps the last value for each id, which is all that EXEC
shows; a command and its reply are one step, so that a command's effect and
the handler's reaction to it are not separated (nothing the reaction does is
visible to other requests until its own next command); the network does not
fail and redis does not restart; ids from INCR are unique.  In-memory-only
mode, a mode for tests, is not modelled.

A handler that returns a failure is aborted twice, and its connection goes to
the pool twice (see the findings).  Any request may take the connection in
between: the second DISCARD then drops its transaction, and the second Put
offers the connection to others while it is in use.  The model has all of these
interleavings.  `retaken` collects the connections that were ever taken from the
pool between the two aborts of a failed request (`Take`, `AbortAhead`), and a
request is `Secure` unless its connection is one of them.  The promises of this
layer - that a connection has one owner, whole transactions, unique names - are
stated for the requests that are `Secure`, whatever the others do meanwhile; that
the others lose them is what `abort_is_final` shows.  What a handler reads
(`ReadsOwnWrites`, `RepeatableRead`) and that each request ends hold for all.

### AccessControl

One action per handler, from what the handler read to its commit.

| Action | Code |
|---|---|
| `Begin`, `Abandon` | a request with a valid session reads the stored objects; it only reads, is refused, or fails |
| `SetPermission`, `AddPermission` (`dbCreateACLEntry`, `setPermissionMask`) | the handlers, `setAccess`, `addAccess` |
| `RemPermission` (`Matches`, `Deletable`, `Removals`) | `remPermission`, `deleteAccess` |
| `CreateGroup`, `AddGroupUser`, `RemGroupUser`, `DeleteGroup` | the handlers, `addUserId`, `removeUser`, `InMemRealm.deleteGroup` |
| `DeactivateRealm` | `dbDeactivateRealm` with `deleteAllAccessToResource` |
| `authorized`, `partyHasAccess` | the operators of the same names in `auth.go` |
| `getMyRealms`, `getMyRepos`, `getLeafResources` (`Listed`) | the queries of the same names, and getMyDockerfiles and its likes; operators, as they change nothing |

State: the entries, per party its entry ids and its groups or members, per
resource its entry ids and, for the realm, its groups; per request the user
and `view`, the objects as they were when it began.  A commit writes the
objects it changed, as it had read them, over what is stored by then.

Abstractions: lists of ids are sets.  Where the order decides what happens -
`deleteAccess` removes positions from a list that is getting shorter, and
`deleteGroup` ranges over the list it shortens - the outcome is
nondeterministic (`Removals`) or a guard (fewer than three members).  All
reads of a request are those of one moment, whereas the code reads when it
comes to it; with one request at a time there is no difference, with more the
model has fewer interleavings than the code.  An id of a deleted entry may be
given again once no list mentions it.  Resources are fixed and start with the
entry that their creator gets.  The rule that users may do anything with
their own user object does not arise for these resources.

### RepoResources

One action per request that succeeds, named like its handler, and further
actions for what a failing request leaves behind.

| Action | Code |
|---|---|
| `createRepo`, `addDockerfile`, `replaceDockerfile`, `execDockerfile`, `addAndExecDockerfile`, `remDockerfile` | the handlers, `captureFile`, `buildDockerfile` |
| `deleteRepo`, `remDockerImage`, `remImageVersion` (`Purge`, `Nullify`) | the handlers, `deleteAllChildResources` and the `delete...` methods of repo and image |
| `scanImage` | the handler, `dbCreateScanEvent` |
| `defineScanConfig`, `updateScanConfig`, `remScanConfig`, `useScanConfigForImage`, `stopUsingScanConfigForImage`, each with and without an attached flag where that is possible | the handlers, `setFlagId`, `addDockerImage`, `remDockerImage`, `deleteScanConfig` |
| `defineFlag`, `remFlag` | the handlers, `dbCreateFlag`, `deleteFlag` |
| `Target`, `Base` | `RepoId` of the request, or `getDefaultRepoForUser`, or the repo that createRepo has just made |
| `..._NameTaken`, `..._Fails`, `..._NotAnImage`, `..._BuildFails`, `..._DockerFails` | the same handlers with `-inmem`: the objects a request has changed before it fails are the stored ones |
| `..._Aborted` | the same handlers with redis: objects are not written, files are |
| `AbandonedUpload` | any handler that has captured a file and fails: with redis before the commit, with `-inmem` a `defineFlag` that is refused after the upload |
| `Walked`, `WalksOfScanConfigs`, `WalksOfImages` | loops over a list from which their body removes elements |

State: the resources, by kind, as functions from ids to records with the lists
of their Go types; users' default repos and the realm's repos; the files that
exist; and `inMemoryOnly`, the mode, which is chosen at the start.

What the model found out about the code and has in its guards: with redis a
`DockerImageVersion` cannot be read back once it is stored (`asJSON` does not
write the type name that `Persistence.getObject` needs), so that scans and
deletes of versions work with `-inmem` only (`Readable`); remDockerfile clears
the events and leaves the dockerfile where it is; deleteRepo leaves repo and
dockerfiles stored; and the path that replaceDockerfile sets is lost with
redis.

A delete walks lists that its own calls shorten: deleteScanConfig the images of
the configuration, deleteDockerImage the configurations and versions of the
image, deleteRepo the repo's lists.  `RemoveFrom` is not in the repository.  If
it closes the gap in the array that the loop is still reading, a loop over three
ids or more misses every other one and comes to the last one twice; if it copies
the list, it misses none.  Both are modelled (`Walked`).  What follows depends on
the body: to take a link away twice does nothing, so that deleteScanConfig and
deleteDockerImage go on to delete the object while some of the stored objects
still list it; an object that was deleted is not found a second time with
`-inmem`, so that the request fails half way (`remDockerImage_Fails`,
`deleteRepo_Fails`).

Abstractions: lists are sets, so that any of the ids may be those that are
missed; a request is one step; names are compared only, and the names of repos and the scan parameters
are left out; a path is given to one upload at a time (`createUniqueFilename`);
building, scanning and authorization are left to chance, that is, a request
may be refused in every state; exec events have the id of their version.

### StoredObjects

One object of one type is created, written, changed and written again; in
between it is read.  `memory` is the object as `-inmem` keeps it, `stored` the
text that redis keeps, `got` what the last `getObject` made of it.

| Definitions | Code |
|---|---|
| `asJSON`, the `..._asJSON` and `...FieldsAsJSON` operators | the methods of the same names |
| `retrieveTypeName`, the `parseJSON_...` operators | the functions of `DBjson.go` |
| the `Reconstitute...` operators (`MethodByName`) | the formal arguments of the methods that reflection finds |
| `ReconstituteObject`, `Call`, `Convert` | the function of the same name: matching of arguments, its errors and panics |
| `Change` (`SetField`, `AddToList`, `RemoveFromList`), `getObject` | the setters with their `writeBack`; `Persistence.getObject` |

A text is a sequence of tokens.  The writers return the texts of their fields,
`Braces` and `Named` put them together.  The functions of the parser call
themselves and each other: each operator is given what its calls return
(`calls`), and `Calls` defines these by the depth of calls that are still to be
made.  Every function takes a token before it makes a call, so that the length
of the text is deep enough; what is called beyond it finds the end of the text.

Strings are atoms: the name of their field, or one of `Words`, where a number, a
keyword and nothing at all are the cases in which the parser could take a string
for something else.  What the module assumes of its constants, and why:

* `TypesAreKnown`: the types under test have a Reconstitute method;
* `StringsArePlain`: no string has a quote in it, or what the external package
  rest would take for an escaped one.  `Sanitize` refuses both, and everything
  from a request that is stored passes it (scan configuration ids and parameters
  one by one, after they are split).  The output of docker and dockerfiles do
  not; rest encodes them, and the types that hold them cannot be read anyway;
* `DateIsWord`: a time is one word;
* `NumeralsDiffer`: the decimal of a byte stands for no other byte and is none of
  the parser's marks and keywords.

### Accounts

One action per handler, with `..._Aborted` for what an aborted one leaves
behind, and the steps of the server around them.

| Action | Code |
|---|---|
| `Arrive` (`identifySession`), `Refuse`, `Answer` | `ServeHTTP`, `authenticateRequestCookie`; the answer |
| `authenticate`, `logout`, `Restart` | the handlers, `invalidateSessionId`; `Stop` or a crash, then `Start` |
| `enableEmailVerification`, `validateAccountVerificationToken`, `EstablishEmail` | the handlers, `EstablishEmail.go` |
| `createRealm`, `createRealmAnon`, `createUser` | the handlers with `dbCreateRealm`, `dbCreateUser`, `addRealm`, `addUser` |
| `disableUser`, `reenableUser`, `changePassword`, `updateUserInfo`, `moveUserToRealm`, `deactivateRealm` | the handlers |
| `setPermission`, `remPermission` | the handlers, for realms and with all rights |

State: the two hashes of names, the stored realms and users, who has rights to
a realm (`owners`), the hash of e-mail tokens, the map of sessions, and per
request the session with which it arrived.  `proved`, `over` and `deactivated`
are history.

Abstractions: a name identifies its realm or user, as it is claimed once and
never given back; rights to a realm are all or none, and rights through groups
are left out; there is one handler at a time, but any time between the
arrival of a request and its handler; passwords are compared, not hashed; ids
of sessions and of tokens cannot be guessed and are each made once.

What the model found out about the code and has in its actions:

* the list of recent log-in attempts is changed but never written, so that no
  number of attempts locks anybody out (`authenticate` has no such guard);
* `updateUserInfo` hands the id of the user *object* to `EstablishEmail`, which
  looks for a user id: changing an address always fails, and with it nobody
  whose token was lost gets another one.  This is also why no token ever
  points to an address that its user has changed (`EmailProven`; its mutant is
  the handler with the right id);
* a session that was in use when its request arrived is used by the handler,
  even if it has ended meanwhile (an id that is sent as a parameter, not in a
  cookie, is looked up when the handler begins; that is a request which arrives
  just then); disabling a user ends no session;
* full names are unique in a realm when a user is created or moved, but
  `updateUserInfo` does not look;
* a name whose request is aborted stays taken, and with a realm's name of that
  kind no realm can be created any more (section 6);
* a token is deleted before the transaction commits.

### RetriedCommands

What `ExecuteCommand` does when connections break, for the three commands that
requests send past their transaction: INCR (`createUniqueDbObjectId`), HSET
(`addUser`, `addRealm`) and HDEL (`remIdentityValidationInfo`).

| Action | Code |
|---|---|
| `SendCommand`, `SendUnread`, `SendFails` | `connection.SendCommand`; redis executes the command, or not, and its reply arrives or is lost |
| `RecvReply`, `ReceiveFails` | `connection.RecvReply`, with the repetition after EOF |
| `Incremented`, `createUniqueDbObjectId` | the assignment to the field `uniqueId`, which the requests share, and the return of the local variable |
| `CheckName`, `ClaimAnswered` | the HGET and the HSET of `addUser` and `addRealm` |
| `TokenDeleted` | the reply to HDEL |

Abstractions: which connection a command uses is left out, as each use of one
ends before the next begins; HGET is one step, as repeating it is harmless.
A reply that never comes is a request that stays in `receive`: `RecvReply` sets
no deadline, so that nothing can be said of such a request ever ending.

## 4. Runs

| Run | Bounds | Shows |
|---|---|---|
| `transactions` | 2 requests, 1 stored object, 1 user name, 1 realm name, 3 connections, 2 operations per handler | handlers read their own writes and stable objects, every request ends; and for each whose connection was not taken between the two aborts of another: the connection is its own, names stay unique, the store is atomic |
| `watched_objects` | the same | violated: no object is ever watched |
| `abort_is_final` | the same | violated: the second DISCARD ends another request's transaction |
| `access_control` | 2 users, 1 group, realm and repo, 3 entries, masks read and write, 1 request at a time | lists and entries agree, no escalation, what is revoked, deleted or deactivated is gone, queries show what there are rights to |
| `members_only` | the same, one mask | violated: removed members keep the group's rights |
| `scan_resources` | 1 repo, 1 dockerfile, 3 images, versions, configurations and names, 1 flag, event and path; 5 of these images, versions, configurations, flags and events at most; both modes | what is stored and refers to each other agrees, events name nothing that was deleted, names are unique, a delete unlinks what it deletes, up to the few that a loop over three or more misses |
| `repo_lists` | 2 users, 2 repos, 2 dockerfiles, 1 image, 1 configuration, 2 flags, 2 names, 2 paths, both modes | lists, default repos, flags and files agree, after failed requests too |
| `stored_objects` | all 15 stored types, 3 words, 2 bytes, 2 changes | 10 types are read as they were written; the other 5 give an error, and never a wrong object |
| `stored_events` | 2 types | violated: an execution event cannot be read |
| `accounts` | 2 realms, 2 users, 2 names, addresses, passwords, sessions and tokens, 1 request in progress | memberships, verified addresses, deactivated realms and ended sessions stay what they should be |
| `realm_names` | the same, 1 password | violated: a name without a realm blocks all creations |
| `retried_commands` | 2 requests want one name, 2 present one token | ids are unique, one request has the name, one uses the token, wherever connections break |

Why the bounds are enough to be of use: two requests, each with a read and a
write of one object, are the smallest case of every conflict, and with three
connections and a pool of one both the reuse of a connection and the eviction
of one happen.  In `access_control` the three entries leave one to grant,
revoke and grant again, to either user or to the group, on realm or repo,
below the creator's own two; a second grant to the same pair is tried in every
state.  What does not depend on the size is proved for all sizes.
The two passing runs of `RepoResources` divide the resources.  In the first up
to five objects, among them three images, three versions or three
configurations, are built, linked, unlinked and deleted in all orders: three is
where loops begin to miss elements, and five make room for one configuration
with three images and a second one, or for three configurations of two images.
Ids are given in order there, as the server does, and the object with the n-th
id has the n-th name; the step that gives a name out of turn, a taken one for
example, is checked, and nothing after it (`InOrder`, `NamesInOrder`,
`FewObjects`).  In the second two flags replace each other in a configuration and
two repos are the default of either user; ids are exchanged with each other
there (`Symmetry`).  An object that was deleted is not made again, so every id stands for one life.
In `stored_objects` every field of every type is set, every list is extended
and shortened, and two changes are enough for a list of two and for any two
fields to differ from their first values.  In `accounts` two users and two
realms are the smallest case of a move; sessions and tokens are used up, which
bounds the instance, and two of each let one end while another is in use.  One
request in progress is enough for its session to end by a restart; that
another request ends it needs two, which the theorem covers.  In
`retried_commands` one command is sent three times at most, by the code itself.
`access_control` has a realm and a repo; the third level, which the queries of
leaves need, is too large for TLC and is in the theorem.

Fairness: `FairSpec` assumes weak fairness of each request's steps.  net/http
serves every connection in a goroutine of its own, the go scheduler runs each
runnable goroutine, and commands to redis are answered; a handler makes
finitely many operations (`MaxOps`).  Only `EveryRequestEnds` needs it.

## 5. Proofs

`RequestTransactions_proofs`, for any sets of requests, objects, names and
connections:

* `TypeCorrect`: `TypeOK`;
* `TransactionsIsolated`: `TransactionInv` is inductive.
  It says in which phase a connection is still the request's own (`PhaseInv`),
  that connections in the pool and outside transactions are quiet (`PoolInv`),
  that no two active requests share one (`OwnerInv`), and that the queue of an
  open transaction is what its handler was told (`QueueInv`), all for
  connections that were not retaken.  None of the four is inductive alone: a
  queue is right because nobody else sends on the connection, and nobody does
  because pool and owners are disjoint.  No assumption says when connections may
  be taken: a request that takes one under a pending abort is from then on not
  `Secure`, and neither is anyone who shares it, and `OwnerInv` keeps a request
  that aborts a second time away from all that are;
* `ConnectionsOwned`, which follows from it;
* `AtomicStoreImplemented`: initial states map to initial states, and under the
  invariant each step maps to an `Intend`, `Apply`, `Cancel` or a stutter, if it
  is not a step of a request that is not `Secure`: such a request may find its
  transaction gone, and then its SETs are executed one by one;
* `HandlersReadTheirWrites` and `ReadsAreRepeatable`: `CacheInv` says what a
  handler's cache has for what it wrote and for what it only read.  It speaks of
  one request at a time, so that it holds for all requests;
* `NamesAreUnique`, for requests that are `Secure`: whoever goes on with a name is
  alone with it and the name is taken (`ClaimInv`); an object without a name, or not
  yet stored, is known to nobody else (`StoredInv`), which is why no other
  request's commit stores it.

`AccessControl_proofs`, for any sets of users, groups, resources, entries and
masks and any tree of resources:

* `TypeCorrect`, for any number of overlapping requests;
* for requests that follow one another (`OneAtATime`), `AclInv`: types, every
  view is what is stored, the three records of a right agree and no pair has
  two entries.  Each step either removes a set of entries from all lists
  (`Removal`) or changes entries of one pair (`Grant`), and the theorems
  `PermissionRecordsAgree`, `EntriesUnique`, `RightsOnlyGranted`,
  `RevocationEffective`, `DeletionEffective` and `DeactivationEffective` follow
  from what these two do to `RightsOf`.  Uniqueness is needed for agreement:
  with two matches `deleteAccess` removes a wrong id.

It also has `QueriesComplete`, for requests that follow one another and
a tree of realm, repos and leaves (`ThreeLevels`): `QueriesShowRights`.  It
follows from `AclInv` - a query walks the list of the user, and by agreement
that list holds all of the user's entries, and resolves.

Its last part is `ListsLeadHome`, with any number of overlapping requests.
What is stored is not enough for an inductive invariant, because a commit mixes
it with what the request had read: `HomeInv` says that the lists of every view,
stored or read, agree with the entries of every view.  A step stores nothing
but parts of views and ids that no view mentions (`Follows`).

`RepoResources_proofs`, for any sets of ids, names and paths and both modes,
from the assumption that ids of different kinds differ and that what stands for
an object not yet, or no longer, stored is neither an object nor the other
(`RepoConstants`):

* `StructureHolds`: `Structure`, the conjunction of types, `ParentsStored`,
  `ChildrenListed` and `LinksHold`, is inductive.  A delete writes to the
  objects that the deleted ones name, so that types hold only as long as links
  and lists resolve, and these in turn are followed through stored parents.
  `LinksHold` is `ScanLinksAgree` and that whatever is linked has been stored
  once (`Known`): ids that a delete has missed lead to deleted objects, never to
  one that is still to come, which would be listed by a stranger;
* `TypeCorrect`, `ListsResolve` and `LinksAgree` follow.

The first part shows that each step keeps the types.  The second treats the
four kinds of resources alike: a `Family` is the resources of a kind with the
lists of the repos, and a step keeps, adds or removes resources of one repo
while its list follows (`Follows`, lemma `FamilyStep`).  `PurgeEffect` says once
what every delete does.

`RepoRecords_proofs`, from the same assumption and given `Structure` before and
after each step:

* `DeletesDoUnlink`, with the assumption that there are finitely many ids
  (`FiniteIds`), as it counts: a walk misses fewer than half of two or more
  (`FewMissed`), and what it reaches is unlinked on both sides (`PurgeUnlinks`);
  every other step keeps configurations and images stored (`WrittenStays`);
* `DefaultReposHold`: users and repos agree (`UsersAgree`), no two users have one
  default repo (`DefaultsApart`), and with redis it is in the realm
  (`DefaultsInRealm`);
* `NamesHold` and `FilesHold`: the properties are inductive.
  Names stay apart because a resource keeps its name and a list gets at most one
  more, of a name that was looked up; files because an upload takes a free path
  and only flags that go take their files with them.  Files are kept apart for
  all stored objects, those that no repo lists included: a failing request may
  have left them;
* `VersionsHold`: a version names an image that is stored (`VersionsInv`);
* `EventsHold`: what an event names lists the event, so that a delete finds it
  (`EventsInv`);
* `FlagRefsHold`: with redis the flag of a configuration is stored and lists it
  (`FlagsInv`); a flag goes with a repo only after the configurations that have
  it.

`Accounts_proofs`, for any sets of realms, users, names, sessions, tokens and
requests, from the assumptions that the marks for absent, unused and ended
things differ from the things themselves:

* `TypeCorrect` and `MembershipsAgree`: `TypeOK /\ Members` is inductive, the
  types not without `Members`.  A move changes the realm that the user names,
  which must be stored, and `Members` says that it is;
* `DeactivationHolds`: nobody has rights to a deactivated realm and its name
  stays claimed (`DeactivatedInv`), and every way into it, or back to activity,
  needs rights to it or claims its name;
* `EmailsAreProven`: a pending token names the address that its user has now
  (`TokensCurrent`), so that it is the proved address that is flagged;
* `EndedStaysEnded`: what is over is marked as ended, and the session that a
  request carries has been in the map, so that no log-in takes its id again
  (`SessionInv`).

Handlers that do the same to what the invariant is about are taken together:
those that edit one user (`Edited`), grant rights (`Granted`), make a user or a
realm (`Creation`), are aborted (`Aborted`), or touch the server only.

`RetriedCommands_proofs`, for any requests, names and tokens:

* `TypeCorrect`;
* `IdsAreUnique`: the ids that requests have, or have on their way, are taken
  from the counter, each for one request (`IdInv`);
* `ClaimsAreExclusive` and `TokensAreUsedOnce`: a request that was told, or will
  be, that its command changed something is the only one, and the name is in
  the hash, or the token is not, from then on (`WinInv`).

`StoredTexts_proofs` and `StoredObjects_proofs`, for any types, words, bytes and
bounds that satisfy the assumptions of `StoredObjects`:

* `ReadBack`: what `ReconstituteObject` makes of the text that `asJSON` writes is
  the object, if its type is one of the ten readable ones, and an error if it is
  one of the other five.  Its strings are from any set of plain words, its lists
  and hashes of any length: `MaxLen` and `MaxChanges` do not bound it;
* `TypeOKHolds`, `ObjectsRoundTrip` and `ObjectsNeverMisread` follow with the
  invariant `IInv`: the object has the fields of its type (`ObjectOf`), the text
  is what `asJSON` writes of it, and what was read was read from that text.  The
  text is in it because a read takes what an earlier write has left.

`Calls` and `Joined` are recursive functions.  What they are for every argument
takes induction, and the library's theorems of induction take an operator as
their parameter, which the provers cannot instantiate.  Their recursion
equations are therefore proved from well-founded induction on *sets* of naturals
(`WFMin`): a set of counterexamples that is not empty has a least element.  The
same argument, over the number of elements or fields that are left, shows that
the parser takes a list of texts apart as `Joined` has put it together.

The first module is about texts: what each parser function returns at the
position where a writer's text begins (`Reads`, `Readable`), and that it stops
behind it, whatever follows.  It ends with three lemmas about whole objects:
texts with a type name whose fields all can be read (`NamedRead`), with a field
that cannot (`NamedFails`), and texts without a type name (`NamelessFails`).
The second is about types: the fields that a writer writes and the formal
arguments that a method has are matched piece by piece (`Writes`, `Gives`), as
the shared methods of `InMemPersistObj`, `InMemACL`, `InMemResource` and
`InMemParty` are, so that each of the types needs only the pieces it is made of.

Model-checked only: `EveryRequestEnds`, since liveness under fairness is out of
the prover's reach.  All other properties of the passing runs are theorems.

## 6. Findings

Five runs show a disagreement between the code and what its comments say;
`PROJECT.json` quotes both.

* WATCH is sent inside MULTI and watches nothing (`watched_objects`).
* A failed request is aborted twice, the second time perhaps on somebody else's
  transaction (`abort_is_final`).
* Members removed from a group keep its rights (`members_only`).
* Events cannot be read from redis: their time is quoted twice (`stored_events`).
  Versions of images and parameter values cannot either: they are written
  without a type name.
* A realm's name stays claimed when the request is aborted, and then no realm
  can be created any more, whatever its name (`realm_names`).

Other things that showed while the modules were written, and are in their
actions: rights to a realm reach only its direct children; overlapping
permission handlers can lose an entry from one of its lists; a user id of an
aborted request stays taken; a configuration that is used for three images is
deleted without an error while one of them may go on listing it, and likewise an
image with three configurations (if `RemoveFrom` shortens lists in place); with `-inmem` a removal that fails half way lets a
flag go that is in use; remDockerfile leaves the dockerfile in its repo; and
those listed under `Accounts`.

## 7. Not modelled

Docker, the scanners, SMTP, file uploads, TLS, parsing of URLs and forms, and
the wording of answers are input and output; the configuration is read once,
before the first request.  clearAll and resetPersistentState work in debug
mode only.

Left out of the modules, and the next things to add: the order of lists (in
`RepoResources` any of the elements may be missed, `AccessControl` has groups of
less than three only); groups together with accounts; the
scan parameters; repo names; overlapping requests in `RepoResources` and
`Accounts`; the id counter of the in-memory mode, which two requests can race
on (`Persistence.go:334`); the races on Go maps, which can end the process; and
the HSET race of two claims, in which one request wins and the name is left
with the id of the other.

With redis, files are lost by requests that fail after they have removed one
(`remFlag_Aborted`, `deleteRepo_Aborted`) and by `replaceDockerfile`; `FilesKept`
is therefore stated for `-inmem` only.
