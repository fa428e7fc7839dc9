------------------------------ MODULE Accounts ------------------------------
(***************************************************************************)
(* Realms and their users, from the creation of an account to the end of a *)
(* session: log in and out, passwords, the e-mail address and its proof,   *)
(* moving and disabling users, and deactivating realms.                    *)
(*                                                                         *)
(* A request is identified when it arrives (ServeHTTP) and handled later;  *)
(* its handler is one step here, RequestTransactions is about its parts.   *)
(* What a handler writes past its transaction outlives an abort: names in  *)
(* the hashes of realms and of users, and e-mail tokens.  Such a name is   *)
(* claimed once and never given back, so that it identifies the object.    *)
(***************************************************************************)
EXTENDS Naturals

CONSTANTS
    Realms,       \* names of realms, which the naming rules accept
    UserIds,      \* user ids (log-in names)
    Names,        \* full names of users
    Addresses,    \* e-mail addresses
    Passwords,
    SessionIds,   \* ids that createUniqueSessionId returns, each once;
    Tokens,       \*   a session or a token that runs out bounds the instance
    Requests,     \* requests that may be in progress at one time
    AllowToggle,  \* the server's option toggleemail
    NoObj, Unused, Ended, Consumed, Idle, Nobody, NoSession, NoAddress

ASSUME AccountsAssumption ==
    /\ AllowToggle \in BOOLEAN
    /\ Nobody \notin UserIds /\ NoSession \notin SessionIds
    /\ NoAddress \notin Addresses
    /\ {Unused, Ended} \cap UserIds = {} /\ Unused # Ended

User    == [Name : Names, RealmId : Realms, IsActive : BOOLEAN,
            EmailAddress : Addresses, EmailIsVerified : BOOLEAN,
            PasswordHash : Passwords]
Realm   == [UserObjIds : SUBSET UserIds]
Token   == [user : UserIds, address : Addresses]
Anonymous == [user |-> Nobody, session |-> NoSession]
Session == [user : UserIds, session : SessionIds] \cup {Anonymous}

ASSUME AccountsSentinels ==
    /\ NoObj \notin User \cup Realm
    /\ {Unused, Ended, Consumed} \cap Token = {} /\ Consumed \notin {Unused, Ended}
    /\ Idle \notin Session

VARIABLES
    realmNames,   \* the hash of realms: names that are claimed
    realm,        \* realm[r]: the stored realm, or NoObj
    owners,       \* owners[r]: users with an ACL entry of all rights to r
    userNames,    \* the hash of users: user ids that are claimed
    user,         \* user[u]: the stored user, or NoObj
    emailTokens,  \* the hash of tokens: pending ones, Consumed, or Ended when
                  \*   what the token names has never been stored
    Sessions,     \* the server's map: the session's user, Ended when removed
    request,      \* request[q]: the user and session that it arrived with
    PerformEmailIdentityVerification,
    proved,       \* history: addresses that their users have shown to be theirs
    over,         \* history: sessions that a logout, a log-in or a restart ended
    deactivated   \* history: realms that have been deactivated

accounts == <<realmNames, realm, owners, userNames, user, emailTokens, proved,
              deactivated>>
server   == <<Sessions, request, PerformEmailIdentityVerification, over>>
vars     == <<accounts, server>>

\* A new database, and a server that has started.
Init ==
    /\ realmNames = {} /\ userNames = {}
    /\ realm = [r \in Realms |-> NoObj]
    /\ owners = [r \in Realms |-> {}]
    /\ user = [u \in UserIds |-> NoObj]
    /\ emailTokens = [t \in Tokens |-> Unused]
    /\ Sessions = [s \in SessionIds |-> Unused]
    /\ request = [q \in Requests |-> Idle]
    /\ PerformEmailIdentityVerification = ~AllowToggle
    /\ proved = {} /\ over = {} /\ deactivated = {}
-----------------------------------------------------------------------------
(***************************************************************************)
(* Sessions.                                                               *)
(***************************************************************************)

\* identifySession: the map of sessions is asked once, when the request
\* arrives; what it said is kept while the session may end.  (Only an id that
\* is sent as a parameter, not a cookie, is looked up when the handler begins:
\* such a request arrives just then.)
identifySession(s) ==
    IF s # NoSession /\ Sessions[s] \in UserIds
    THEN [user |-> Sessions[s], session |-> s] ELSE Anonymous

Arrive(q, s) ==
    /\ request[q] = Idle
    /\ request' = [request EXCEPT ![q] = identifySession(s)]
    /\ UNCHANGED <<accounts, Sessions, PerformEmailIdentityVerification, over>>

\* The answer.  The request was refused, only read, or failed before it
\* wrote anything that its abort does not take back.
Answer(q) == request' = [request EXCEPT ![q] = Idle]

Refuse(q) ==
    /\ request[q] # Idle
    /\ Answer(q)
    /\ UNCHANGED <<accounts, Sessions, PerformEmailIdentityVerification, over>>

\* authenticateSession: validateSessionId looks at the id's hash only.
authenticateSession(q) ==
    request[q] # Idle /\ request[q].user \in UserIds /\ user[request[q].user] # NoObj

\* authorized, for a realm: its ACL decides.
authorized(q, r) == authenticateSession(q) /\ request[q].user \in owners[r]

invalidateSessionId_Kept(s) == Sessions
invalidateSessionId(s) ==
    IF s \in SessionIds THEN [Sessions EXCEPT ![s] = Ended] ELSE Sessions

\* authenticate: the list of recent attempts is changed but not written, so
\* that it is empty whenever it is looked at.
authenticate(q, u, pswd, s) ==
    /\ request[q] # Idle
    /\ user[u] # NoObj
    /\ user[u].IsActive
    /\ user[u].PasswordHash = pswd
    /\ Sessions[s] = Unused
    /\ Sessions' = [invalidateSessionId(request[q].session) EXCEPT ![s] = u]
    /\ over' = over \cup ({request[q].session} \cap SessionIds)
    /\ Answer(q)
    /\ UNCHANGED <<accounts, PerformEmailIdentityVerification>>

logout(q) ==
    /\ authenticateSession(q)
    /\ Sessions' = invalidateSessionId(request[q].session)
    /\ over' = over \cup {request[q].session}
    /\ Answer(q)
    /\ UNCHANGED <<accounts, PerformEmailIdentityVerification>>

\* A crash, or Stop, which waits for no request: the server starts again.
Restart ==
    /\ Sessions' = [s \in SessionIds |-> IF Sessions[s] = Unused THEN Unused ELSE Ended]
    /\ request' = [q \in Requests |-> Idle]
    /\ PerformEmailIdentityVerification' = ~AllowToggle
    /\ over' = over \cup {s \in SessionIds : Sessions[s] \in UserIds}
    /\ UNCHANGED accounts

enableEmailVerification(q, enabled) ==
    /\ request[q] # Idle
    /\ AllowToggle
    /\ PerformEmailIdentityVerification' = enabled
    /\ Answer(q)
    /\ UNCHANGED <<accounts, Sessions, over>>

\* What a handler of accounts leaves alone.
SessionsKept(q) ==
    Answer(q) /\ UNCHANGED <<Sessions, PerformEmailIdentityVerification, over>>
-----------------------------------------------------------------------------
(***************************************************************************)
(* E-mail.                                                                 *)
(***************************************************************************)

\* ValidateEmail: a new token is written and mailed.
createEmailToken(t, content) ==
    /\ emailTokens[t] = Unused
    /\ emailTokens' = [emailTokens EXCEPT ![t] = content]

\* EstablishEmail for the user u, who gets the address a: v says whether it
\* is flagged as verified.
EstablishEmail(u, a, v) ==
    /\ v = ~PerformEmailIdentityVerification
    /\ IF v THEN proved' = proved \cup {<<u, a>>} /\ UNCHANGED emailTokens
            ELSE /\ \E t \in Tokens : createEmailToken(t, [user |-> u, address |-> a])
                 /\ UNCHANGED proved

\* The same when the request is aborted: a token may have been written.
EstablishEmail_Aborted ==
    \/ UNCHANGED emailTokens
    \/ /\ PerformEmailIdentityVerification
       /\ \E t \in Tokens : createEmailToken(t, Ended)

\* ValidateEmailToken finds the user by the token; the address is whatever
\* the user has now.
validateAccountVerificationToken(q, t) ==
    /\ request[q] # Idle
    /\ emailTokens[t] \in Token
    /\ LET u == emailTokens[t].user IN
       /\ user' = [user EXCEPT ![u].EmailIsVerified = TRUE]
       /\ proved' = proved \cup {<<u, emailTokens[t].address>>}
    /\ emailTokens' = [emailTokens EXCEPT ![t] = Consumed]
    /\ SessionsKept(q)
    /\ UNCHANGED <<realmNames, realm, owners, deactivated, userNames>>

\* The token is deleted past the transaction, which then fails.
validateAccountVerificationToken_Aborted(q, t) ==
    /\ request[q] # Idle
    /\ emailTokens[t] \in Token
    /\ emailTokens' = [emailTokens EXCEPT ![t] = Consumed]
    /\ SessionsKept(q)
    /\ UNCHANGED <<realmNames, realm, owners, deactivated, userNames, user, proved>>
-----------------------------------------------------------------------------
(***************************************************************************)
(* Users and realms.                                                       *)
(***************************************************************************)

\* getUserByName: the full names of the users in a realm's list.
NamesIn(r) == {user[u].Name : u \in realm[r].UserObjIds}

NewInMemUser(n, r, a, v, pswd) ==
    [Name |-> n, RealmId |-> r, IsActive |-> TRUE, EmailAddress |-> a,
     EmailIsVerified |-> v, PasswordHash |-> pswd]

\* getRealmIdByName reads every realm whose name is claimed; addRealm then
\* claims the name, at once and whatever becomes of the request.
getRealmIdByName(r) == \A c \in realmNames : realm[c] # NoObj
addRealm(r) == r \notin realmNames /\ realmNames' = realmNames \cup {r}

addUser_Unclaimed(u) == u \notin userNames /\ UNCHANGED userNames
addUser(u) == u \notin userNames /\ userNames' = userNames \cup {u}

\* addUserId and removeUserId: the realm's side of a membership.
addUserId(rs, u, r) == [rs EXCEPT ![r].UserObjIds = @ \cup {u}]
removeUserId_Kept(rs, u) == rs
removeUserId(rs, u) == [rs EXCEPT ![user[u].RealmId].UserObjIds = @ \ {u}]

createUser(q, u, n, a, pswd, r) ==
    /\ authorized(q, r)
    /\ realm[r] # NoObj
    /\ addUser(u)
    /\ n \notin NamesIn(r)
    /\ \E v \in BOOLEAN :
         /\ EstablishEmail(u, a, v)
         /\ user' = [user EXCEPT ![u] = NewInMemUser(n, r, a, v, pswd)]
    /\ realm' = addUserId(realm, u, r)
    /\ SessionsKept(q)
    /\ UNCHANGED <<realmNames, owners, deactivated>>

\* The user id has been claimed when addUser finds the full name in use, the
\* mail cannot be sent, or the transaction fails.
createUser_Aborted(q, u, r) ==
    /\ authorized(q, r)
    /\ realm[r] # NoObj
    /\ addUser(u)
    /\ EstablishEmail_Aborted
    /\ SessionsKept(q)
    /\ UNCHANGED <<realmNames, realm, owners, deactivated, user, proved>>

createRealm(q, r) ==
    /\ authenticateSession(q)
    /\ getRealmIdByName(r)
    /\ addRealm(r)
    /\ realm' = [realm EXCEPT ![r] = [UserObjIds |-> {}]]
    /\ owners' = [owners EXCEPT ![r] = {request[q].user}]
    /\ SessionsKept(q)
    /\ UNCHANGED <<userNames, user, emailTokens, proved, deactivated>>

\* The name has been claimed when the directory cannot be made or the
\* transaction fails.
createRealm_Aborted(q, r) ==
    /\ authenticateSession(q)
    /\ getRealmIdByName(r)
    /\ addRealm(r)
    /\ SessionsKept(q)
    /\ UNCHANGED <<realm, owners, deactivated, userNames, user, emailTokens, proved>>

\* createRealmAnon: a realm and its first user, for anybody; a user who is
\* logged in gets the rights as well.
createRealmAnon(q, r, u, n, a, pswd) ==
    /\ request[q] # Idle
    /\ getRealmIdByName(r)
    /\ addRealm(r)
    /\ addUser(u)
    /\ \E v \in BOOLEAN :
         /\ EstablishEmail(u, a, v)
         /\ user' = [user EXCEPT ![u] = NewInMemUser(n, r, a, v, pswd)]
    /\ realm' = [realm EXCEPT ![r] = [UserObjIds |-> {u}]]
    /\ owners' = [owners EXCEPT ![r] = {u} \cup ({request[q].user} \cap UserIds)]
    /\ SessionsKept(q)
    /\ UNCHANGED deactivated

\* The realm's name stays claimed, for example because the user id turns out
\* to be in use; both do if the request fails later.
createRealmAnon_Aborted(q, r, u) ==
    /\ request[q] # Idle
    /\ getRealmIdByName(r)
    /\ addRealm(r)
    /\ \/ UNCHANGED <<userNames, emailTokens>>
       \/ addUser(u) /\ EstablishEmail_Aborted
    /\ SessionsKept(q)
    /\ UNCHANGED <<realm, owners, deactivated, user, proved>>

\* Who may write the realm that the user is in now may disable the user.
authorizedFor_CallersRealm(q, u) ==
    authenticateSession(q) /\ authorized(q, user[request[q].user].RealmId)
authorizedFor(q, u) == authorized(q, user[u].RealmId)

setActive(q, u, b) ==
    /\ user' = [user EXCEPT ![u].IsActive = b]
    /\ SessionsKept(q)
    /\ UNCHANGED <<realmNames, realm, owners, deactivated, userNames, emailTokens, proved>>

disableUser(q, u) ==
    user[u] # NoObj /\ authorizedFor(q, u) /\ setActive(q, u, FALSE)

reenableUser(q, u) ==
    /\ user[u] # NoObj /\ authorizedFor(q, u)
    /\ ~user[u].IsActive
    /\ setActive(q, u, TRUE)

\* changePassword: one's own, knowing the old one; sessions go on.
changePassword(q, old, new) ==
    LET u == request[q].user IN
    /\ authenticateSession(q)
    /\ user[u].PasswordHash = old
    /\ user' = [user EXCEPT ![u].PasswordHash = new]
    /\ SessionsKept(q)
    /\ UNCHANGED <<realmNames, realm, owners, deactivated, userNames, emailTokens, proved>>

\* updateUserInfo: one's own.  For an address EstablishEmail is given the id
\* of the user object, under which no user id is found, and fails.
updateUserInfo_ByUserId(q, n, a) ==
    LET u == request[q].user IN
    /\ authenticateSession(q)
    /\ \/ /\ a = NoAddress
          /\ user' = [user EXCEPT ![u].Name = n]
          /\ UNCHANGED <<emailTokens, proved>>
       \/ /\ a # NoAddress
          /\ \E v \in BOOLEAN :
               /\ EstablishEmail(u, a, v)
               /\ user' = [user EXCEPT ![u].Name = n, ![u].EmailAddress = a,
                                       ![u].EmailIsVerified = v]
    /\ SessionsKept(q)
    /\ UNCHANGED <<realmNames, realm, owners, deactivated, userNames>>

updateUserInfo(q, n, a) ==
    LET u == request[q].user IN
    /\ authenticateSession(q)
    /\ a = NoAddress
    /\ user' = [user EXCEPT ![u].Name = n]
    /\ SessionsKept(q)
    /\ UNCHANGED <<realmNames, realm, owners, deactivated, userNames, emailTokens, proved>>

\* moveUserToRealm: removeUserId, then addUserId; who moves the user needs
\* a right to the realm of destination only.
moveUserToRealm(q, u, dest) ==
    /\ authorized(q, dest)
    /\ realm[dest] # NoObj
    /\ user[u] # NoObj
    /\ user[u].RealmId # dest
    /\ user[u].Name \notin NamesIn(dest)
    /\ realm' = addUserId(removeUserId(realm, u), u, dest)
    /\ user' = [user EXCEPT ![u].RealmId = dest]
    /\ SessionsKept(q)
    /\ UNCHANGED <<realmNames, owners, deactivated, userNames, emailTokens, proved>>

\* setPermission with all rights, and remPermission (see AccessControl).
setPermission(q, r, u) ==
    /\ authorized(q, r)
    /\ user[u] # NoObj
    /\ owners' = [owners EXCEPT ![r] = @ \cup {u}]
    /\ SessionsKept(q)
    /\ UNCHANGED <<realmNames, realm, userNames, user, emailTokens, proved, deactivated>>

remPermission(q, r, u) ==
    /\ authorized(q, r)
    /\ user[u] # NoObj
    /\ owners' = [owners EXCEPT ![r] = @ \ {u}]
    /\ SessionsKept(q)
    /\ UNCHANGED <<realmNames, realm, userNames, user, emailTokens, proved, deactivated>>

deactivateRealm(q, r) ==
    /\ authorized(q, r)
    /\ realm[r] # NoObj
    /\ owners' = [owners EXCEPT ![r] = {}]
    /\ deactivated' = deactivated \cup {r}
    /\ user' = [u \in UserIds |->
                  IF u \in realm[r].UserObjIds THEN [user[u] EXCEPT !.IsActive = FALSE] ELSE user[u]]
    /\ SessionsKept(q)
    /\ UNCHANGED <<realmNames, realm, userNames, emailTokens, proved>>

Next ==
    \/ Restart
    \/ \E q \in Requests :
         \/ \E s \in SessionIds \cup {NoSession} : Arrive(q, s)
         \/ Refuse(q)
         \/ logout(q)
         \/ \E enabled \in BOOLEAN : enableEmailVerification(q, enabled)
         \/ \E t \in Tokens : \/ validateAccountVerificationToken(q, t)
                              \/ validateAccountVerificationToken_Aborted(q, t)
         \/ \E old, new \in Passwords : changePassword(q, old, new)
         \/ \E n \in Names, a \in Addresses \cup {NoAddress} : updateUserInfo(q, n, a)
         \/ \E r \in Realms : \/ createRealm(q, r)
                              \/ createRealm_Aborted(q, r)
                              \/ deactivateRealm(q, r)
         \/ \E u \in UserIds : \/ disableUser(q, u)
                               \/ reenableUser(q, u)
                               \/ \E pswd \in Passwords, s \in SessionIds :
                                     authenticate(q, u, pswd, s)
         \/ \E r \in Realms, u \in UserIds :
              \/ createUser_Aborted(q, u, r)
              \/ createRealmAnon_Aborted(q, r, u)
              \/ moveUserToRealm(q, u, r)
              \/ setPermission(q, r, u)
              \/ remPermission(q, r, u)
              \/ \E n \in Names, a \in Addresses, pswd \in Passwords :
                    \/ createUser(q, u, n, a, pswd, r)
                    \/ createRealmAnon(q, r, u, n, a, pswd)

Spec == Init /\ [][Next]_vars
-----------------------------------------------------------------------------
(***************************************************************************)
(* Properties.                                                             *)
(***************************************************************************)

\* What is stored has its name claimed, a session is that of a stored user.
TypeOK ==
    /\ realmNames \subseteq Realms
    /\ realm \in [Realms -> Realm \cup {NoObj}]
    /\ \A r \in Realms : realm[r] # NoObj => r \in realmNames
    /\ owners \in [Realms -> SUBSET UserIds]
    /\ userNames \subseteq UserIds
    /\ user \in [UserIds -> User \cup {NoObj}]
    /\ \A u \in UserIds : user[u] # NoObj => u \in userNames
    /\ emailTokens \in [Tokens -> Token \cup {Unused, Consumed, Ended}]
    /\ \A t \in Tokens : emailTokens[t] \in Token => user[emailTokens[t].user] # NoObj
    /\ Sessions \in [SessionIds -> UserIds \cup {Unused, Ended}]
    /\ \A s \in SessionIds : Sessions[s] \in UserIds => user[Sessions[s]] # NoObj
    /\ request \in [Requests -> Session \cup {Idle}]
    /\ PerformEmailIdentityVerification \in BOOLEAN
    /\ proved \subseteq UserIds \X Addresses
    /\ over \subseteq SessionIds
    /\ deactivated \subseteq Realms

\* A user is in the list of one realm only, the one that the user names:
\* creating, moving, renaming and failing requests in any order keep the two
\* records together.
MembershipAgrees ==
    \A u \in UserIds, r \in Realms :
        realm[r] # NoObj =>
            (u \in realm[r].UserObjIds <=> user[u] # NoObj /\ user[u].RealmId = r)

\* flagEmailAsVerified marks whatever address the user has by then: still,
\* an address is only flagged that its user has proved by a token mailed to
\* it, or that the server did not ask a proof for.
EmailProven ==
    \A u \in UserIds :
        user[u] # NoObj /\ user[u].EmailIsVerified
            => <<u, user[u].EmailAddress>> \in proved

\* A realm that has been deactivated stays so: whoever still has a session,
\* nobody in it can be made active again, moved in, or created there.
DeactivatedRealmInactive ==
    \A r \in deactivated :
        /\ owners[r] = {}
        /\ \A u \in UserIds : user[u] # NoObj /\ user[u].RealmId = r
                                 => ~user[u].IsActive

\* A session that a logout, a new log-in with its cookie, or a restart has
\* ended is not taken for its user's by any request that arrives later.
EndedIsFinal ==
    [][\A q \in Requests :
          request[q] = Idle /\ request'[q] # Idle
              => request'[q].session \notin over]_vars

\* Every name in the hash of realms leads to a realm, as in DBClient.go:
\* "maintain referential integrity".  It is what getRealmIdByName relies on:
\* with one name that does not, no realm can be created any more.
RealmNamesResolve == \A r \in realmNames : realm[r] # NoObj
=============================================================================
