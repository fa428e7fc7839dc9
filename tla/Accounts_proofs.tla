--------------------------- MODULE Accounts_proofs ---------------------------
(***************************************************************************)
(* Proofs about Accounts, for any sets of realms, users, sessions, tokens  *)
(* and requests.                                                           *)
(***************************************************************************)
EXTENDS Accounts, TLAPS

-----------------------------------------------------------------------------
(***************************************************************************)
(* The inductive invariant of the types.  A user's realm is stored, and    *)
(* has the user in its list: without that, moving the user would change a  *)
(* realm that is not there.                                                *)
(***************************************************************************)
RealmTypeOK ==
    /\ realmNames \subseteq Realms
    /\ realm \in [Realms -> Realm \cup {NoObj}]
    /\ \A r \in Realms : realm[r] # NoObj => r \in realmNames
    /\ owners \in [Realms -> SUBSET UserIds]
    /\ deactivated \subseteq Realms

UserTypeOK ==
    /\ userNames \subseteq UserIds
    /\ user \in [UserIds -> User \cup {NoObj}]
    /\ \A u \in UserIds : user[u] # NoObj => u \in userNames

TokenTypeOK ==
    /\ emailTokens \in [Tokens -> Token \cup {Unused, Consumed, Ended}]
    /\ \A t \in Tokens : emailTokens[t] \in Token => user[emailTokens[t].user] # NoObj
    /\ proved \subseteq UserIds \X Addresses

ServerTypeOK ==
    /\ Sessions \in [SessionIds -> UserIds \cup {Unused, Ended}]
    /\ \A s \in SessionIds : Sessions[s] \in UserIds => user[Sessions[s]] # NoObj
    /\ request \in [Requests -> Session \cup {Idle}]
    /\ PerformEmailIdentityVerification \in BOOLEAN
    /\ over \subseteq SessionIds

LEMMA TypeParts ==
    TypeOK <=> RealmTypeOK /\ UserTypeOK /\ TokenTypeOK /\ ServerTypeOK
BY DEF TypeOK, RealmTypeOK, UserTypeOK, TokenTypeOK, ServerTypeOK

LEMMA TypePartsNext ==
    RealmTypeOK' /\ UserTypeOK' /\ TokenTypeOK' /\ ServerTypeOK' => TypeOK'
BY DEF TypeOK, RealmTypeOK, UserTypeOK, TokenTypeOK, ServerTypeOK

In(u, r) == realm[r] # NoObj /\ u \in realm[r].UserObjIds
Of(u, r) == user[u] # NoObj /\ user[u].RealmId = r

Members == \A u \in UserIds, r \in Realms : In(u, r) <=> Of(u, r)

LEMMA InitType == Init => TypeOK /\ Members
<1> SUFFICES ASSUME Init PROVE TypeOK /\ Members
  OBVIOUS
<1>1. RealmTypeOK /\ UserTypeOK
  BY DEF Init, RealmTypeOK, UserTypeOK
<1>2. TokenTypeOK
  BY AccountsSentinels DEF Init, TokenTypeOK
<1>3. ServerTypeOK
  BY AccountsAssumption DEF Init, ServerTypeOK
<1>4. Members
  BY DEF Init, Members, In, Of
<1> QED BY <1>1, <1>2, <1>3, <1>4, TypeParts

-----------------------------------------------------------------------------
(***************************************************************************)
(* What the parts of the actions do.                                       *)
(***************************************************************************)

\* No handler makes a user vanish, and what is stored of sessions and tokens
\* goes on naming stored users.
UsersStay == \A u \in UserIds : user[u] # NoObj => user'[u] # NoObj

LEMMA KeptServer ==
    ASSUME ServerTypeOK, UsersStay, NEW q \in Requests, SessionsKept(q)
    PROVE  ServerTypeOK'
BY DEF ServerTypeOK, UsersStay, SessionsKept, Answer

LEMMA KeptTokens ==
    ASSUME TokenTypeOK, UsersStay, UNCHANGED <<emailTokens, proved>>
    PROVE  TokenTypeOK'
BY DEF TokenTypeOK, UsersStay, Token

LEMMA ConsumedTokens ==
    ASSUME TokenTypeOK, UsersStay, NEW t \in Tokens, NEW x \in {Consumed, Ended},
           emailTokens' = [emailTokens EXCEPT ![t] = x],
           proved' \subseteq UserIds \X Addresses
    PROVE  TokenTypeOK'
<1>1. x \notin Token
  BY AccountsSentinels
<1> QED BY <1>1 DEF TokenTypeOK, UsersStay, Token

LEMMA EstablishedTokens ==
    ASSUME TokenTypeOK, UsersStay, NEW u \in UserIds, NEW a \in Addresses, NEW v,
           user'[u] # NoObj, EstablishEmail(u, a, v)
    PROVE  TokenTypeOK'
<1>1. CASE v
  BY <1>1 DEF EstablishEmail, TokenTypeOK, UsersStay, Token
<1>2. CASE ~v
  <2>1. PICK t \in Tokens : createEmailToken(t, [user |-> u, address |-> a])
    BY <1>2 DEF EstablishEmail
  <2>2. /\ emailTokens' = [emailTokens EXCEPT ![t] = [user |-> u, address |-> a]]
        /\ UNCHANGED proved
    BY <1>2, <2>1 DEF EstablishEmail, createEmailToken
  <2>3. [user |-> u, address |-> a] \in Token /\ [user |-> u, address |-> a].user = u
    BY DEF Token
  <2>4. emailTokens' \in [Tokens -> Token \cup {Unused, Consumed, Ended}]
    BY <2>2, <2>3 DEF TokenTypeOK
  <2>5. ASSUME NEW s \in Tokens, emailTokens'[s] \in Token
        PROVE  user'[emailTokens'[s].user] # NoObj
    <3>1. CASE s = t
      BY <2>2, <2>3, <3>1 DEF TokenTypeOK
    <3>2. CASE s # t
      BY <2>2, <2>5, <3>2 DEF TokenTypeOK, UsersStay, Token
    <3> QED BY <3>1, <3>2
  <2> QED BY <2>2, <2>4, <2>5 DEF TokenTypeOK
<1> QED BY <1>1, <1>2

LEMMA AbortedTokens ==
    ASSUME TokenTypeOK, EstablishEmail_Aborted, UNCHANGED <<user, proved>>
    PROVE  TokenTypeOK'
<1>1. UsersStay
  BY DEF UsersStay
<1>2. CASE UNCHANGED emailTokens
  BY <1>1, <1>2, KeptTokens
<1>3. CASE \E t \in Tokens : createEmailToken(t, Ended)
  <2>1. PICK t \in Tokens : emailTokens' = [emailTokens EXCEPT ![t] = Ended]
    BY <1>3 DEF createEmailToken
  <2> QED BY <1>1, <2>1, ConsumedTokens DEF TokenTypeOK
<1> QED BY <1>2, <1>3 DEF EstablishEmail_Aborted

\* One user's record is changed, but not the realm and the address in it.
\* It becomes active only with a right to the realm, and verified only with
\* a token.
EditedTo(u, x) ==
    /\ user' = [user EXCEPT ![u] = x]
    /\ x.RealmId = user[u].RealmId /\ x.EmailAddress = user[u].EmailAddress
    /\ x.IsActive => user[u].IsActive \/ owners[x.RealmId] # {}
    /\ x.EmailIsVerified =>
          \/ user[u].EmailIsVerified
          \/ \E t \in Tokens : /\ emailTokens[t] \in Token /\ emailTokens[t].user = u
                               /\ <<u, emailTokens[t].address>> \in proved'

Edited ==
    /\ \E u \in UserIds, x \in User : user[u] # NoObj /\ EditedTo(u, x)
    /\ \/ UNCHANGED <<emailTokens, proved>>
       \/ \E t \in Tokens : /\ emailTokens[t] \in Token
                            /\ emailTokens' = [emailTokens EXCEPT ![t] = Consumed]
                            /\ proved' = proved \cup
                                 {<<emailTokens[t].user, emailTokens[t].address>>}
    /\ \E q \in Requests : SessionsKept(q)
    /\ UNCHANGED <<realmNames, realm, owners, deactivated, userNames>>

LEMMA EditedType ==
    ASSUME TypeOK, Members, Edited
    PROVE  TypeOK' /\ Members'
<1>1. RealmTypeOK /\ UserTypeOK /\ TokenTypeOK /\ ServerTypeOK
  BY TypeParts
<1>2. PICK u \in UserIds, x \in User : user[u] # NoObj /\ EditedTo(u, x)
  BY DEF Edited
<1>3. x # NoObj /\ user' = [user EXCEPT ![u] = x] /\ x.RealmId = user[u].RealmId
  BY <1>2, AccountsSentinels DEF EditedTo
<1>4. UNCHANGED <<realmNames, realm, owners, deactivated, userNames>>
  BY DEF Edited
<1>5. UserTypeOK' /\ UsersStay
  BY <1>1, <1>2, <1>3, <1>4 DEF UserTypeOK, UsersStay
<1>6. \A w \in UserIds, r \in Realms : (Of(w, r)' <=> Of(w, r)) /\ (In(w, r)' <=> In(w, r))
  BY <1>1, <1>2, <1>3, <1>4 DEF Of, In, UserTypeOK
<1>7. TokenTypeOK'
  <2>1. CASE UNCHANGED <<emailTokens, proved>>
    BY <1>1, <1>5, <2>1, KeptTokens
  <2>2. ASSUME NEW t \in Tokens, emailTokens[t] \in Token,
               emailTokens' = [emailTokens EXCEPT ![t] = Consumed],
               proved' = proved \cup {<<emailTokens[t].user, emailTokens[t].address>>}
        PROVE  TokenTypeOK'
    <3>1. proved' \subseteq UserIds \X Addresses
      BY <1>1, <2>2 DEF TokenTypeOK, Token
    <3> QED BY <1>1, <1>5, <2>2, <3>1, ConsumedTokens
  <2> QED BY <2>1, <2>2 DEF Edited
<1>8. ServerTypeOK'
  BY <1>1, <1>5, KeptServer DEF Edited
<1>9. RealmTypeOK'
  BY <1>1, <1>4 DEF RealmTypeOK
<1>10. Members'
  BY <1>6 DEF Members, In, Of
<1> QED BY <1>5, <1>7, <1>8, <1>9, <1>10, TypePartsNext

LEMMA CallerIsUser ==
    ASSUME TypeOK, NEW q \in Requests, authenticateSession(q)
    PROVE  /\ request[q].user \in UserIds /\ user[request[q].user] \in User
           /\ user[request[q].user] # NoObj
           /\ request[q].session \in SessionIds
BY AccountsAssumption DEF TypeOK, authenticateSession, Session, Anonymous

LEMMA EditingActions ==
    ASSUME TypeOK, NEW q \in Requests,
           \/ \E t \in Tokens : validateAccountVerificationToken(q, t)
           \/ \E u \in UserIds : disableUser(q, u) \/ reenableUser(q, u)
           \/ \E old, new \in Passwords : changePassword(q, old, new)
           \/ \E n \in Names, a \in Addresses \cup {NoAddress} : updateUserInfo(q, n, a)
    PROVE  Edited
<1>1. ASSUME NEW t \in Tokens, validateAccountVerificationToken(q, t) PROVE Edited
  <2> DEFINE u == emailTokens[t].user
             x == [user[u] EXCEPT !.EmailIsVerified = TRUE]
  <2>1. emailTokens[t] \in Token /\ u \in UserIds /\ user[u] # NoObj /\ user[u] \in User
    BY <1>1 DEF validateAccountVerificationToken, TypeOK, Token
  <2>2. /\ x \in User /\ x.RealmId = user[u].RealmId /\ x.EmailAddress = user[u].EmailAddress
        /\ x.IsActive = user[u].IsActive
    BY <2>1 DEF User
  <2>3. /\ user' = [user EXCEPT ![u] = x]
        /\ proved' = proved \cup {<<u, emailTokens[t].address>>}
        /\ emailTokens' = [emailTokens EXCEPT ![t] = Consumed]
        /\ SessionsKept(q) /\ UNCHANGED <<realmNames, realm, owners, deactivated, userNames>>
    BY <1>1 DEF validateAccountVerificationToken
  <2>4. EditedTo(u, x)
    BY <2>1, <2>2, <2>3 DEF EditedTo
  <2> QED BY <2>1, <2>2, <2>3, <2>4 DEF Edited
<1>2. ASSUME NEW u \in UserIds, disableUser(q, u) \/ reenableUser(q, u) PROVE Edited
  <2>1. /\ user[u] # NoObj /\ user[u] \in User /\ request[q].user \in owners[user[u].RealmId]
        /\ \E b \in BOOLEAN : setActive(q, u, b)
    BY <1>2 DEF disableUser, reenableUser, authorizedFor, authorized, TypeOK
  <2>2. PICK b \in BOOLEAN : setActive(q, u, b)
    BY <2>1
  <2> DEFINE x == [user[u] EXCEPT !.IsActive = b]
  <2>3. /\ x \in User /\ x.RealmId = user[u].RealmId /\ x.EmailAddress = user[u].EmailAddress
        /\ x.EmailIsVerified = user[u].EmailIsVerified
    BY <2>1 DEF User
  <2>4. /\ user' = [user EXCEPT ![u] = x] /\ UNCHANGED <<emailTokens, proved>>
        /\ SessionsKept(q) /\ UNCHANGED <<realmNames, realm, owners, deactivated, userNames>>
    BY <2>2 DEF setActive
  <2>5. EditedTo(u, x)
    BY <2>1, <2>3, <2>4 DEF EditedTo
  <2> QED BY <2>1, <2>3, <2>4, <2>5 DEF Edited
<1>3. ASSUME NEW old \in Passwords, NEW new \in Passwords, changePassword(q, old, new)
      PROVE  Edited
  <2> DEFINE u == request[q].user
             x == [user[u] EXCEPT !.PasswordHash = new]
  <2>1. u \in UserIds /\ user[u] \in User /\ user[u] # NoObj
    BY <1>3, CallerIsUser DEF changePassword
  <2>2. /\ x \in User /\ x.RealmId = user[u].RealmId /\ x.EmailAddress = user[u].EmailAddress
        /\ x.EmailIsVerified = user[u].EmailIsVerified /\ x.IsActive = user[u].IsActive
    BY <2>1 DEF User
  <2>3. /\ user' = [user EXCEPT ![u] = x] /\ UNCHANGED <<emailTokens, proved>>
        /\ SessionsKept(q) /\ UNCHANGED <<realmNames, realm, owners, deactivated, userNames>>
    BY <1>3 DEF changePassword
  <2>4. EditedTo(u, x)
    BY <2>1, <2>2, <2>3 DEF EditedTo
  <2> QED BY <2>1, <2>2, <2>3, <2>4 DEF Edited
<1>4. ASSUME NEW n \in Names, NEW a \in Addresses \cup {NoAddress}, updateUserInfo(q, n, a)
      PROVE  Edited
  <2> DEFINE u == request[q].user
             x == [user[u] EXCEPT !.Name = n]
  <2>1. u \in UserIds /\ user[u] \in User /\ user[u] # NoObj
    BY <1>4, CallerIsUser DEF updateUserInfo
  <2>2. /\ x \in User /\ x.RealmId = user[u].RealmId /\ x.EmailAddress = user[u].EmailAddress
        /\ x.EmailIsVerified = user[u].EmailIsVerified /\ x.IsActive = user[u].IsActive
    BY <2>1 DEF User
  <2>3. /\ user' = [user EXCEPT ![u] = x] /\ UNCHANGED <<emailTokens, proved>>
        /\ SessionsKept(q) /\ UNCHANGED <<realmNames, realm, owners, deactivated, userNames>>
    BY <1>4 DEF updateUserInfo
  <2>4. EditedTo(u, x)
    BY <2>1, <2>2, <2>3 DEF EditedTo
  <2> QED BY <2>1, <2>2, <2>3, <2>4 DEF Edited
<1> QED BY <1>1, <1>2, <1>3, <1>4

-----------------------------------------------------------------------------
(***************************************************************************)
(* The other actions, one lemma each for the types.                        *)
(***************************************************************************)
LEMMA NewUserIsUser ==
    ASSUME NEW n \in Names, NEW r \in Realms, NEW a \in Addresses, NEW v \in BOOLEAN,
           NEW pswd \in Passwords
    PROVE  /\ NewInMemUser(n, r, a, v, pswd) \in User
           /\ NewInMemUser(n, r, a, v, pswd) # NoObj
           /\ NewInMemUser(n, r, a, v, pswd).RealmId = r
           /\ NewInMemUser(n, r, a, v, pswd).EmailAddress = a
           /\ NewInMemUser(n, r, a, v, pswd).EmailIsVerified = v
<1> DEFINE x == NewInMemUser(n, r, a, v, pswd)
<1>1. x \in User /\ x.RealmId = r /\ x.EmailAddress = a /\ x.EmailIsVerified = v
  BY DEF NewInMemUser, User
<1>2. x # NoObj
  BY <1>1, AccountsSentinels
<1> QED BY <1>1, <1>2

\* A user whose id was not claimed is stored; nobody was stored under it.
LEMMA NewUser ==
    ASSUME TypeOK, NEW u \in UserIds, NEW x \in User, addUser(u),
           user' = [user EXCEPT ![u] = x]
    PROVE  user[u] = NoObj /\ x # NoObj /\ UserTypeOK' /\ UsersStay
<1>1. user[u] = NoObj /\ x # NoObj
  BY AccountsSentinels DEF TypeOK, addUser
<1> QED BY <1>1 DEF TypeOK, UserTypeOK, addUser, UsersStay

LEMMA CreateUserType ==
    ASSUME TypeOK, Members, NEW q \in Requests, NEW u \in UserIds, NEW n \in Names,
           NEW a \in Addresses, NEW pswd \in Passwords, NEW r \in Realms,
           createUser(q, u, n, a, pswd, r)
    PROVE  TypeOK' /\ Members'
<1>1. RealmTypeOK /\ UserTypeOK /\ TokenTypeOK /\ ServerTypeOK
  BY TypeParts
<1>2. PICK v \in BOOLEAN :
         /\ EstablishEmail(u, a, v)
         /\ user' = [user EXCEPT ![u] = NewInMemUser(n, r, a, v, pswd)]
  BY DEF createUser
<1> DEFINE x == NewInMemUser(n, r, a, v, pswd)
<1>3. x \in User /\ x.RealmId = r
  BY NewUserIsUser
<1> HIDE DEF x
<1>4. addUser(u) /\ user' = [user EXCEPT ![u] = x]
  BY <1>2 DEF createUser, x
<1>5. user[u] = NoObj /\ x # NoObj /\ UserTypeOK' /\ UsersStay
  BY <1>3, <1>4, NewUser
<1>6. TokenTypeOK'
  <2>1. user'[u] # NoObj
    BY <1>1, <1>4, <1>5 DEF UserTypeOK
  <2> QED BY <1>1, <1>2, <1>5, <2>1, EstablishedTokens
<1>7. ServerTypeOK'
  BY <1>1, <1>5, KeptServer DEF createUser
<1>8. /\ realm[r] # NoObj /\ realm[r] \in Realm
      /\ realm' = [realm EXCEPT ![r] = [realm[r] EXCEPT !.UserObjIds = @ \cup {u}]]
      /\ UNCHANGED <<realmNames, owners, deactivated>>
  BY <1>1 DEF createUser, addUserId, RealmTypeOK
<1>9. /\ realm'[r] \in Realm /\ realm'[r] # NoObj
      /\ realm'[r].UserObjIds = realm[r].UserObjIds \cup {u}
      /\ \A s \in Realms : s # r => realm'[s] = realm[s]
  BY <1>1, <1>8, AccountsSentinels DEF Realm, RealmTypeOK
<1>10. RealmTypeOK'
  BY <1>1, <1>8, <1>9 DEF RealmTypeOK
<1>11. Members'
  <2>1. user'[u] = x /\ \A w \in UserIds : w # u => user'[w] = user[w]
    BY <1>1, <1>4 DEF UserTypeOK
  <2>2. \A s \in Realms : ~In(u, s)
    BY <1>5 DEF Members, Of
  <2> QED BY <1>3, <1>5, <1>8, <1>9, <2>1, <2>2 DEF Members, In, Of
<1> QED BY <1>5, <1>6, <1>7, <1>10, <1>11, TypePartsNext

LEMMA NewRealm ==
    ASSUME TypeOK, NEW r \in Realms, NEW m \in SUBSET UserIds, NEW o \in SUBSET UserIds,
           addRealm(r), realm' = [realm EXCEPT ![r] = [UserObjIds |-> m]],
           owners' = [owners EXCEPT ![r] = o], UNCHANGED deactivated
    PROVE  /\ RealmTypeOK' /\ realm[r] = NoObj
           /\ realm'[r] # NoObj /\ realm'[r].UserObjIds = m
           /\ \A s \in Realms : s # r => realm'[s] = realm[s]
<1>1. [UserObjIds |-> m] \in Realm /\ [UserObjIds |-> m] # NoObj
  BY AccountsSentinels DEF Realm
<1> QED BY <1>1 DEF TypeOK, RealmTypeOK, addRealm

LEMMA CreateRealmType ==
    ASSUME TypeOK, Members, NEW q \in Requests, NEW r \in Realms, createRealm(q, r)
    PROVE  TypeOK' /\ Members'
<1>1. RealmTypeOK /\ UserTypeOK /\ TokenTypeOK /\ ServerTypeOK
  BY TypeParts
<1>2. request[q].user \in UserIds
  BY CallerIsUser DEF createRealm
<1>3. /\ RealmTypeOK' /\ realm[r] = NoObj
      /\ realm'[r] # NoObj /\ realm'[r].UserObjIds = {}
      /\ \A s \in Realms : s # r => realm'[s] = realm[s]
  <2>1. /\ addRealm(r) /\ realm' = [realm EXCEPT ![r] = [UserObjIds |-> {}]]
        /\ owners' = [owners EXCEPT ![r] = {request[q].user}] /\ UNCHANGED deactivated
    BY DEF createRealm
  <2>2. {} \in SUBSET UserIds /\ {request[q].user} \in SUBSET UserIds
    BY <1>2
  <2> QED BY <2>1, <2>2, NewRealm
<1>4. UNCHANGED <<userNames, user, emailTokens, proved>> /\ UsersStay
  BY DEF createRealm, UsersStay
<1>5. UserTypeOK' /\ TokenTypeOK' /\ ServerTypeOK'
  BY <1>1, <1>4, KeptServer, KeptTokens DEF createRealm, UserTypeOK
<1>6. Members'
  BY <1>3, <1>4 DEF Members, In, Of
<1> QED BY <1>3, <1>5, <1>6, TypePartsNext

LEMMA CreateRealmAnonType ==
    ASSUME TypeOK, Members, NEW q \in Requests, NEW r \in Realms, NEW u \in UserIds,
           NEW n \in Names, NEW a \in Addresses, NEW pswd \in Passwords,
           createRealmAnon(q, r, u, n, a, pswd)
    PROVE  TypeOK' /\ Members'
<1>1. RealmTypeOK /\ UserTypeOK /\ TokenTypeOK /\ ServerTypeOK
  BY TypeParts
<1>2. PICK v \in BOOLEAN :
         /\ EstablishEmail(u, a, v)
         /\ user' = [user EXCEPT ![u] = NewInMemUser(n, r, a, v, pswd)]
  BY DEF createRealmAnon
<1> DEFINE x == NewInMemUser(n, r, a, v, pswd)
<1>3. x \in User /\ x.RealmId = r
  BY NewUserIsUser
<1> HIDE DEF x
<1>4. addUser(u) /\ user' = [user EXCEPT ![u] = x]
  BY <1>2 DEF createRealmAnon, x
<1>5. user[u] = NoObj /\ x # NoObj /\ UserTypeOK' /\ UsersStay
  BY <1>3, <1>4, NewUser
<1>6. user'[u] = x /\ \A w \in UserIds : w # u => user'[w] = user[w]
  BY <1>1, <1>4 DEF UserTypeOK
<1>7. TokenTypeOK'
  BY <1>1, <1>2, <1>5, <1>6, EstablishedTokens
<1>8. ServerTypeOK'
  BY <1>1, <1>5, KeptServer DEF createRealmAnon
<1>9. /\ RealmTypeOK' /\ realm[r] = NoObj
      /\ realm'[r] # NoObj /\ realm'[r].UserObjIds = {u}
      /\ \A s \in Realms : s # r => realm'[s] = realm[s]
  <2> DEFINE o == {u} \cup ({request[q].user} \cap UserIds)
  <2>1. /\ addRealm(r) /\ realm' = [realm EXCEPT ![r] = [UserObjIds |-> {u}]]
        /\ owners' = [owners EXCEPT ![r] = o] /\ UNCHANGED deactivated
    BY DEF createRealmAnon
  <2>2. {u} \in SUBSET UserIds /\ o \in SUBSET UserIds
    OBVIOUS
  <2> HIDE DEF o
  <2> QED BY <2>1, <2>2, NewRealm
<1>10. Members'
  <2>1. \A s \in Realms : ~In(u, s)
    BY <1>5 DEF Members, Of
  <2>2. \A w \in UserIds : ~Of(w, r)
    BY <1>9 DEF Members, In
  <2> QED BY <1>3, <1>5, <1>6, <1>9, <2>1, <2>2 DEF Members, In, Of
<1> QED BY <1>5, <1>7, <1>8, <1>9, <1>10, TypePartsNext

LEMMA MoveUserType ==
    ASSUME TypeOK, Members, NEW q \in Requests, NEW u \in UserIds, NEW dest \in Realms,
           moveUserToRealm(q, u, dest)
    PROVE  TypeOK' /\ Members'
<1>1. RealmTypeOK /\ UserTypeOK /\ TokenTypeOK /\ ServerTypeOK
  BY TypeParts
<1> DEFINE src == user[u].RealmId
           x == [user[u] EXCEPT !.RealmId = dest]
<1>2. /\ user[u] # NoObj /\ user[u] \in User /\ src \in Realms /\ src # dest
      /\ realm[dest] # NoObj /\ realm[dest] \in Realm
  BY <1>1 DEF moveUserToRealm, UserTypeOK, RealmTypeOK, User
<1>3. x \in User /\ x # NoObj /\ x.RealmId = dest
  BY <1>2, AccountsSentinels DEF User
<1>4. realm[src] # NoObj /\ realm[src] \in Realm
  BY <1>1, <1>2 DEF Members, Of, In, RealmTypeOK
<1>5. user' = [user EXCEPT ![u] = x]
  BY DEF moveUserToRealm
<1>6. /\ realm'[src] = [realm[src] EXCEPT !.UserObjIds = @ \ {u}]
      /\ realm'[dest] = [realm[dest] EXCEPT !.UserObjIds = @ \cup {u}]
      /\ \A s \in Realms : s # src /\ s # dest => realm'[s] = realm[s]
      /\ DOMAIN realm' = Realms /\ realm' = [s \in Realms |-> realm'[s]]
  BY <1>1, <1>2 DEF moveUserToRealm, addUserId, removeUserId, RealmTypeOK
<1> HIDE DEF src, x
<1>7. /\ realm'[src] \in Realm /\ realm'[src] # NoObj
      /\ realm'[src].UserObjIds = realm[src].UserObjIds \ {u}
      /\ realm'[dest] \in Realm /\ realm'[dest] # NoObj
      /\ realm'[dest].UserObjIds = realm[dest].UserObjIds \cup {u}
  BY <1>2, <1>4, <1>6, AccountsSentinels DEF Realm
<1>8. RealmTypeOK'
  <2>1. UNCHANGED <<realmNames, owners, deactivated>>
    BY DEF moveUserToRealm
  <2>2. \A s \in Realms : /\ realm'[s] \in Realm \cup {NoObj}
                          /\ realm'[s] # NoObj => realm[s] # NoObj
    BY <1>1, <1>2, <1>4, <1>6, <1>7 DEF RealmTypeOK
  <2>3. realm' \in [Realms -> Realm \cup {NoObj}]
    BY <1>6, <2>2
  <2> QED BY <1>1, <2>1, <2>2, <2>3 DEF RealmTypeOK
<1>9. UserTypeOK' /\ UsersStay
  BY <1>1, <1>2, <1>3, <1>5 DEF UserTypeOK, UsersStay, moveUserToRealm
<1>10. TokenTypeOK' /\ ServerTypeOK'
  BY <1>1, <1>9, KeptTokens, KeptServer DEF moveUserToRealm
<1>11. Members'
  <2>1. user'[u] = x /\ \A w \in UserIds : w # u => user'[w] = user[w]
    BY <1>1, <1>5 DEF UserTypeOK
  <2>2. \A s \in Realms : In(u, s) <=> s = src
    BY <1>2 DEF Members, Of, src
  <2>3. ASSUME NEW w \in UserIds, NEW s \in Realms PROVE In(w, s)' <=> Of(w, s)'
    <3>1. In(w, s) <=> Of(w, s)
      BY DEF Members
    <3>2. CASE w # u
      BY <1>2, <1>4, <1>6, <1>7, <2>1, <3>1, <3>2 DEF In, Of
    <3>3. CASE w = u
      <4>1. Of(u, s)' <=> s = dest
        BY <1>3, <2>1 DEF Of
      <4>2. In(u, s)' <=> s = dest
        <5>1. CASE s = src
          BY <1>2, <1>7, <5>1 DEF In
        <5>2. CASE s = dest
          BY <1>7, <5>2 DEF In
        <5>3. CASE s # src /\ s # dest
          BY <1>6, <2>2, <5>3 DEF In
        <5> QED BY <5>1, <5>2, <5>3
      <4> QED BY <3>3, <4>1, <4>2
    <3> QED BY <3>2, <3>3
  <2> QED BY <2>3 DEF Members
<1> QED BY <1>8, <1>9, <1>10, <1>11, TypePartsNext

LEMMA DeactivateRealmType ==
    ASSUME TypeOK, Members, NEW q \in Requests, NEW r \in Realms, deactivateRealm(q, r)
    PROVE  /\ TypeOK' /\ Members'
           /\ \A u \in UserIds : Of(u, r) => /\ user'[u] # NoObj
                                             /\ ~user'[u].IsActive
           /\ \A u \in UserIds : user[u] # NoObj =>
                 /\ user'[u].RealmId = user[u].RealmId
                 /\ user'[u].EmailAddress = user[u].EmailAddress
                 /\ user'[u].EmailIsVerified = user[u].EmailIsVerified
                 /\ user'[u].IsActive => user[u].IsActive
           /\ \A u \in UserIds : user[u] = NoObj <=> user'[u] = NoObj
<1>1. RealmTypeOK /\ UserTypeOK /\ TokenTypeOK /\ ServerTypeOK
  BY TypeParts
<1>2. user' = [u \in UserIds |->
                 IF u \in realm[r].UserObjIds THEN [user[u] EXCEPT !.IsActive = FALSE] ELSE user[u]]
  BY DEF deactivateRealm
<1>3. \A u \in UserIds : u \in realm[r].UserObjIds <=> Of(u, r)
  BY DEF deactivateRealm, Members, In
<1>4. ASSUME NEW u \in UserIds, Of(u, r)
      PROVE  /\ user'[u] \in User /\ user'[u] # NoObj
             /\ user'[u].RealmId = user[u].RealmId
             /\ user'[u].EmailAddress = user[u].EmailAddress
             /\ user'[u].EmailIsVerified = user[u].EmailIsVerified
             /\ user'[u].IsActive = FALSE
  <2>1. user[u] \in User /\ user'[u] = [user[u] EXCEPT !.IsActive = FALSE]
    BY <1>1, <1>2, <1>3, <1>4 DEF Of, UserTypeOK
  <2> QED BY <2>1, AccountsSentinels DEF User
<1>5. \A u \in UserIds : ~Of(u, r) => user'[u] = user[u]
  BY <1>2, <1>3
<1>6. \A u \in UserIds : user[u] = NoObj <=> user'[u] = NoObj
  BY <1>4, <1>5 DEF Of
<1>7. user' \in [UserIds -> User \cup {NoObj}]
  <2>1. \A u \in UserIds : user'[u] \in User \cup {NoObj}
    BY <1>1, <1>4, <1>5 DEF UserTypeOK
  <2>2. user' = [u \in UserIds |-> user'[u]]
    BY <1>2
  <2> QED BY <2>1, <2>2
<1>8. UserTypeOK' /\ UsersStay
  BY <1>1, <1>6, <1>7 DEF UserTypeOK, UsersStay, deactivateRealm
<1>9. RealmTypeOK'
  BY <1>1 DEF RealmTypeOK, deactivateRealm
<1>10. TokenTypeOK' /\ ServerTypeOK'
  BY <1>1, <1>8, KeptTokens, KeptServer DEF deactivateRealm
<1>11. Members'
  <2>1. UNCHANGED realm
    BY DEF deactivateRealm
  <2>2. \A u \in UserIds, s \in Realms : Of(u, s) <=> user'[u] # NoObj /\ user'[u].RealmId = s
    BY <1>4, <1>5, <1>6 DEF Of
  <2> QED BY <2>1, <2>2 DEF Members, In, Of
<1>12. TypeOK'
  BY <1>8, <1>9, <1>10, TypePartsNext
<1> QED BY <1>4, <1>5, <1>6, <1>11, <1>12 DEF Of

\* A request that fails: names may stay claimed, a token may be spent.
Aborted ==
    /\ realmNames \subseteq realmNames' /\ realmNames' \subseteq Realms
    /\ userNames \subseteq userNames' /\ userNames' \subseteq UserIds
    /\ \/ UNCHANGED emailTokens
       \/ \E t \in Tokens, x \in {Consumed, Ended} :
             emailTokens' = [emailTokens EXCEPT ![t] = x]
    /\ \E q \in Requests : SessionsKept(q)
    /\ UNCHANGED <<realm, owners, deactivated, user, proved>>

LEMMA AbortedActions ==
    ASSUME TypeOK, NEW q \in Requests,
           \/ \E t \in Tokens : validateAccountVerificationToken_Aborted(q, t)
           \/ \E r \in Realms, u \in UserIds :
                 createUser_Aborted(q, u, r) \/ createRealmAnon_Aborted(q, r, u)
           \/ \E r \in Realms : createRealm_Aborted(q, r)
    PROVE  Aborted
<1> USE DEF Aborted, TypeOK
<1>1. ASSUME EstablishEmail_Aborted
      PROVE  \/ UNCHANGED emailTokens
             \/ \E t \in Tokens, x \in {Consumed, Ended} :
                   emailTokens' = [emailTokens EXCEPT ![t] = x]
  BY <1>1 DEF EstablishEmail_Aborted, createEmailToken
<1>2. ASSUME NEW t \in Tokens, validateAccountVerificationToken_Aborted(q, t) PROVE Aborted
  BY <1>2 DEF validateAccountVerificationToken_Aborted
<1>3. ASSUME NEW r \in Realms, NEW u \in UserIds, createUser_Aborted(q, u, r) PROVE Aborted
  BY <1>1, <1>3 DEF createUser_Aborted, addUser
<1>4. ASSUME NEW r \in Realms, NEW u \in UserIds, createRealmAnon_Aborted(q, r, u)
      PROVE  Aborted
  BY <1>1, <1>4 DEF createRealmAnon_Aborted, addUser, addRealm
<1>5. ASSUME NEW r \in Realms, createRealm_Aborted(q, r) PROVE Aborted
  BY <1>5 DEF createRealm_Aborted, addRealm
<1> QED BY <1>2, <1>3, <1>4, <1>5

\* Rights are given or taken, in a realm where somebody has some.
Granted ==
    /\ \E r \in Realms, o \in SUBSET UserIds :
          owners[r] # {} /\ owners' = [owners EXCEPT ![r] = o]
    /\ \E q \in Requests : SessionsKept(q)
    /\ UNCHANGED <<realmNames, realm, userNames, user, emailTokens, proved, deactivated>>

LEMMA GrantingActions ==
    ASSUME TypeOK, NEW q \in Requests, NEW r \in Realms, NEW u \in UserIds,
           setPermission(q, r, u) \/ remPermission(q, r, u)
    PROVE  Granted
<1>1. owners[r] # {} /\ owners[r] \in SUBSET UserIds
  BY DEF setPermission, remPermission, authorized, TypeOK
<1>2. \E o \in SUBSET UserIds : owners' = [owners EXCEPT ![r] = o]
  <2>1. CASE setPermission(q, r, u)
    <3>1. owners' = [owners EXCEPT ![r] = owners[r] \cup {u}]
      BY <2>1 DEF setPermission
    <3> QED BY <1>1, <3>1
  <2>2. CASE remPermission(q, r, u)
    <3>1. owners' = [owners EXCEPT ![r] = owners[r] \ {u}]
      BY <2>2 DEF remPermission
    <3> QED BY <1>1, <3>1
  <2> QED BY <2>1, <2>2
<1> QED BY <1>1, <1>2 DEF Granted, setPermission, remPermission

LEMMA AbortedOrGrantedType ==
    ASSUME TypeOK, Members, Aborted \/ Granted
    PROVE  TypeOK' /\ Members'
<1>1. RealmTypeOK /\ UserTypeOK /\ TokenTypeOK /\ ServerTypeOK
  BY TypeParts
<1>2. UNCHANGED <<realm, user, proved>> /\ UsersStay
  BY DEF Aborted, Granted, UsersStay
<1>3. UserTypeOK'
  BY <1>1, <1>2 DEF Aborted, Granted, UserTypeOK
<1>4. RealmTypeOK'
  BY <1>1, <1>2 DEF Aborted, Granted, RealmTypeOK
<1>5. TokenTypeOK'
  <2>1. CASE UNCHANGED emailTokens
    BY <1>1, <1>2, <2>1, KeptTokens
  <2>2. ASSUME NEW t \in Tokens, NEW x \in {Consumed, Ended},
               emailTokens' = [emailTokens EXCEPT ![t] = x]
        PROVE  TokenTypeOK'
    <3>1. proved' \subseteq UserIds \X Addresses
      BY <1>1, <1>2 DEF TokenTypeOK
    <3> QED BY <1>1, <1>2, <2>2, <3>1, ConsumedTokens
  <2> QED BY <2>1, <2>2 DEF Aborted, Granted
<1>6. ServerTypeOK'
  BY <1>1, <1>2, KeptServer DEF Aborted, Granted
<1>7. Members'
  BY <1>2 DEF Members, In, Of
<1> QED BY <1>3, <1>4, <1>5, <1>6, <1>7, TypePartsNext

\* Log in and out, and what else is the server's own.
ServerAction ==
    \/ Restart
    \/ \E q \in Requests :
         \/ \E s \in SessionIds \cup {NoSession} : Arrive(q, s)
         \/ Refuse(q)
         \/ logout(q)
         \/ \E enabled \in BOOLEAN : enableEmailVerification(q, enabled)
         \/ \E u \in UserIds, pswd \in Passwords, s \in SessionIds :
               authenticate(q, u, pswd, s)

LEMMA ServerActionsType ==
    ASSUME TypeOK, ServerAction
    PROVE  TypeOK' /\ UNCHANGED accounts
<1>1. RealmTypeOK /\ UserTypeOK /\ TokenTypeOK /\ ServerTypeOK
  BY TypeParts
<1>2. UNCHANGED accounts
  BY DEF ServerAction, Restart, Arrive, Refuse, logout, enableEmailVerification, authenticate
<1>3. RealmTypeOK' /\ UserTypeOK' /\ TokenTypeOK'
  BY <1>1, <1>2 DEF accounts, RealmTypeOK, UserTypeOK, TokenTypeOK
<1> SUFFICES ServerTypeOK'
  BY <1>2, <1>3, TypePartsNext
<1>4. CASE Restart
  BY <1>1, <1>4, AccountsAssumption DEF Restart, ServerTypeOK, accounts
<1>5. ASSUME NEW q \in Requests, NEW s \in SessionIds \cup {NoSession}, Arrive(q, s)
      PROVE  ServerTypeOK'
  <2>1. identifySession(s) \in Session
    BY <1>1, AccountsAssumption DEF identifySession, Session, ServerTypeOK
  <2> QED BY <1>1, <1>5, <2>1 DEF Arrive, ServerTypeOK, accounts
<1>6. ASSUME NEW q \in Requests, Refuse(q) PROVE ServerTypeOK'
  BY <1>1, <1>6 DEF Refuse, Answer, ServerTypeOK, accounts
<1>7. ASSUME NEW q \in Requests, logout(q) PROVE ServerTypeOK'
  <2>1. request[q].session \in SessionIds
    BY <1>7, CallerIsUser DEF logout
  <2>2. Ended \notin UserIds
    BY AccountsAssumption
  <2> QED BY <1>1, <1>7, <2>1, <2>2
          DEF logout, invalidateSessionId, Answer, ServerTypeOK, accounts
<1>8. ASSUME NEW q \in Requests, NEW b \in BOOLEAN, enableEmailVerification(q, b)
      PROVE  ServerTypeOK'
  BY <1>1, <1>8 DEF enableEmailVerification, Answer, ServerTypeOK, accounts
<1>9. ASSUME NEW q \in Requests, NEW u \in UserIds, NEW pswd \in Passwords,
             NEW s \in SessionIds, authenticate(q, u, pswd, s)
      PROVE  ServerTypeOK'
  <2> DEFINE S == invalidateSessionId(request[q].session)
  <2>1. /\ S \in [SessionIds -> UserIds \cup {Unused, Ended}]
        /\ \A t \in SessionIds : S[t] \in UserIds => user[S[t]] # NoObj
    BY <1>1, AccountsAssumption DEF invalidateSessionId, ServerTypeOK
  <2>2. Sessions' = [S EXCEPT ![s] = u] /\ user[u] # NoObj /\ UNCHANGED user
    BY <1>9 DEF authenticate, accounts
  <2> HIDE DEF S
  <2>3. /\ Sessions' \in [SessionIds -> UserIds \cup {Unused, Ended}]
        /\ \A t \in SessionIds : Sessions'[t] \in UserIds => user'[Sessions'[t]] # NoObj
    BY <2>1, <2>2
  <2> QED BY <1>1, <1>9, <2>3 DEF authenticate, Answer, ServerTypeOK
<1> QED BY <1>4, <1>5, <1>6, <1>7, <1>8, <1>9 DEF ServerAction

-----------------------------------------------------------------------------
(***************************************************************************)
(* Every step is one of these.                                             *)
(***************************************************************************)
Creation ==
    \E q \in Requests, u \in UserIds, r \in Realms, n \in Names, a \in Addresses,
       pswd \in Passwords :
          createUser(q, u, n, a, pswd, r) \/ createRealmAnon(q, r, u, n, a, pswd)

LEMMA Steps ==
    ASSUME TypeOK, Next
    PROVE  \/ ServerAction \/ Edited \/ Aborted \/ Granted \/ Creation
           \/ \E q \in Requests, r \in Realms : createRealm(q, r)
           \/ \E q \in Requests, r \in Realms : deactivateRealm(q, r)
           \/ \E q \in Requests, u \in UserIds, r \in Realms : moveUserToRealm(q, u, r)
<1>1. CASE Restart
  BY <1>1 DEF ServerAction
<1>2. ASSUME NEW q \in Requests,
             \/ \E s \in SessionIds \cup {NoSession} : Arrive(q, s)
             \/ Refuse(q)
             \/ logout(q)
             \/ \E enabled \in BOOLEAN : enableEmailVerification(q, enabled)
             \/ \E u \in UserIds, pswd \in Passwords, s \in SessionIds :
                   authenticate(q, u, pswd, s)
      PROVE  ServerAction
  BY <1>2 DEF ServerAction
<1>3. ASSUME NEW q \in Requests,
             \/ \E t \in Tokens : validateAccountVerificationToken(q, t)
             \/ \E u \in UserIds : disableUser(q, u) \/ reenableUser(q, u)
             \/ \E old, new \in Passwords : changePassword(q, old, new)
             \/ \E n \in Names, a \in Addresses \cup {NoAddress} : updateUserInfo(q, n, a)
      PROVE  Edited
  BY <1>3, EditingActions
<1>4. ASSUME NEW q \in Requests,
             \/ \E t \in Tokens : validateAccountVerificationToken_Aborted(q, t)
             \/ \E r \in Realms, u \in UserIds :
                   createUser_Aborted(q, u, r) \/ createRealmAnon_Aborted(q, r, u)
             \/ \E r \in Realms : createRealm_Aborted(q, r)
      PROVE  Aborted
  BY <1>4, AbortedActions
<1>5. ASSUME NEW q \in Requests, NEW r \in Realms, NEW u \in UserIds,
             setPermission(q, r, u) \/ remPermission(q, r, u)
      PROVE  Granted
  BY <1>5, GrantingActions
<1> QED BY <1>1, <1>2, <1>3, <1>4, <1>5 DEF Next, Creation

LEMMA NextType == TypeOK /\ Members /\ [Next]_vars => TypeOK' /\ Members'
<1> SUFFICES ASSUME TypeOK, Members, [Next]_vars PROVE TypeOK' /\ Members'
  OBVIOUS
<1>1. CASE UNCHANGED vars
  BY <1>1 DEF vars, accounts, server, TypeOK, Members, In, Of
<1>2. CASE ServerAction
  <2>1. TypeOK' /\ UNCHANGED <<realm, user>>
    BY <1>2, ServerActionsType DEF accounts
  <2> QED BY <2>1 DEF Members, In, Of
<1>3. CASE Edited
  BY <1>3, EditedType
<1>4. CASE Aborted \/ Granted
  BY <1>4, AbortedOrGrantedType
<1>5. CASE Creation
  BY <1>5, CreateUserType, CreateRealmAnonType DEF Creation
<1>6. CASE \E q \in Requests, r \in Realms : createRealm(q, r)
  BY <1>6, CreateRealmType
<1>7. CASE \E q \in Requests, r \in Realms : deactivateRealm(q, r)
  BY <1>7, DeactivateRealmType
<1>8. CASE \E q \in Requests, u \in UserIds, r \in Realms : moveUserToRealm(q, u, r)
  BY <1>8, MoveUserType
<1> QED BY <1>1, <1>2, <1>3, <1>4, <1>5, <1>6, <1>7, <1>8, Steps

\* Every variable keeps its type; what is stored has its name claimed, and
\* sessions and tokens lead to stored users.
THEOREM TypeCorrect == Spec => []TypeOK
BY InitType, NextType, PTL DEF Spec

\* A user is in the list of the realm that the user names, and of no other.
THEOREM MembershipsAgree == Spec => []MembershipAgrees
<1>1. TypeOK /\ Members => MembershipAgrees
  BY DEF Members, In, Of, MembershipAgrees
<1> QED BY <1>1, InitType, NextType, PTL DEF Spec

-----------------------------------------------------------------------------
(***************************************************************************)
(* Deactivated realms.  Nobody has rights to such a realm, its name stays  *)
(* claimed, and every way into it or back to activity needs one or the     *)
(* other.                                                                  *)
(***************************************************************************)
DeactivatedInv ==
    /\ deactivated \subseteq realmNames
    /\ \A r \in deactivated : owners[r] = {}
    /\ \A u \in UserIds : user[u] # NoObj /\ user[u].RealmId \in deactivated
                             => ~user[u].IsActive

\* What a new record of the user u must be for the rest to stay.
LEMMA DeactivatedKept ==
    ASSUME TypeOK, DeactivatedInv, NEW u \in UserIds, NEW x \in User,
           user' = [user EXCEPT ![u] = x],
           x.RealmId \notin deactivated \/ ~x.IsActive,
           UNCHANGED deactivated, realmNames \subseteq realmNames',
           \A r \in deactivated : owners'[r] = owners[r]
    PROVE  DeactivatedInv'
BY DEF TypeOK, DeactivatedInv

LEMMA NextDeactivated ==
    TypeOK /\ Members /\ DeactivatedInv /\ [Next]_vars => DeactivatedInv'
<1> SUFFICES ASSUME TypeOK, Members, DeactivatedInv, [Next]_vars PROVE DeactivatedInv'
  OBVIOUS
<1>1. CASE UNCHANGED vars \/ ServerAction
  <2>1. UNCHANGED accounts
    BY <1>1, ServerActionsType DEF vars
  <2> QED BY <2>1 DEF accounts, DeactivatedInv
<1>2. CASE Edited
  <2>1. PICK u \in UserIds, x \in User : user[u] # NoObj /\ EditedTo(u, x)
    BY <1>2 DEF Edited
  <2>2. UNCHANGED <<realmNames, realm, owners, deactivated, userNames>>
    BY <1>2 DEF Edited
  <2>3. x.RealmId \in deactivated => ~x.IsActive
    BY <2>1 DEF EditedTo, DeactivatedInv
  <2> QED BY <2>1, <2>2, <2>3, DeactivatedKept DEF EditedTo
<1>3. CASE Aborted
  BY <1>3 DEF Aborted, DeactivatedInv
<1>4. CASE Granted
  <2>1. PICK r \in Realms, o \in SUBSET UserIds :
           owners[r] # {} /\ owners' = [owners EXCEPT ![r] = o]
    BY <1>4 DEF Granted
  <2>2. r \notin deactivated
    BY <2>1 DEF DeactivatedInv
  <2> QED BY <1>4, <2>1, <2>2 DEF Granted, DeactivatedInv, TypeOK
<1>5. ASSUME NEW q \in Requests, NEW u \in UserIds, NEW r \in Realms, NEW n \in Names,
             NEW a \in Addresses, NEW pswd \in Passwords,
             createUser(q, u, n, a, pswd, r) \/ createRealmAnon(q, r, u, n, a, pswd)
      PROVE  DeactivatedInv'
  <2>1. PICK v \in BOOLEAN : user' = [user EXCEPT ![u] = NewInMemUser(n, r, a, v, pswd)]
    BY <1>5 DEF createUser, createRealmAnon
  <2>2. r \notin deactivated
    BY <1>5 DEF createUser, createRealmAnon, authorized, addRealm, DeactivatedInv
  <2>3. /\ UNCHANGED deactivated /\ realmNames \subseteq realmNames'
        /\ \A d \in deactivated : owners'[d] = owners[d]
    BY <1>5, <2>2 DEF createUser, createRealmAnon, addRealm, TypeOK
  <2> DEFINE x == NewInMemUser(n, r, a, v, pswd)
  <2>4. x \in User /\ x.RealmId = r /\ user' = [user EXCEPT ![u] = x]
    BY <2>1, NewUserIsUser
  <2> HIDE DEF x
  <2> QED BY <2>2, <2>3, <2>4, DeactivatedKept
<1>6. ASSUME NEW q \in Requests, NEW r \in Realms, createRealm(q, r) PROVE DeactivatedInv'
  <2>1. r \notin deactivated
    BY <1>6 DEF createRealm, addRealm, DeactivatedInv
  <2> QED BY <1>6, <2>1 DEF createRealm, addRealm, DeactivatedInv, TypeOK
<1>7. ASSUME NEW q \in Requests, NEW r \in Realms, deactivateRealm(q, r)
      PROVE  DeactivatedInv'
  <2>1. /\ deactivated' = deactivated \cup {r} /\ UNCHANGED realmNames
        /\ owners' = [owners EXCEPT ![r] = {}] /\ realm[r] # NoObj
    BY <1>7 DEF deactivateRealm
  <2>2. ASSUME NEW u \in UserIds, user'[u] # NoObj, user'[u].RealmId \in deactivated'
        PROVE  ~user'[u].IsActive
    <3>1. user[u] # NoObj /\ user'[u].RealmId = user[u].RealmId
      BY <1>7, <2>2, DeactivateRealmType
    <3>2. CASE user[u].RealmId = r
      BY <1>7, <3>1, <3>2, DeactivateRealmType DEF Of
    <3>3. CASE user[u].RealmId \in deactivated
      BY <1>7, <3>1, <3>3, DeactivateRealmType DEF DeactivatedInv
    <3> QED BY <2>1, <2>2, <3>1, <3>2, <3>3
  <2> QED BY <2>1, <2>2 DEF DeactivatedInv, TypeOK
<1>8. ASSUME NEW q \in Requests, NEW u \in UserIds, NEW dest \in Realms,
             moveUserToRealm(q, u, dest)
      PROVE  DeactivatedInv'
  <2> DEFINE x == [user[u] EXCEPT !.RealmId = dest]
  <2>1. user[u] \in User /\ dest \notin deactivated /\ user' = [user EXCEPT ![u] = x]
    BY <1>8 DEF moveUserToRealm, authorized, DeactivatedInv, TypeOK
  <2>2. x \in User /\ x.RealmId = dest
    BY <2>1 DEF User
  <2> HIDE DEF x
  <2> QED BY <1>8, <2>1, <2>2, DeactivatedKept DEF moveUserToRealm
<1> QED BY <1>1, <1>2, <1>3, <1>4, <1>5, <1>6, <1>7, <1>8, Steps DEF Creation

\* Once deactivated, a realm has no active user and nobody with rights to
\* it, whatever is created, moved, re-enabled or granted later.
THEOREM DeactivationHolds == Spec => []DeactivatedRealmInactive
<1>1. Init => DeactivatedInv
  BY DEF Init, DeactivatedInv
<1>2. TypeOK /\ DeactivatedInv => DeactivatedRealmInactive
  BY DEF DeactivatedInv, DeactivatedRealmInactive
<1> QED BY <1>1, <1>2, InitType, NextType, NextDeactivated, PTL DEF Spec

-----------------------------------------------------------------------------
(***************************************************************************)
(* E-mail addresses.  A pending token names the address that its user has: *)
(* tokens are made for new users only, whose addresses do not change.      *)
(***************************************************************************)
TokensCurrent ==
    \A t \in Tokens : emailTokens[t] \in Token =>
        user[emailTokens[t].user].EmailAddress = emailTokens[t].address

EmailInv == TokensCurrent /\ EmailProven

\* Users that were there keep their address, flag and tokens.
EmailKept ==
    /\ \A u \in UserIds : user[u] # NoObj =>
          /\ user'[u].EmailAddress = user[u].EmailAddress
          /\ user'[u].EmailIsVerified => user[u].EmailIsVerified
    /\ \A u \in UserIds : user'[u] # NoObj => user[u] # NoObj
    /\ \A t \in Tokens : emailTokens'[t] \in Token => emailTokens'[t] = emailTokens[t]
    /\ proved \subseteq proved'

LEMMA EmailKeptInv ==
    ASSUME TypeOK, EmailInv, EmailKept
    PROVE  EmailInv'
<1>1. TokensCurrent'
  BY DEF TypeOK, EmailInv, TokensCurrent, EmailKept, Token
<1>2. EmailProven'
  BY DEF EmailInv, EmailProven, EmailKept
<1> QED BY <1>1, <1>2 DEF EmailInv

LEMMA CreationEmail ==
    ASSUME TypeOK, EmailInv, NEW u \in UserIds, NEW n \in Names, NEW r \in Realms,
           NEW a \in Addresses, NEW pswd \in Passwords, NEW v \in BOOLEAN,
           addUser(u), EstablishEmail(u, a, v),
           user' = [user EXCEPT ![u] = NewInMemUser(n, r, a, v, pswd)]
    PROVE  EmailInv'
<1> DEFINE x == NewInMemUser(n, r, a, v, pswd)
<1>1. x \in User /\ x.EmailAddress = a /\ x.EmailIsVerified = v
  BY NewUserIsUser
<1> HIDE DEF x
<1>2. user' = [user EXCEPT ![u] = x]
  BY DEF x
<1>3. user[u] = NoObj
  BY <1>1, <1>2, NewUser
<1>4. user'[u] = x /\ \A w \in UserIds : w # u => user'[w] = user[w]
  BY <1>2 DEF TypeOK
<1>5. \A t \in Tokens : emailTokens[t] \in Token =>
         emailTokens[t].user \in UserIds /\ emailTokens[t].user # u
  BY <1>3 DEF TypeOK, Token
<1>6. CASE v
  <2>1. proved' = proved \cup {<<u, a>>} /\ UNCHANGED emailTokens
    BY <1>6 DEF EstablishEmail
  <2>2. TokensCurrent'
    BY <1>4, <1>5, <2>1 DEF EmailInv, TokensCurrent
  <2>3. EmailProven'
    BY <1>1, <1>4, <2>1 DEF EmailInv, EmailProven
  <2> QED BY <2>2, <2>3 DEF EmailInv
<1>7. CASE ~v
  <2>1. PICK t \in Tokens : createEmailToken(t, [user |-> u, address |-> a])
    BY <1>7 DEF EstablishEmail
  <2>2. /\ emailTokens' = [emailTokens EXCEPT ![t] = [user |-> u, address |-> a]]
        /\ UNCHANGED proved
    BY <1>7, <2>1 DEF EstablishEmail, createEmailToken
  <2>3. ASSUME NEW s \in Tokens, emailTokens'[s] \in Token
        PROVE  user'[emailTokens'[s].user].EmailAddress = emailTokens'[s].address
    <3>1. CASE s = t
      <4>1. emailTokens'[s] = [user |-> u, address |-> a]
        BY <2>2, <3>1 DEF TypeOK
      <4> QED BY <1>1, <1>4, <4>1
    <3>2. CASE s # t
      <4>1. emailTokens'[s] = emailTokens[s]
        BY <2>2, <3>2 DEF TypeOK
      <4> QED BY <1>4, <1>5, <2>3, <4>1 DEF EmailInv, TokensCurrent
    <3> QED BY <3>1, <3>2
  <2>4. EmailProven'
    BY <1>1, <1>4, <1>7, <2>2 DEF EmailInv, EmailProven
  <2> QED BY <2>3, <2>4 DEF EmailInv, TokensCurrent
<1> QED BY <1>6, <1>7

LEMMA EditedEmail ==
    ASSUME TypeOK, EmailInv, Edited
    PROVE  EmailInv'
<1>1. PICK u \in UserIds, x \in User : user[u] # NoObj /\ EditedTo(u, x)
  BY DEF Edited
<1>2. /\ user' = [user EXCEPT ![u] = x] /\ x.EmailAddress = user[u].EmailAddress
      /\ x.EmailIsVerified =>
          \/ user[u].EmailIsVerified
          \/ \E t \in Tokens : /\ emailTokens[t] \in Token /\ emailTokens[t].user = u
                               /\ <<u, emailTokens[t].address>> \in proved'
  BY <1>1 DEF EditedTo
<1>3. user'[u] = x /\ \A w \in UserIds : w # u => user'[w] = user[w]
  BY <1>2 DEF TypeOK
<1>4. /\ proved \subseteq proved'
      /\ \A t \in Tokens : emailTokens'[t] \in Token => emailTokens'[t] = emailTokens[t]
  BY AccountsSentinels DEF Edited, TypeOK
<1>5. TokensCurrent'
  BY <1>2, <1>3, <1>4 DEF EmailInv, TokensCurrent, TypeOK, Token
<1>6. ASSUME NEW w \in UserIds, user'[w] # NoObj, user'[w].EmailIsVerified
      PROVE  <<w, user'[w].EmailAddress>> \in proved'
  <2>1. CASE w # u
    BY <1>3, <1>4, <1>6, <2>1 DEF EmailInv, EmailProven
  <2>2. CASE w = u /\ user[u].EmailIsVerified
    BY <1>1, <1>2, <1>3, <1>4, <2>2 DEF EmailInv, EmailProven
  <2>3. CASE w = u /\ \E t \in Tokens :
               /\ emailTokens[t] \in Token /\ emailTokens[t].user = u
               /\ <<u, emailTokens[t].address>> \in proved'
    BY <1>2, <1>3, <2>3 DEF EmailInv, TokensCurrent
  <2> QED BY <1>2, <1>3, <1>6, <2>1, <2>2, <2>3
<1> QED BY <1>5, <1>6 DEF EmailInv, EmailProven

LEMMA NextEmail == TypeOK /\ Members /\ EmailInv /\ [Next]_vars => EmailInv'
<1> SUFFICES ASSUME TypeOK, Members, EmailInv, [Next]_vars PROVE EmailInv'
  OBVIOUS
<1>1. CASE UNCHANGED vars \/ ServerAction
  <2>1. UNCHANGED accounts
    BY <1>1, ServerActionsType DEF vars
  <2> QED BY <2>1 DEF accounts, EmailInv, TokensCurrent, EmailProven
<1>2. CASE Edited
  BY <1>2, EditedEmail
<1>3. CASE Aborted
  <2>1. UNCHANGED <<user, proved>>
        /\ \A t \in Tokens : emailTokens'[t] \in Token => emailTokens'[t] = emailTokens[t]
    BY <1>3, AccountsSentinels DEF Aborted, TypeOK
  <2> QED BY <2>1, EmailKeptInv DEF EmailKept
<1>4. CASE Granted \/ \E q \in Requests, r \in Realms : createRealm(q, r)
  <2>1. UNCHANGED <<user, emailTokens, proved>>
    BY <1>4 DEF Granted, createRealm
  <2> QED BY <2>1, EmailKeptInv DEF EmailKept
<1>5. CASE Creation
  BY <1>5, CreationEmail DEF Creation, createUser, createRealmAnon
<1>6. ASSUME NEW q \in Requests, NEW r \in Realms, deactivateRealm(q, r) PROVE EmailInv'
  <2>1. UNCHANGED <<emailTokens, proved>>
    BY <1>6 DEF deactivateRealm
  <2> QED BY <1>6, <2>1, DeactivateRealmType, EmailKeptInv DEF EmailKept
<1>7. ASSUME NEW q \in Requests, NEW u \in UserIds, NEW dest \in Realms,
             moveUserToRealm(q, u, dest)
      PROVE  EmailInv'
  <2> DEFINE x == [user[u] EXCEPT !.RealmId = dest]
  <2>1. user[u] \in User /\ user[u] # NoObj
    BY <1>7 DEF moveUserToRealm, TypeOK
  <2>2. x.EmailAddress = user[u].EmailAddress /\ x.EmailIsVerified = user[u].EmailIsVerified
    BY <2>1 DEF User
  <2>3. user' = [user EXCEPT ![u] = x] /\ UNCHANGED <<emailTokens, proved>>
    BY <1>7 DEF moveUserToRealm
  <2> HIDE DEF x
  <2>4. user'[u] = x /\ \A w \in UserIds : w # u => user'[w] = user[w]
    BY <2>3 DEF TypeOK
  <2> QED BY <2>1, <2>2, <2>3, <2>4, EmailKeptInv DEF EmailKept
<1> QED BY <1>1, <1>2, <1>3, <1>4, <1>5, <1>6, <1>7, Steps

\* An address is flagged as verified only when its user has proved it.
THEOREM EmailsAreProven == Spec => []EmailProven
<1>1. Init => EmailInv
  BY AccountsSentinels DEF Init, EmailInv, TokensCurrent, EmailProven
<1>2. EmailInv => EmailProven
  BY DEF EmailInv
<1> QED BY <1>1, <1>2, InitType, NextType, NextEmail, PTL DEF Spec

-----------------------------------------------------------------------------
(***************************************************************************)
(* Sessions.  The session that a request has was in the map, so that a new *)
(* log-in, which takes an unused id, does not revive it.                   *)
(***************************************************************************)
SessionInv ==
    /\ \A s \in over : Sessions[s] = Ended
    /\ \A q \in Requests : request[q] # Idle /\ request[q].session \in SessionIds
                              => Sessions[request[q].session] # Unused

LEMMA NextSession == TypeOK /\ SessionInv /\ [Next]_vars => SessionInv'
<1> SUFFICES ASSUME TypeOK, SessionInv, [Next]_vars PROVE SessionInv'
  OBVIOUS
<1>1. CASE UNCHANGED vars
  BY <1>1 DEF vars, server, SessionInv
<1>2. ASSUME NEW q \in Requests,
             request' = [request EXCEPT ![q] = Idle], UNCHANGED <<Sessions, over>>
      PROVE  SessionInv'
  BY <1>2 DEF SessionInv, TypeOK
<1>3. CASE Restart
  BY <1>3, AccountsAssumption DEF Restart, SessionInv, TypeOK
<1>4. ASSUME NEW q \in Requests, NEW s \in SessionIds \cup {NoSession}, Arrive(q, s)
      PROVE  SessionInv'
  <2>1. LET i == identifySession(s)
        IN  i.session \in SessionIds => Sessions[i.session] # Unused
    BY AccountsAssumption DEF identifySession, Anonymous
  <2> QED BY <1>4, <2>1 DEF Arrive, SessionInv, TypeOK
<1>5. ASSUME NEW q \in Requests, logout(q) PROVE SessionInv'
  <2>1. request[q].session \in SessionIds
    BY <1>5, CallerIsUser DEF logout
  <2>2. Sessions' = [Sessions EXCEPT ![request[q].session] = Ended]
        /\ over' = over \cup {request[q].session} /\ Answer(q)
    BY <1>5, <2>1 DEF logout, invalidateSessionId
  <2> QED BY <2>1, <2>2, AccountsAssumption DEF Answer, SessionInv, TypeOK
<1>6. ASSUME NEW q \in Requests, NEW u \in UserIds, NEW pswd \in Passwords,
             NEW s \in SessionIds, authenticate(q, u, pswd, s)
      PROVE  SessionInv'
  <2> DEFINE S == invalidateSessionId(request[q].session)
  <2>1. /\ S \in [SessionIds -> UserIds \cup {Unused, Ended}]
        /\ \A t \in over' : S[t] = Ended
        /\ \A t \in SessionIds : Sessions[t] # Unused => S[t] # Unused
    BY <1>6, AccountsAssumption
       DEF invalidateSessionId, SessionInv, TypeOK, authenticate
  <2>2. /\ Sessions' = [S EXCEPT ![s] = u] /\ Sessions[s] = Unused /\ Answer(q)
        /\ over' = over \cup ({request[q].session} \cap SessionIds) /\ request[q] # Idle
    BY <1>6 DEF authenticate
  <2>3. s \notin over'
    BY <2>2, AccountsAssumption DEF SessionInv
  <2>4. u # Unused
    BY AccountsAssumption
  <2> HIDE DEF S
  <2>5. \A t \in over' : Sessions'[t] = Ended
    BY <2>1, <2>2, <2>3 DEF TypeOK
  <2>6. \A t \in SessionIds : Sessions[t] # Unused => Sessions'[t] # Unused
    BY <2>1, <2>2, <2>4
  <2> QED BY <2>2, <2>5, <2>6 DEF Answer, SessionInv, TypeOK
<1>7. ASSUME NEW q \in Requests, Refuse(q) \/ \E b \in BOOLEAN : enableEmailVerification(q, b)
      PROVE  SessionInv'
  BY <1>2, <1>7 DEF Refuse, enableEmailVerification, Answer
<1>8. CASE Edited \/ Aborted \/ Granted
  <2>1. \E q \in Requests : SessionsKept(q)
    BY <1>8 DEF Edited, Aborted, Granted
  <2> QED BY <1>2, <2>1 DEF SessionsKept, Answer
<1>9. CASE \/ Creation
           \/ \E q \in Requests, r \in Realms : createRealm(q, r)
           \/ \E q \in Requests, r \in Realms : deactivateRealm(q, r)
           \/ \E q \in Requests, u \in UserIds, r \in Realms : moveUserToRealm(q, u, r)
  <2>1. \E q \in Requests : SessionsKept(q)
    BY <1>9 DEF Creation, createUser, createRealmAnon, createRealm, deactivateRealm,
                moveUserToRealm
  <2> QED BY <1>2, <2>1 DEF SessionsKept, Answer
<1> QED BY <1>1, <1>3, <1>4, <1>5, <1>6, <1>7, <1>8, <1>9, Steps DEF ServerAction

\* A session that has been ended identifies no request that arrives later.
THEOREM EndedStaysEnded == Spec => EndedIsFinal
<1> DEFINE A == \A q \in Requests :
                   request[q] = Idle /\ request'[q] # Idle
                       => request'[q].session \notin over
<1>1. Init => SessionInv
  BY DEF Init, SessionInv
<1>2. ASSUME TypeOK, SessionInv, [Next]_vars PROVE [A]_vars
  <2>1. ASSUME NEW p \in Requests, request' = [request EXCEPT ![p] = Idle] PROVE A
    BY <2>1 DEF TypeOK
  <2>2. ASSUME NEW p \in Requests, NEW s \in SessionIds \cup {NoSession}, Arrive(p, s)
        PROVE  A
    <3>1. identifySession(s).session \notin over
      <4>1. CASE s # NoSession /\ Sessions[s] \in UserIds
        <5>1. identifySession(s).session = s
          BY <4>1 DEF identifySession
        <5>2. Sessions[s] # Ended
          BY <4>1, AccountsAssumption
        <5> QED BY <1>2, <5>1, <5>2 DEF SessionInv
      <4>2. CASE ~(s # NoSession /\ Sessions[s] \in UserIds)
        <5>1. identifySession(s).session = NoSession
          BY <4>2 DEF identifySession, Anonymous
        <5> QED BY <1>2, <5>1, AccountsAssumption DEF TypeOK
      <4> QED BY <4>1, <4>2
    <3> QED BY <2>2, <3>1 DEF Arrive, TypeOK
  <2>3. CASE Restart
    BY <2>3 DEF Restart
  <2>4. CASE Edited \/ Aborted \/ Granted
    <3>1. \E q \in Requests : SessionsKept(q)
      BY <2>4 DEF Edited, Aborted, Granted
    <3> QED BY <2>1, <3>1 DEF SessionsKept, Answer
  <2>5. CASE \/ Creation
             \/ \E q \in Requests, r \in Realms : createRealm(q, r)
             \/ \E q \in Requests, r \in Realms : deactivateRealm(q, r)
             \/ \E q \in Requests, u \in UserIds, r \in Realms : moveUserToRealm(q, u, r)
    <3>1. \E q \in Requests : SessionsKept(q)
      BY <2>5 DEF Creation, createUser, createRealmAnon, createRealm, deactivateRealm,
                  moveUserToRealm
    <3> QED BY <2>1, <3>1 DEF SessionsKept, Answer
  <2>6. CASE ServerAction
    BY <2>1, <2>2, <2>3, <2>6
       DEF ServerAction, Refuse, logout, enableEmailVerification, authenticate, Answer
  <2> QED BY <1>2, <2>4, <2>5, <2>6, Steps
<1>3. Spec => [](TypeOK /\ SessionInv)
  BY <1>1, InitType, NextType, NextSession, PTL DEF Spec
<1> QED BY <1>2, <1>3, PTL DEF Spec, EndedIsFinal
=============================================================================
