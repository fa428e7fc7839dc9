------------------------ MODULE AccessControl_proofs ------------------------
(***************************************************************************)
(* Proofs about AccessControl, for any sets of users, groups, resources,   *)
(* entries and masks.                                                      *)
(***************************************************************************)
EXTENDS AccessControl, FiniteSetTheorems, TLAPS

-----------------------------------------------------------------------------
(***************************************************************************)
(* Typing.                                                                 *)
(***************************************************************************)

\* Writing objects of the right type over a function keeps its type.
LEMMA OverlayTyping ==
    ASSUME NEW S, NEW V, NEW f \in [S -> V], NEW w,
           \A x \in (DOMAIN w) \cap S : w[x] \in V
    PROVE  Overlay(f, w) \in [S -> V]
BY DEF Overlay

\* What may be written for a party: users have groups, groups have users.
PartyTyped(p, obj) ==
    /\ obj \in Party
    /\ p \in Users => obj.links \subseteq Groups
    /\ p \in Groups => obj.links \subseteq Users

\* The parts of what a request in progress has read.
LEMMA ViewTyping ==
    ASSUME TypeOK, NEW s \in Requests, req[s] # Idle
    PROVE  /\ req[s] \in [user : Users, view : Database]
           /\ req[s].user \in Users
           /\ req[s].view.entry \in [Entries -> ACLEntry \cup {NoObj}]
           /\ req[s].view.party \in [Parties -> Party \cup {NoObj}]
           /\ req[s].view.resource \in [Resources -> Resource]
           /\ \A p \in Parties : req[s].view.party[p] # NoObj
                                    => PartyTyped(p, req[s].view.party[p])
           /\ \A u \in Users : req[s].view.party[u] # NoObj
<1>1. req[s] \in [user : Users, view : Database]
  BY DEF TypeOK
<1>2. /\ req[s].user \in Users
      /\ req[s].view \in Database
  BY <1>1
<1>3. /\ req[s].view.entry \in [Entries -> ACLEntry \cup {NoObj}]
      /\ req[s].view.party \in [Parties -> Party \cup {NoObj}]
      /\ req[s].view.resource \in [Resources -> Resource]
  BY <1>2 DEF Database
<1>4. WellTyped(req[s].view)
  BY DEF TypeOK
<1>5. \A p \in Parties : req[s].view.party[p] # NoObj
                            => PartyTyped(p, req[s].view.party[p])
  BY <1>3, <1>4 DEF WellTyped, PartyTyped, Parties
<1>6. \A u \in Users : req[s].view.party[u] # NoObj
  BY <1>4 DEF WellTyped
<1> QED BY <1>1, <1>2, <1>3, <1>5, <1>6

\* A commit of well-typed objects keeps the types.
LEMMA CommitTyping ==
    ASSUME TypeOK, NEW s \in Requests, NEW we, NEW wp, NEW wr,
           Commit(s, we, wp, wr),
           \A e \in (DOMAIN we) \cap Entries : we[e] \in ACLEntry \cup {NoObj},
           \A p \in (DOMAIN wp) \cap Parties : PartyTyped(p, wp[p]),
           \A r \in (DOMAIN wr) \cap Resources : wr[r] \in Resource
    PROVE  TypeOK'
<1>1. /\ entry \in [Entries -> ACLEntry \cup {NoObj}]
      /\ party \in [Parties -> Party \cup {NoObj}]
      /\ resource \in [Resources -> Resource]
  BY DEF TypeOK, WellTyped, Database, Stored
<1>2. entry' \in [Entries -> ACLEntry \cup {NoObj}]
  BY <1>1, OverlayTyping DEF Commit
<1>3. resource' \in [Resources -> Resource]
  BY <1>1, OverlayTyping DEF Commit
<1>4. party' \in [Parties -> Party \cup {NoObj}]
  <2>1. \A p \in (DOMAIN wp) \cap Parties : wp[p] \in Party \cup {NoObj}
    BY DEF PartyTyped
  <2> QED BY <2>1, <1>1, OverlayTyping DEF Commit
<1>5. Stored' \in Database
  BY <1>2, <1>3, <1>4 DEF Database, Stored
<1>6. \A p \in Parties : party'[p] # NoObj => PartyTyped(p, party'[p])
  <2> SUFFICES ASSUME NEW p \in Parties, party'[p] # NoObj
               PROVE  PartyTyped(p, party'[p])
    OBVIOUS
  <2>1. party'[p] = IF p \in DOMAIN wp THEN wp[p] ELSE party[p]
    BY <1>1 DEF Commit, Overlay
  <2>2. CASE p \in DOMAIN wp
    BY <2>1, <2>2
  <2>3. CASE p \notin DOMAIN wp
    BY <2>1, <2>3, <1>1 DEF TypeOK, WellTyped, Stored, PartyTyped, Parties
  <2> QED BY <2>2, <2>3
<1>7. \A u \in Users : party'[u] # NoObj
  <2> SUFFICES ASSUME NEW u \in Users PROVE party'[u] # NoObj
    OBVIOUS
  <2>1. party'[u] = IF u \in DOMAIN wp THEN wp[u] ELSE party[u]
    BY <1>1 DEF Commit, Overlay, Parties
  <2>2. u \in DOMAIN wp => wp[u] \in Party
    BY DEF PartyTyped, Parties
  <2>3. party[u] # NoObj
    BY DEF TypeOK, WellTyped, Stored
  <2> QED BY <2>1, <2>2, <2>3, SentinelAssumption
<1>8. WellTyped(Stored)'
  BY <1>5, <1>6, <1>7 DEF WellTyped, PartyTyped, Parties, Stored
<1>9. /\ req' \in [Requests -> [user : Users, view : Database] \cup {Idle}]
      /\ \A t \in Requests : req'[t] # Idle => req'[t] = req[t]
  BY DEF TypeOK, Commit
<1> QED BY <1>8, <1>9 DEF TypeOK, WellTyped, Commit

\* Each handler writes objects of the right types.
LEMMA CreateEntryTyping ==
    ASSUME TypeOK, NEW s \in Requests, req[s] # Idle,
           NEW r \in Resources, NEW p \in Parties, NEW m \in SUBSET Rights,
           req[s].view.party[p] # NoObj,
           dbCreateACLEntry(s, r, p, m)
    PROVE  TypeOK'
<1> DEFINE v == req[s].view
<1>1. PICK e \in NewIds :
        Commit(s, Only(e, [resource |-> r, party |-> p, mask |-> m]),
                  Only(p, [v.party[p] EXCEPT !.acl = @ \cup {e}]),
                  Only(r, [v.resource[r] EXCEPT !.acl = @ \cup {e}]))
  BY DEF dbCreateACLEntry
<1>2. e \in Entries
  BY DEF NewIds
<1>3. [resource |-> r, party |-> p, mask |-> m] \in ACLEntry
  BY DEF ACLEntry
<1>4. PartyTyped(p, v.party[p])
  BY ViewTyping
<1>5. PartyTyped(p, [v.party[p] EXCEPT !.acl = @ \cup {e}])
  BY <1>2, <1>4 DEF PartyTyped, Party
<1>6. [v.resource[r] EXCEPT !.acl = @ \cup {e}] \in Resource
  BY <1>2, ViewTyping DEF Resource
<1> HIDE DEF v
<1>7. \A x \in DOMAIN Only(e, [resource |-> r, party |-> p, mask |-> m]) :
        Only(e, [resource |-> r, party |-> p, mask |-> m])[x] \in ACLEntry
  BY <1>3 DEF Only
<1>8. \A x \in DOMAIN Only(p, [v.party[p] EXCEPT !.acl = @ \cup {e}]) :
        PartyTyped(x, Only(p, [v.party[p] EXCEPT !.acl = @ \cup {e}])[x])
  BY <1>5 DEF Only
<1>9. \A x \in DOMAIN Only(r, [v.resource[r] EXCEPT !.acl = @ \cup {e}]) :
        Only(r, [v.resource[r] EXCEPT !.acl = @ \cup {e}])[x] \in Resource
  BY <1>6 DEF Only
<1> QED BY <1>1, <1>7, <1>8, <1>9, CommitTyping

LEMMA SetMaskTyping ==
    ASSUME TypeOK, NEW s \in Requests, req[s] # Idle,
           NEW e \in Entries, NEW m \in SUBSET Rights,
           req[s].view.entry[e] # NoObj,
           setPermissionMask(s, e, m)
    PROVE  TypeOK'
<1> DEFINE we == Only(e, [req[s].view.entry[e] EXCEPT !.mask = m])
<1>1. Commit(s, we, Nothing, Nothing)
  BY DEF setPermissionMask
<1>2. [req[s].view.entry[e] EXCEPT !.mask = m] \in ACLEntry
  BY ViewTyping DEF ACLEntry
<1>3. \A x \in DOMAIN we : we[x] \in ACLEntry
  BY <1>2 DEF Only
<1>4. DOMAIN Nothing = {}
  BY DEF Nothing
<1> HIDE DEF we
<1> QED BY <1>1, <1>3, <1>4, CommitTyping

LEMMA PermissionTyping ==
    ASSUME TypeOK, NEW s \in Requests,
           NEW r \in Resources, NEW p \in Parties, NEW m \in Masks,
           SetPermission(s, r, p, m) \/ AddPermission(s, r, p, m)
    PROVE  TypeOK'
<1> DEFINE v == req[s].view
<1>1. req[s] # Idle /\ v.party[p] # NoObj
  BY DEF SetPermission, AddPermission, authorizeHandlerAction
<1>2. m \in SUBSET Rights
  BY AccessAssumption
<1>3. \A e \in EntriesFor(v, p, r) : /\ e \in Entries
                                     /\ v.entry[e] # NoObj
                                     /\ v.entry[e].mask \cup m \in SUBSET Rights
  <2> SUFFICES ASSUME NEW e \in EntriesFor(v, p, r)
               PROVE  e \in Entries /\ v.entry[e] # NoObj
                      /\ v.entry[e].mask \cup m \in SUBSET Rights
    OBVIOUS
  <2>1. v.party[p] \in Party
    BY <1>1, ViewTyping DEF PartyTyped
  <2>2. e \in Entries /\ v.entry[e] # NoObj
    BY <2>1 DEF EntriesFor, Party
  <2>3. v.entry[e] \in ACLEntry
    BY <1>1, <2>2, ViewTyping
  <2> QED BY <1>2, <2>2, <2>3 DEF ACLEntry
<1>4. CASE dbCreateACLEntry(s, r, p, m)
  BY <1>1, <1>2, <1>4, CreateEntryTyping
<1>5. CASE \E e \in EntriesFor(v, p, r) : setPermissionMask(s, e, m)
  BY <1>1, <1>2, <1>3, <1>5, SetMaskTyping
<1>6. CASE \E e \in EntriesFor(v, p, r) :
              setPermissionMask(s, e, v.entry[e].mask \cup m)
  BY <1>1, <1>3, <1>6, SetMaskTyping
<1> QED BY <1>4, <1>5, <1>6 DEF SetPermission, AddPermission

LEMMA RemPermissionTyping ==
    ASSUME TypeOK, NEW s \in Requests, NEW r \in Resources, NEW p \in Parties,
           RemPermission(s, r, p)
    PROVE  TypeOK'
<1> DEFINE v == req[s].view
           m == Matches(v, r, p)
           wp == IF m = {} THEN Nothing
                 ELSE Only(p, [v.party[p] EXCEPT !.acl = @ \ m])
<1>1. req[s] # Idle /\ v.party[p] # NoObj
  BY DEF RemPermission, authorizeHandlerAction
<1>2. PICK gone \in Removals(v, r, p) :
        Commit(s, Gone(m), wp, Only(r, [v.resource[r] EXCEPT !.acl = @ \ gone]))
  BY DEF RemPermission
<1>3. \A x \in DOMAIN Gone(m) : Gone(m)[x] = NoObj
  BY DEF Gone
<1>4. PartyTyped(p, v.party[p])
  BY <1>1, ViewTyping
<1>5. PartyTyped(p, [v.party[p] EXCEPT !.acl = @ \ m])
  BY <1>4 DEF PartyTyped, Party
<1>6. [v.resource[r] EXCEPT !.acl = @ \ gone] \in Resource
  BY <1>1, ViewTyping DEF Resource
<1> HIDE DEF m, v
<1>7. \A x \in DOMAIN wp : PartyTyped(x, wp[x])
  BY <1>5 DEF Only, Nothing
<1>8. \A x \in DOMAIN Only(r, [v.resource[r] EXCEPT !.acl = @ \ gone]) :
        Only(r, [v.resource[r] EXCEPT !.acl = @ \ gone])[x] \in Resource
  BY <1>6 DEF Only
<1> HIDE DEF wp
<1> QED BY <1>2, <1>3, <1>7, <1>8, CommitTyping

LEMMA CreateGroupTyping ==
    ASSUME TypeOK, NEW s \in Requests, NEW g \in Groups, NEW addMe \in BOOLEAN,
           CreateGroup(s, g, addMe)
    PROVE  TypeOK'
<1> DEFINE v == req[s].view
           u == req[s].user
           group == [acl |-> {}, links |-> IF addMe THEN {u} ELSE {}]
           wp == [p \in {g} \cup (IF addMe THEN {u} ELSE {}) |->
                    IF p = g THEN group
                    ELSE [v.party[u] EXCEPT !.links = @ \cup {g}]]
           wr == Only(Realm, [v.resource[Realm] EXCEPT !.groups = @ \cup {g}])
<1>1. req[s] # Idle /\ Commit(s, Nothing, wp, wr)
  BY DEF CreateGroup, authorizeHandlerAction
<1>2. u \in Users /\ v.party[u] # NoObj
  BY <1>1, ViewTyping
<1>3. PartyTyped(u, v.party[u])
  BY <1>1, <1>2, ViewTyping DEF Parties
<1>4. u # g
  BY <1>2, AccessAssumption
<1>5. PartyTyped(g, group)
  BY <1>2, AccessAssumption DEF PartyTyped, Party, Parties
<1>6. PartyTyped(u, [v.party[u] EXCEPT !.links = @ \cup {g}])
  BY <1>2, <1>3, AccessAssumption DEF PartyTyped, Party, Parties
<1>7. [v.resource[Realm] EXCEPT !.groups = @ \cup {g}] \in Resource
  BY <1>1, ViewTyping, AccessAssumption DEF Resource
<1>8. \A x \in DOMAIN wr : wr[x] \in Resource
  BY <1>7 DEF Only
<1>9. \A x \in DOMAIN Nothing : FALSE
  BY DEF Nothing
<1> HIDE DEF v, u, group, wr
<1>10. \A x \in DOMAIN wp : PartyTyped(x, wp[x])
  BY <1>4, <1>5, <1>6
<1> HIDE DEF wp
<1> QED BY <1>1, <1>8, <1>9, <1>10, CommitTyping

LEMMA MembershipTyping ==
    ASSUME TypeOK, NEW s \in Requests, NEW g \in Groups, NEW u \in Users,
           AddGroupUser(s, g, u) \/ RemGroupUser(s, g, u)
    PROVE  TypeOK'
<1> DEFINE v == req[s].view
           add == [p \in {g, u} |->
                     [v.party[p] EXCEPT !.links = @ \cup ({g, u} \ {p})]]
           rem == Only(g, [v.party[g] EXCEPT !.links = @ \ {u}])
<1>1. /\ req[s] # Idle /\ v.party[g] # NoObj
      /\ Commit(s, Nothing, add, Nothing) \/ Commit(s, Nothing, rem, Nothing)
  BY DEF AddGroupUser, RemGroupUser, authorizeHandlerAction
<1>2. PartyTyped(g, v.party[g]) /\ PartyTyped(u, v.party[u])
  BY <1>1, ViewTyping DEF Parties
<1>3. g # u /\ g \notin Users /\ u \notin Groups
  BY AccessAssumption
<1>4. PartyTyped(g, [v.party[g] EXCEPT !.links = @ \cup ({g, u} \ {g})])
  BY <1>2, <1>3 DEF PartyTyped, Party, Parties
<1>5. PartyTyped(u, [v.party[u] EXCEPT !.links = @ \cup ({g, u} \ {u})])
  BY <1>2, <1>3 DEF PartyTyped, Party, Parties
<1>6. PartyTyped(g, [v.party[g] EXCEPT !.links = @ \ {u}])
  BY <1>2, <1>3 DEF PartyTyped, Party, Parties
<1>7. \A x \in DOMAIN Nothing : FALSE
  BY DEF Nothing
<1> HIDE DEF v
<1>8. \A x \in DOMAIN add : PartyTyped(x, add[x])
  BY <1>4, <1>5
<1>9. \A x \in DOMAIN rem : PartyTyped(x, rem[x])
  BY <1>6 DEF Only
<1> HIDE DEF add, rem
<1> QED BY <1>1, <1>7, <1>8, <1>9, CommitTyping

LEMMA DeleteGroupTyping ==
    ASSUME TypeOK, NEW s \in Requests, NEW g \in Groups, DeleteGroup(s, g)
    PROVE  TypeOK'
<1> DEFINE v == req[s].view
           touched == {v.entry[e].resource : e \in v.party[g].acl}
           ids == UNION {Matches(v, r, g) : r \in touched}
           wp == Only(g, [acl |-> v.party[g].acl \ ids, links |-> {}])
           wr(gone) == [r \in touched \cup {Realm} |->
                          [acl |-> IF r \in touched THEN v.resource[r].acl \ gone[r]
                                                    ELSE v.resource[r].acl,
                           groups |-> IF r = Realm THEN v.resource[r].groups \ {g}
                                                   ELSE v.resource[r].groups]]
<1>1. req[s] # Idle /\ v.party[g] # NoObj
  BY DEF DeleteGroup, authorizeHandlerAction
<1>2. PICK gone \in [touched -> SUBSET Entries] : Commit(s, Gone(ids), wp, wr(gone))
  BY DEF DeleteGroup
<1>3. PartyTyped(g, v.party[g])
  BY <1>1, ViewTyping DEF Parties
<1>4. PartyTyped(g, [acl |-> v.party[g].acl \ ids, links |-> {}])
  BY <1>3 DEF PartyTyped, Party
<1>5. v.resource \in [Resources -> Resource]
  BY <1>1, ViewTyping
<1>6. \A x \in DOMAIN Gone(ids) : Gone(ids)[x] = NoObj
  BY DEF Gone
<1> HIDE DEF ids, touched, v
<1>7. \A x \in DOMAIN wp : PartyTyped(x, wp[x])
  BY <1>4 DEF Only
<1>8. \A x \in (DOMAIN wr(gone)) \cap Resources : wr(gone)[x] \in Resource
  BY <1>5 DEF Resource
<1> HIDE DEF wp, wr
<1> QED BY <1>2, <1>6, <1>7, <1>8, CommitTyping

LEMMA DeactivateTyping ==
    ASSUME TypeOK, NEW s \in Requests, DeactivateRealm(s)
    PROVE  TypeOK'
<1> DEFINE v == req[s].view
           ids == UNION {v.resource[r].acl : r \in Resources}
           owners == {v.entry[e].party : e \in ids}
           wp == [p \in Users \cup v.resource[Realm].groups \cup owners |->
                    [v.party[p] EXCEPT !.acl = @ \ ids]]
           wr == [r \in Resources |-> [v.resource[r] EXCEPT !.acl = {}]]
<1>1. /\ req[s] # Idle
      /\ \A p \in Users \cup v.resource[Realm].groups \cup owners :
            v.party[p] # NoObj
      /\ Commit(s, Gone(ids), wp, wr)
  BY DEF DeactivateRealm, authorizeHandlerAction
<1>2. \A p \in Parties : v.party[p] # NoObj => PartyTyped(p, v.party[p])
  BY <1>1, ViewTyping
<1>3. v.resource \in [Resources -> Resource]
  BY <1>1, ViewTyping
<1>4. \A x \in DOMAIN Gone(ids) : Gone(ids)[x] = NoObj
  BY DEF Gone
<1> HIDE DEF ids, owners, v
<1>5. \A x \in DOMAIN wr : wr[x] \in Resource
  BY <1>3 DEF Resource
<1>6. \A x \in (DOMAIN wp) \cap Parties : PartyTyped(x, wp[x])
  BY <1>1, <1>2 DEF PartyTyped, Party
<1> HIDE DEF wp, wr
<1> QED BY <1>1, <1>4, <1>5, <1>6, CommitTyping

LEMMA InitTypeOK == Init => TypeOK
<1> SUFFICES ASSUME Init PROVE TypeOK
  OBVIOUS
<1>1. PICK first \in [Resources -> Entries] :
         /\ entry = [e \in Entries |->
                       IF \E r \in Resources : first[r] = e
                       THEN [resource |-> CHOOSE r \in Resources : first[r] = e,
                             party |-> Admin, mask |-> Rights]
                       ELSE NoObj]
         /\ party = [p \in Parties |->
                       IF p \in Groups THEN NoObj
                       ELSE [acl |-> IF p = Admin
                                     THEN {first[r] : r \in Resources} ELSE {},
                             links |-> {}]]
         /\ resource = [r \in Resources |-> [acl |-> {first[r]}, groups |-> {}]]
  BY DEF Init
<1>2. entry \in [Entries -> ACLEntry \cup {NoObj}]
  <2>1. \A e \in Entries : (\E r \in Resources : first[r] = e)
           => (CHOOSE r \in Resources : first[r] = e) \in Resources
    OBVIOUS
  <2>2. Admin \in Parties
    BY AccessAssumption DEF Parties
  <2>3. \A r \in Resources :
           [resource |-> r, party |-> Admin, mask |-> Rights] \in ACLEntry
    BY <2>2 DEF ACLEntry
  <2> QED BY <1>1, <2>1, <2>3
<1>3. \A p \in Parties : p \notin Groups => party[p] \in Party /\ party[p].links = {}
  BY <1>1 DEF Party
<1>4. \A p \in Groups : party[p] = NoObj
  BY <1>1 DEF Parties
<1>5. party \in [Parties -> Party \cup {NoObj}]
  BY <1>1, <1>3, <1>4
<1>6. resource \in [Resources -> Resource]
  BY <1>1 DEF Resource
<1>7. \A u \in Users : party[u] # NoObj /\ party[u].links \subseteq Groups
  BY <1>3, AccessAssumption, SentinelAssumption DEF Parties
<1>8. WellTyped(Stored)
  BY <1>2, <1>4, <1>5, <1>6, <1>7 DEF WellTyped, Stored, Database
<1>9. req = [s \in Requests |-> Idle]
  BY DEF Init
<1> QED BY <1>8, <1>9 DEF TypeOK

LEMMA BeginTyping ==
    ASSUME TypeOK, NEW s \in Requests,
           (\E u \in Users : Begin(s, u)) \/ Abandon(s)
    PROVE  TypeOK'
<1>1. Stored' = Stored
  BY DEF Begin, Abandon, Stored
<1>2. Stored \in Database /\ WellTyped(Stored)
  BY DEF TypeOK, WellTyped
<1>3. PICK u \in Users : req' = [req EXCEPT ![s] = [user |-> u, view |-> Stored]]
                         \/ req' = [req EXCEPT ![s] = Idle]
  BY AccessAssumption DEF Begin, Abandon
<1>4. \A t \in Requests : \/ req'[t] = req[t]
                          \/ req'[t] = Idle
                          \/ req'[t] = [user |-> u, view |-> Stored]
  BY <1>3 DEF TypeOK
<1>5. [user |-> u, view |-> Stored] \in [user : Users, view : Database]
  BY <1>2
<1>6. req' \in [Requests -> [user : Users, view : Database] \cup {Idle}]
  BY <1>3, <1>5 DEF TypeOK
<1>7. \A t \in Requests : req'[t] # Idle => WellTyped(req'[t].view)
  <2> SUFFICES ASSUME NEW t \in Requests, req'[t] # Idle
               PROVE  WellTyped(req'[t].view)
    OBVIOUS
  <2>1. CASE req'[t] = req[t]
    BY <2>1 DEF TypeOK
  <2>2. CASE req'[t] = [user |-> u, view |-> Stored]
    BY <1>2, <2>2
  <2> QED BY <1>4, <2>1, <2>2
<1>8. WellTyped(Stored)'
  <2>1. WellTyped(Stored')
    BY <1>1, <1>2
  <2> QED BY <2>1 DEF WellTyped
<1> QED BY <1>6, <1>7, <1>8 DEF TypeOK, WellTyped

LEMMA NextTypeOK == TypeOK /\ [Next]_vars => TypeOK'
<1> SUFFICES ASSUME TypeOK, [Next]_vars PROVE TypeOK'
  OBVIOUS
<1>1. CASE UNCHANGED vars
  BY <1>1 DEF vars, TypeOK, WellTyped, Stored
<1>2. ASSUME NEW s \in Requests, Step(s) PROVE TypeOK'
  <2>1. CASE (\E u \in Users : Begin(s, u)) \/ Abandon(s)
    BY <2>1, BeginTyping
  <2>2. CASE \E r \in Resources, p \in Parties, m \in Masks :
                SetPermission(s, r, p, m) \/ AddPermission(s, r, p, m)
    BY <2>2, PermissionTyping
  <2>3. CASE \E r \in Resources, p \in Parties : RemPermission(s, r, p)
    BY <2>3, RemPermissionTyping
  <2>4. CASE \E g \in Groups, addMe \in BOOLEAN : CreateGroup(s, g, addMe)
    BY <2>4, CreateGroupTyping
  <2>5. CASE \E g \in Groups : DeleteGroup(s, g)
    BY <2>5, DeleteGroupTyping
  <2>6. CASE \E g \in Groups, u \in Users :
                AddGroupUser(s, g, u) \/ RemGroupUser(s, g, u)
    BY <2>6, MembershipTyping
  <2>7. CASE DeactivateRealm(s)
    BY <2>7, DeactivateTyping
  <2> QED BY <1>2, <2>1, <2>2, <2>3, <2>4, <2>5, <2>6, <2>7 DEF Step
<1> QED BY <1>1, <1>2 DEF Next

\* Every stored object, and every object a request has read, is well formed,
\* however requests overlap: users, groups and realms keep their kinds.
THEOREM TypeCorrect == Spec => []TypeOK
BY InitTypeOK, NextTypeOK, PTL DEF Spec

-----------------------------------------------------------------------------
(***************************************************************************)
(* Requests that follow one another: each finds stored what it has read.   *)
(***************************************************************************)
OneAtATime == \A s, t \in Requests : s = t

ViewInv == \A s \in Requests : req[s] # Idle => req[s].view = Stored

AclInv == TypeOK /\ ViewInv /\ AclAgrees /\ OneEntryPerPair

PairEntries(p, r) ==
    {e \in Entries : entry[e] # NoObj /\ entry[e].resource = r /\ entry[e].party = p}
PartyEntries(p) == {e \in Entries : entry[e] # NoObj /\ entry[e].party = p}

\* A step that deletes the entries ids and nothing else of the lists; it may
\* bring a party into being, without any entry.
Removal(ids) ==
    /\ \A e \in Entries : entry'[e] = IF e \in ids THEN NoObj ELSE entry[e]
    /\ \A r \in Resources : resource'[r].acl = resource[r].acl \ ids
    /\ \A p \in Parties : party[p] # NoObj =>
          party'[p] # NoObj /\ party'[p].acl = party[p].acl \ ids
    /\ \A p \in Parties : party[p] = NoObj /\ party'[p] # NoObj => party'[p].acl = {}

LEMMA SerialView ==
    ASSUME ViewInv, NEW s \in Requests, req[s] # Idle
    PROVE  /\ req[s].view.entry = entry
           /\ req[s].view.party = party
           /\ req[s].view.resource = resource
BY DEF ViewInv, Stored

\* What is stored after a commit.
LEMMA CommitReads ==
    ASSUME TypeOK, NEW s \in Requests, NEW we, NEW wp, NEW wr, Commit(s, we, wp, wr)
    PROVE  /\ \A e \in Entries : entry'[e] = IF e \in DOMAIN we THEN we[e] ELSE entry[e]
           /\ \A p \in Parties : party'[p] = IF p \in DOMAIN wp THEN wp[p] ELSE party[p]
           /\ \A r \in Resources :
                 resource'[r] = IF r \in DOMAIN wr THEN wr[r] ELSE resource[r]
BY DEF TypeOK, WellTyped, Stored, Database, Commit, Overlay

\* The types of what is stored, variable by variable.
LEMMA StoredTyping ==
    ASSUME TypeOK
    PROVE  /\ entry \in [Entries -> ACLEntry \cup {NoObj}]
           /\ party \in [Parties -> Party \cup {NoObj}]
           /\ resource \in [Resources -> Resource]
BY DEF TypeOK, WellTyped, Stored, Database

LEMMA RemovalKeepsAcl ==
    ASSUME TypeOK, AclAgrees, OneEntryPerPair, NEW ids, Removal(ids)
    PROVE  AclAgrees' /\ OneEntryPerPair'
<1>1. OneEntryPerPair'
  BY DEF OneEntryPerPair, Removal
<1>2. \A r \in Resources :
        resource'[r].acl = {e \in Entries : entry'[e] # NoObj /\ entry'[e].resource = r}
  BY DEF AclAgrees, Removal
<1>3. ASSUME NEW p \in Parties, party'[p] # NoObj
      PROVE  party'[p].acl = {e \in Entries : entry'[e] # NoObj /\ entry'[e].party = p}
  <2>1. CASE party[p] # NoObj
    BY <2>1 DEF AclAgrees, Removal
  <2>2. CASE party[p] = NoObj
    <3>1. \A e \in Entries : entry[e] # NoObj => entry[e].party # p
      BY <2>2 DEF AclAgrees
    <3>2. party'[p].acl = {}
      BY <1>3, <2>2 DEF Removal
    <3> QED BY <3>1, <3>2 DEF Removal
  <2> QED BY <2>1, <2>2
<1>4. ASSUME NEW e \in Entries, entry'[e] # NoObj
      PROVE  party'[entry'[e].party] # NoObj
  <2>1. entry'[e] = entry[e]
    BY <1>4 DEF Removal
  <2>2. entry[e].party \in Parties
    BY <1>4, <2>1, StoredTyping DEF ACLEntry
  <2> QED BY <1>4, <2>1, <2>2 DEF AclAgrees, Removal
<1> QED BY <1>1, <1>2, <1>3, <1>4 DEF AclAgrees

\* With one entry for a pair, deleteAccess removes exactly what it matches.
LEMMA ExactMatches ==
    ASSUME AclInv, NEW s \in Requests, req[s] # Idle,
           NEW r \in Resources, NEW p \in Parties
    PROVE  /\ Matches(req[s].view, r, p) = PairEntries(p, r)
           /\ Removals(req[s].view, r, p) = {PairEntries(p, r)}
<1>1. Matches(req[s].view, r, p) = PairEntries(p, r)
  BY SerialView DEF AclInv, AclAgrees, Matches, PairEntries
<1>2. \A a, b \in PairEntries(p, r) : a = b
  BY DEF AclInv, OneEntryPerPair, PairEntries
<1> QED BY <1>1, <1>2 DEF Removals

LEMMA RemPermissionRemoves ==
    ASSUME AclInv, NEW s \in Requests, NEW r \in Resources, NEW p \in Parties,
           RemPermission(s, r, p)
    PROVE  Removal(PairEntries(p, r))
<1> DEFINE m  == PairEntries(p, r)
           wp == IF m = {} THEN Nothing ELSE Only(p, [party[p] EXCEPT !.acl = @ \ m])
           wr == Only(r, [resource[r] EXCEPT !.acl = @ \ m])
<1>1. req[s] # Idle
  BY DEF RemPermission, authorizeHandlerAction
<1>2. party[p] # NoObj /\ Commit(s, Gone(m), wp, wr)
  <2> DEFINE v == req[s].view
             mv == Matches(v, r, p)
  <2>1. PICK gone \in Removals(v, r, p) :
          /\ v.party[p] # NoObj
          /\ Commit(s, Gone(mv), IF mv = {} THEN Nothing
                                 ELSE Only(p, [v.party[p] EXCEPT !.acl = @ \ mv]),
                    Only(r, [v.resource[r] EXCEPT !.acl = @ \ gone]))
    BY DEF RemPermission
  <2>2. mv = m /\ gone = m
    BY <1>1, <2>1, ExactMatches
  <2>3. v.party = party /\ v.resource = resource
    BY <1>1, SerialView DEF AclInv
  <2> HIDE DEF v, mv, m
  <2> QED BY <2>1, <2>2, <2>3
<1>3. /\ \A e \in Entries : entry'[e] = IF e \in m THEN NoObj ELSE entry[e]
      /\ \A q \in Parties : party'[q] = IF q \in DOMAIN wp THEN wp[q] ELSE party[q]
      /\ \A t \in Resources : resource'[t] = IF t \in DOMAIN wr THEN wr[t] ELSE resource[t]
  <2>1. DOMAIN Gone(m) = m /\ \A e \in m : Gone(m)[e] = NoObj
    BY DEF Gone
  <2> HIDE DEF m, wp, wr
  <2> QED BY <1>2, <2>1, CommitReads DEF AclInv
<1>4. \A q \in Parties : party[q] # NoObj =>
         party[q].acl = PartyEntries(q)
  BY DEF AclInv, AclAgrees, PartyEntries
<1>5. \A q \in Parties : q # p => PartyEntries(q) \cap m = {}
  BY DEF PartyEntries, PairEntries
<1>6. \A t \in Resources : t # r => resource[t].acl \cap m = {}
  BY DEF AclInv, AclAgrees, PairEntries
<1>7. \A t \in Resources : resource'[t].acl = resource[t].acl \ m
  <2>1. resource[r] \in Resource
    BY StoredTyping DEF AclInv
  <2>2. resource'[r].acl = resource[r].acl \ m
    BY <1>3, <2>1 DEF Only, Resource
  <2>3. \A t \in Resources : t # r => resource'[t] = resource[t]
    BY <1>3 DEF Only
  <2> HIDE DEF m, wr, wp
  <2> QED BY <1>6, <2>2, <2>3
<1>8. ASSUME NEW q \in Parties, party[q] # NoObj
      PROVE  party'[q] # NoObj /\ party'[q].acl = party[q].acl \ m
  <2>1. CASE m = {}
    BY <1>3, <1>8, <2>1 DEF Nothing
  <2>2. CASE m # {} /\ q # p
    <3>1. party'[q] = party[q]
      BY <1>3, <2>2 DEF Only
    <3> QED BY <1>4, <1>5, <1>8, <2>2, <3>1
  <2>3. CASE m # {} /\ q = p
    <3>1. party'[p] = [party[p] EXCEPT !.acl = @ \ m]
      BY <1>3, <2>3 DEF Only
    <3>2. party[p] \in Party
      BY <1>2, StoredTyping DEF AclInv
    <3>3. [party[p] EXCEPT !.acl = @ \ m] \in Party
      BY <3>2 DEF Party
    <3>4. party'[p].acl = party[p].acl \ m
      BY <3>1, <3>2 DEF Party
    <3> QED BY <2>3, <3>1, <3>3, <3>4, SentinelAssumption
  <2> QED BY <2>1, <2>2, <2>3
<1>9. \A q \in Parties : party[q] = NoObj => party'[q] = NoObj
  BY <1>2, <1>3 DEF Only, Nothing
<1> HIDE DEF m, wp, wr
<1> QED BY <1>3, <1>7, <1>8, <1>9 DEF Removal, m

LEMMA DeleteGroupRemoves ==
    ASSUME AclInv, NEW s \in Requests, NEW g \in Groups, DeleteGroup(s, g)
    PROVE  Removal(PartyEntries(g))
<1> DEFINE m == PartyEntries(g)
           touched == {entry[e].resource : e \in party[g].acl}
           wp == Only(g, [acl |-> party[g].acl \ m, links |-> {}])
           wr(gone) == [r \in touched \cup {Realm} |->
                          [acl |-> IF r \in touched THEN resource[r].acl \ gone[r]
                                                    ELSE resource[r].acl,
                           groups |-> IF r = Realm THEN resource[r].groups \ {g}
                                                   ELSE resource[r].groups]]
<1>1. req[s] # Idle
  BY DEF DeleteGroup, authorizeHandlerAction
<1>2. g \in Parties /\ party[g] # NoObj
  BY <1>1, SerialView DEF DeleteGroup, AclInv, Parties
<1>3. party[g].acl = m
  BY <1>2 DEF AclInv, AclAgrees, PartyEntries
<1>4. touched \subseteq Resources
  BY <1>3, StoredTyping DEF AclInv, PartyEntries, ACLEntry
<1>5. \A r \in touched : /\ Matches(req[s].view, r, g) = PairEntries(g, r)
                         /\ Removals(req[s].view, r, g) = {PairEntries(g, r)}
  BY <1>1, <1>2, <1>4, ExactMatches
<1>6. UNION {PairEntries(g, r) : r \in touched} = m
  BY <1>3 DEF PairEntries, PartyEntries
<1>7. PICK gone \in [touched -> SUBSET Entries] :
         /\ \A r \in touched : gone[r] = PairEntries(g, r)
         /\ Commit(s, Gone(m), wp, wr(gone))
  <2> DEFINE v == req[s].view
             vtouched == {v.entry[e].resource : e \in v.party[g].acl}
             ids == UNION {Matches(v, r, g) : r \in vtouched}
  <2>1. PICK gone \in [vtouched -> SUBSET Entries] :
          /\ \A r \in vtouched : gone[r] \in Removals(v, r, g)
          /\ Commit(s, Gone(ids),
               Only(g, [acl |-> v.party[g].acl \ ids, links |-> {}]),
               [r \in vtouched \cup {Realm} |->
                  [acl |-> IF r \in vtouched THEN v.resource[r].acl \ gone[r]
                                             ELSE v.resource[r].acl,
                   groups |-> IF r = Realm THEN v.resource[r].groups \ {g}
                                           ELSE v.resource[r].groups]])
    BY DEF DeleteGroup
  <2>2. v.entry = entry /\ v.party = party /\ v.resource = resource
    BY <1>1, SerialView DEF AclInv
  <2>3. vtouched = touched
    BY <2>2
  <2>4. ids = m
    BY <1>5, <1>6, <2>3
  <2>5. \A r \in touched : gone[r] = PairEntries(g, r)
    BY <1>5, <2>1, <2>3
  <2> HIDE DEF vtouched, ids, v, m, touched
  <2>6. Commit(s, Gone(m), wp, wr(gone))
    BY <2>1, <2>2, <2>3, <2>4
  <2> QED BY <2>1, <2>3, <2>5, <2>6
<1>8. /\ \A e \in Entries : entry'[e] = IF e \in m THEN NoObj ELSE entry[e]
      /\ \A q \in Parties : party'[q] = IF q = g THEN [acl |-> {}, links |-> {}]
                                                 ELSE party[q]
      /\ \A r \in Resources :
            resource'[r] = IF r \in touched \cup {Realm} THEN wr(gone)[r] ELSE resource[r]
  <2>1. DOMAIN Gone(m) = m /\ \A e \in m : Gone(m)[e] = NoObj
    BY DEF Gone
  <2>2. DOMAIN wp = {g} /\ wp[g] = [acl |-> {}, links |-> {}]
    BY <1>3 DEF Only
  <2>3. DOMAIN wr(gone) = touched \cup {Realm}
    OBVIOUS
  <2> HIDE DEF m, wp, wr, touched
  <2>4. /\ \A e \in Entries : entry'[e] = IF e \in m THEN Gone(m)[e] ELSE entry[e]
        /\ \A q \in Parties : party'[q] = IF q \in {g} THEN wp[q] ELSE party[q]
        /\ \A r \in Resources :
              resource'[r] = IF r \in touched \cup {Realm} THEN wr(gone)[r] ELSE resource[r]
    BY <1>7, <2>1, <2>2, <2>3, CommitReads DEF AclInv
  <2> QED BY <2>1, <2>2, <2>4
<1>9. ASSUME NEW r \in Resources PROVE resource'[r].acl = resource[r].acl \ m
  <2>1. resource[r].acl = {e \in Entries : entry[e] # NoObj /\ entry[e].resource = r}
    BY DEF AclInv, AclAgrees
  <2>2. CASE r \in touched
    <3>1. resource'[r].acl = resource[r].acl \ PairEntries(g, r)
      BY <1>7, <1>8, <2>2
    <3>2. resource[r].acl \cap m = PairEntries(g, r)
      BY <2>1 DEF PairEntries, PartyEntries
    <3> HIDE DEF m
    <3> QED BY <3>1, <3>2
  <2>3. CASE r \notin touched
    <3>1. resource'[r].acl = resource[r].acl
      <4> HIDE DEF touched
      <4>1. CASE r = Realm
        <5>1. r \in touched \cup {Realm}
          BY <4>1
        <5>2. wr(gone)[r].acl = resource[r].acl
          BY <2>3, <5>1
        <5> HIDE DEF wr
        <5> QED BY <1>8, <5>1, <5>2
      <4>2. CASE r # Realm
        <5> HIDE DEF wr
        <5> QED BY <1>8, <2>3, <4>2
      <4> QED BY <4>1, <4>2
    <3>2. resource[r].acl \cap m = {}
      BY <1>3, <2>1, <2>3 DEF PartyEntries
    <3> HIDE DEF m
    <3> QED BY <3>1, <3>2
  <2> QED BY <2>2, <2>3
<1>10. ASSUME NEW q \in Parties, party[q] # NoObj
       PROVE  party'[q] # NoObj /\ party'[q].acl = party[q].acl \ m
  <2>1. CASE q = g
    <3>1. party'[q] = [acl |-> {}, links |-> {}]
      BY <1>8, <2>1
    <3>2. [acl |-> {}, links |-> {}] \in Party
      BY DEF Party
    <3>3. party'[q] # NoObj
      BY <3>1, <3>2, SentinelAssumption
    <3>4. party'[q].acl = {} /\ party[q].acl = m
      BY <1>3, <2>1, <3>1
    <3> HIDE DEF m
    <3> QED BY <3>3, <3>4
  <2>2. CASE q # g
    <3>1. party'[q] = party[q]
      BY <1>8, <2>2
    <3>2. party[q].acl = PartyEntries(q)
      BY <1>10 DEF AclInv, AclAgrees, PartyEntries
    <3>3. PartyEntries(q) \cap m = {}
      BY <2>2 DEF PartyEntries
    <3> HIDE DEF m
    <3> QED BY <1>10, <3>1, <3>2, <3>3
  <2> QED BY <2>1, <2>2
<1>11. \A q \in Parties : party[q] = NoObj => party'[q] = NoObj
  BY <1>2, <1>8
<1> HIDE DEF m, touched, wp, wr
<1> QED BY <1>8, <1>9, <1>10, <1>11 DEF Removal, m

LEMMA DeactivateRemoves ==
    ASSUME AclInv, NEW s \in Requests, DeactivateRealm(s)
    PROVE  Removal(Entries)
<1> DEFINE v == req[s].view
           ids == UNION {v.resource[r].acl : r \in Resources}
           parties == Users \cup v.resource[Realm].groups
                      \cup {v.entry[e].party : e \in ids}
           wp == [p \in parties |-> [v.party[p] EXCEPT !.acl = @ \ ids]]
           wr == [r \in Resources |-> [v.resource[r] EXCEPT !.acl = {}]]
<1>1. /\ req[s] # Idle
      /\ \A p \in parties : v.party[p] # NoObj
      /\ Commit(s, Gone(ids), wp, wr)
  BY DEF DeactivateRealm, authorizeHandlerAction
<1>2. v.entry = entry /\ v.party = party /\ v.resource = resource
  BY <1>1, SerialView DEF AclInv
<1>3. \A e \in Entries : e \in ids <=> entry[e] # NoObj
  <2>1. \A e \in Entries : entry[e] # NoObj => entry[e].resource \in Resources
    BY StoredTyping DEF AclInv, ACLEntry
  <2> QED BY <1>2, <2>1 DEF AclInv, AclAgrees
<1>4. \A p \in Parties : party[p] # NoObj =>
         party[p].acl = {e \in Entries : entry[e] # NoObj /\ entry[e].party = p}
  BY DEF AclInv, AclAgrees
<1>5. DOMAIN Gone(ids) = ids /\ \A e \in ids : Gone(ids)[e] = NoObj
  BY DEF Gone
<1>6. \A p \in Parties : party[p] # NoObj => party[p] \in Party
  BY StoredTyping DEF AclInv
<1>7. \A r \in Resources : resource[r] \in Resource
  BY StoredTyping DEF AclInv
<1>8. /\ \A e \in Entries : entry'[e] = NoObj
      /\ \A p \in Parties : party'[p] = IF p \in parties THEN wp[p] ELSE party[p]
      /\ \A r \in Resources : resource'[r] = wr[r]
  <2>1. DOMAIN wp = parties /\ DOMAIN wr = Resources
    OBVIOUS
  <2> HIDE DEF ids, wp, wr, parties
  <2> QED BY <1>1, <1>3, <1>5, <2>1, CommitReads DEF AclInv
<1>9. \A r \in Resources : resource'[r].acl = {}
  BY <1>2, <1>7, <1>8 DEF Resource
<1>10. ASSUME NEW p \in Parties, party[p] # NoObj
       PROVE  party'[p] # NoObj /\ party'[p].acl = {}
  <2>1. party[p].acl \subseteq ids
    BY <1>3, <1>4, <1>10
  <2>2. CASE p \in parties
    <3>1. party'[p] = [party[p] EXCEPT !.acl = @ \ ids]
      BY <1>2, <1>8, <2>2
    <3> HIDE DEF ids
    <3>2. party'[p] \in Party /\ party'[p].acl = {}
      BY <1>6, <1>10, <2>1, <3>1 DEF Party
    <3> QED BY <3>2, SentinelAssumption
  <2>3. CASE p \notin parties
    <3>1. party'[p] = party[p]
      BY <1>8, <2>3
    <3>2. \A e \in party[p].acl : entry[e].party = p
      BY <1>4, <1>10
    <3>3. \A e \in ids : entry[e].party \in parties
      BY <1>2
    <3> HIDE DEF ids, parties
    <3>4. party[p].acl = {}
      BY <2>1, <2>3, <3>2, <3>3
    <3> QED BY <1>10, <3>1, <3>4
  <2> QED BY <2>2, <2>3
<1>11. ASSUME NEW p \in Parties, party[p] = NoObj PROVE party'[p] = NoObj
  <2>1. p \notin parties
    BY <1>1, <1>2, <1>11
  <2> HIDE DEF parties, wp
  <2> QED BY <1>8, <1>11, <2>1
<1>12. \A p \in Parties : party[p] # NoObj => party[p].acl \ Entries = {}
  BY <1>6 DEF Party
<1>13. \A r \in Resources : resource[r].acl \ Entries = {}
  BY <1>7 DEF Resource
<1> HIDE DEF ids, parties, wp, wr, v
<1> QED BY <1>8, <1>9, <1>10, <1>11, <1>12, <1>13 DEF Removal

\* Creating a group and changing its members leaves all entries alone.
LEMMA CreateGroupRemovesNothing ==
    ASSUME AclInv, NEW s \in Requests, NEW g \in Groups, NEW addMe \in BOOLEAN,
           CreateGroup(s, g, addMe)
    PROVE  Removal({})
<1> DEFINE v == req[s].view
           u == req[s].user
           group == [acl |-> {}, links |-> IF addMe THEN {u} ELSE {}]
           new == {g} \cup (IF addMe THEN {u} ELSE {})
           wp == [p \in new |-> IF p = g THEN group
                                ELSE [v.party[u] EXCEPT !.links = @ \cup {g}]]
           wr == Only(Realm, [v.resource[Realm] EXCEPT !.groups = @ \cup {g}])
<1>1. req[s] # Idle /\ Commit(s, Nothing, wp, wr) /\ party[g] = NoObj
  BY DEF CreateGroup, authorizeHandlerAction
<1>2. v.party = party /\ v.resource = resource
  BY <1>1, SerialView DEF AclInv
<1>3. u \in Users /\ party[u] # NoObj /\ party[u] \in Party
  BY <1>1, <1>2, ViewTyping, StoredTyping DEF AclInv, Parties
<1>4. \A r \in Resources : resource[r] \in Resource
  BY StoredTyping DEF AclInv
<1>5. group \in Party
  BY <1>3 DEF Party, Parties
<1>6. DOMAIN Nothing = {} /\ DOMAIN wp = new
  BY DEF Nothing
<1> HIDE DEF group, new, v, u
<1>7. /\ \A e \in Entries : entry'[e] = entry[e]
      /\ \A p \in Parties : party'[p] = IF p \in new THEN wp[p] ELSE party[p]
      /\ \A r \in Resources : resource'[r] = IF r \in DOMAIN wr THEN wr[r] ELSE resource[r]
  <2> HIDE DEF wp, wr
  <2> QED BY <1>1, <1>6, CommitReads DEF AclInv
<1>8. \A r \in Resources : resource'[r].acl = resource[r].acl
  BY <1>2, <1>4, <1>7 DEF Only, Resource
<1>9. ASSUME NEW p \in Parties, party[p] # NoObj
      PROVE  party'[p] # NoObj /\ party'[p].acl = party[p].acl
  <2>1. CASE p \notin new
    BY <1>7, <1>9, <2>1
  <2>2. CASE p \in new
    <3>1. p = u
      BY <1>1, <1>9, <2>2 DEF new
    <3>2. party'[p] = [party[u] EXCEPT !.links = @ \cup {g}]
      BY <1>1, <1>2, <1>7, <1>9, <2>2, <3>1
    <3>3. [party[u] EXCEPT !.links = @ \cup {g}] \in Party
      BY <1>3 DEF Party, Parties
    <3>4. party'[p].acl = party[p].acl
      BY <1>3, <3>1, <3>2 DEF Party
    <3> QED BY <3>2, <3>3, <3>4, SentinelAssumption
  <2> QED BY <2>1, <2>2
<1>10. ASSUME NEW p \in Parties, party[p] = NoObj, party'[p] # NoObj
       PROVE  party'[p].acl = {}
  <2>1. p \in new
    BY <1>7, <1>10
  <2>2. p = g
    BY <1>3, <1>10, <2>1 DEF new
  <2> QED BY <1>7, <2>1, <2>2 DEF group
<1> QED BY <1>7, <1>8, <1>9, <1>10 DEF Removal

LEMMA MembershipRemovesNothing ==
    ASSUME AclInv, NEW s \in Requests, NEW g \in Groups, NEW u \in Users,
           AddGroupUser(s, g, u) \/ RemGroupUser(s, g, u)
    PROVE  Removal({})
<1> DEFINE v == req[s].view
           add == [p \in {g, u} |->
                     [v.party[p] EXCEPT !.links = @ \cup ({g, u} \ {p})]]
           rem == Only(g, [v.party[g] EXCEPT !.links = @ \ {u}])
<1>1. /\ req[s] # Idle /\ v.party[g] # NoObj
      /\ Commit(s, Nothing, add, Nothing) \/ Commit(s, Nothing, rem, Nothing)
  BY DEF AddGroupUser, RemGroupUser, authorizeHandlerAction
<1>2. v.party = party
  BY <1>1, SerialView DEF AclInv
<1>3. DOMAIN Nothing = {}
  BY DEF Nothing
<1>4. party[g] # NoObj /\ party[u] # NoObj
  BY <1>1, <1>2, ViewTyping DEF AclInv
<1>5. \A p \in Parties : party[p] # NoObj => party[p] \in Party
  BY StoredTyping DEF AclInv
<1>6. g \in Parties /\ u \in Parties
  BY DEF Parties
<1>7. ASSUME NEW p \in {g, u}
      PROVE  /\ add[p] \in Party /\ add[p].acl = party[p].acl
  <2>1. party[p] \in Party
    BY <1>4, <1>5, <1>6
  <2>2. add[p] = [party[p] EXCEPT !.links = @ \cup ({g, u} \ {p})]
    BY <1>2
  <2> HIDE DEF add
  <2> QED BY <1>6, <2>1, <2>2 DEF Party
<1>8. rem[g] \in Party /\ rem[g].acl = party[g].acl /\ DOMAIN rem = {g}
  <2>1. party[g] \in Party
    BY <1>4, <1>5, <1>6
  <2>2. rem[g] = [party[g] EXCEPT !.links = @ \ {u}] /\ DOMAIN rem = {g}
    BY <1>2 DEF Only
  <2> HIDE DEF rem
  <2> QED BY <2>1, <2>2 DEF Party
<1>9. DOMAIN add = {g, u}
  OBVIOUS
<1> HIDE DEF add, rem, v
<1>10. /\ \A e \in Entries : entry'[e] = entry[e]
       /\ \A r \in Resources : resource'[r] = resource[r]
       /\ \A p \in Parties : \/ party'[p] = party[p]
                             \/ p \in {g, u} /\ party'[p] = add[p]
                             \/ p = g /\ party'[p] = rem[g]
  <2>1. CASE Commit(s, Nothing, add, Nothing)
    BY <1>3, <1>9, <2>1, CommitReads DEF AclInv
  <2>2. CASE Commit(s, Nothing, rem, Nothing)
    BY <1>3, <1>8, <2>2, CommitReads DEF AclInv
  <2> QED BY <1>1, <2>1, <2>2
<1>11. \A p \in Parties : party[p] # NoObj =>
          party'[p] # NoObj /\ party'[p].acl = party[p].acl
  BY <1>7, <1>8, <1>10, SentinelAssumption
<1>12. \A p \in Parties : party[p] = NoObj => party'[p] = NoObj
  BY <1>4, <1>10
<1> QED BY <1>10, <1>11, <1>12 DEF Removal

-----------------------------------------------------------------------------
(***************************************************************************)
(* Granting: at most the entry of one pair is new or changed.              *)
(***************************************************************************)
Grant(p, r) ==
    \A e \in Entries : \/ entry'[e] = entry[e]
                       \/ /\ entry'[e] # NoObj
                          /\ entry'[e].resource = r
                          /\ entry'[e].party = p

LEMMA CreateEntryGrants ==
    ASSUME AclInv, NEW s \in Requests, req[s] # Idle,
           NEW r \in Resources, NEW p \in Parties, NEW m \in SUBSET Rights,
           party[p] # NoObj, PairEntries(p, r) = {},
           dbCreateACLEntry(s, r, p, m)
    PROVE  AclAgrees' /\ OneEntryPerPair' /\ Grant(p, r)
<1> DEFINE rec == [resource |-> r, party |-> p, mask |-> m]
           wp(e) == Only(p, [party[p] EXCEPT !.acl = @ \cup {e}])
           wr(e) == Only(r, [resource[r] EXCEPT !.acl = @ \cup {e}])
<1>1. PICK e \in NewIds : Commit(s, Only(e, rec), wp(e), wr(e))
  BY SerialView DEF dbCreateACLEntry, AclInv
<1>2. e \in Entries /\ entry[e] = NoObj
  BY DEF NewIds, Mentioned, Stored
<1>3. /\ rec # NoObj /\ rec.resource = r /\ rec.party = p
  <2>1. rec \in ACLEntry
    BY DEF ACLEntry
  <2> QED BY <2>1, SentinelAssumption
<1>4. party[p] \in Party /\ resource[r] \in Resource
  BY StoredTyping DEF AclInv
<1>5. /\ [party[p] EXCEPT !.acl = @ \cup {e}] \in Party
      /\ [party[p] EXCEPT !.acl = @ \cup {e}].acl = party[p].acl \cup {e}
  BY <1>2, <1>4 DEF Party
<1>6. [resource[r] EXCEPT !.acl = @ \cup {e}].acl = resource[r].acl \cup {e}
  BY <1>4 DEF Resource
<1>7. /\ DOMAIN Only(e, rec) = {e} /\ Only(e, rec)[e] = rec
      /\ DOMAIN wp(e) = {p} /\ wp(e)[p] = [party[p] EXCEPT !.acl = @ \cup {e}]
      /\ DOMAIN wr(e) = {r} /\ wr(e)[r] = [resource[r] EXCEPT !.acl = @ \cup {e}]
  BY DEF Only
<1> HIDE DEF rec, wp, wr
<1>8. /\ \A x \in Entries : entry'[x] = IF x = e THEN rec ELSE entry[x]
      /\ \A q \in Parties : q # p => party'[q] = party[q]
      /\ \A t \in Resources : t # r => resource'[t] = resource[t]
      /\ party'[p] # NoObj /\ party'[p].acl = party[p].acl \cup {e}
      /\ resource'[r].acl = resource[r].acl \cup {e}
  <2>1. /\ \A x \in Entries : entry'[x] = IF x \in {e} THEN Only(e, rec)[x] ELSE entry[x]
        /\ \A q \in Parties : party'[q] = IF q \in {p} THEN wp(e)[q] ELSE party[q]
        /\ \A t \in Resources : resource'[t] = IF t \in {r} THEN wr(e)[t] ELSE resource[t]
    BY <1>1, <1>7, CommitReads DEF AclInv
  <2> QED BY <1>5, <1>6, <1>7, <2>1, SentinelAssumption
<1>9. OneEntryPerPair'
  BY <1>2, <1>3, <1>8 DEF AclInv, OneEntryPerPair, PairEntries
<1>10. ASSUME NEW t \in Resources
       PROVE  resource'[t].acl = {x \in Entries : entry'[x] # NoObj /\ entry'[x].resource = t}
  <2>1. resource[t].acl = {x \in Entries : entry[x] # NoObj /\ entry[x].resource = t}
    BY DEF AclInv, AclAgrees
  <2>2. CASE t = r
    BY <1>2, <1>3, <1>8, <2>1, <2>2
  <2>3. CASE t # r
    BY <1>2, <1>3, <1>8, <2>1, <2>3
  <2> QED BY <2>2, <2>3
<1>11. ASSUME NEW q \in Parties, party'[q] # NoObj
       PROVE  party'[q].acl = {x \in Entries : entry'[x] # NoObj /\ entry'[x].party = q}
  <2>1. party[q] # NoObj =>
          party[q].acl = {x \in Entries : entry[x] # NoObj /\ entry[x].party = q}
    BY DEF AclInv, AclAgrees
  <2>2. CASE q = p
    BY <1>2, <1>3, <1>8, <2>1, <2>2
  <2>3. CASE q # p
    BY <1>2, <1>3, <1>8, <1>11, <2>1, <2>3
  <2> QED BY <2>2, <2>3
<1>12. ASSUME NEW x \in Entries, entry'[x] # NoObj
       PROVE  party'[entry'[x].party] # NoObj
  <2>1. entry[x] # NoObj => entry[x].party \in Parties /\ party[entry[x].party] # NoObj
    BY StoredTyping DEF AclInv, AclAgrees, ACLEntry
  <2> QED BY <1>3, <1>8, <1>12, <2>1
<1> QED BY <1>3, <1>8, <1>9, <1>10, <1>11, <1>12 DEF AclAgrees, Grant

LEMMA SetMaskGrants ==
    ASSUME AclInv, NEW s \in Requests, req[s] # Idle,
           NEW r \in Resources, NEW p \in Parties, NEW m \in SUBSET Rights,
           NEW e \in PairEntries(p, r),
           setPermissionMask(s, e, m)
    PROVE  AclAgrees' /\ OneEntryPerPair' /\ Grant(p, r)
<1> DEFINE rec == [entry[e] EXCEPT !.mask = m]
<1>1. Commit(s, Only(e, rec), Nothing, Nothing)
  BY SerialView DEF setPermissionMask, AclInv
<1>2. e \in Entries /\ entry[e] # NoObj /\ entry[e].resource = r /\ entry[e].party = p
  BY DEF PairEntries
<1>3. entry[e] \in ACLEntry
  BY <1>2, StoredTyping DEF AclInv
<1>4. rec \in ACLEntry /\ rec.resource = r /\ rec.party = p
  BY <1>2, <1>3 DEF ACLEntry
<1>5. rec # NoObj
  BY <1>4, SentinelAssumption
<1>6. DOMAIN Nothing = {} /\ DOMAIN Only(e, rec) = {e} /\ Only(e, rec)[e] = rec
  BY DEF Nothing, Only
<1> HIDE DEF rec
<1>7. /\ \A x \in Entries : entry'[x] = IF x \in {e} THEN Only(e, rec)[x] ELSE entry[x]
      /\ \A q \in Parties : party'[q] = party[q]
      /\ \A t \in Resources : resource'[t] = resource[t]
  BY <1>1, <1>6, CommitReads DEF AclInv
<1>8. \A x \in Entries : /\ entry'[x] # NoObj <=> entry[x] # NoObj
                         /\ x # e => entry'[x] = entry[x]
                         /\ entry[x] # NoObj => /\ entry'[x].resource = entry[x].resource
                                                /\ entry'[x].party = entry[x].party
  BY <1>2, <1>4, <1>5, <1>6, <1>7
<1>9. Grant(p, r)
  BY <1>2, <1>8 DEF Grant
<1>10. OneEntryPerPair'
  BY <1>8 DEF AclInv, OneEntryPerPair
<1>11. AclAgrees'
  <2>1. \A x \in Entries : entry[x] # NoObj => entry[x].party \in Parties
    BY StoredTyping DEF AclInv, ACLEntry
  <2> QED BY <1>7, <1>8, <2>1 DEF AclInv, AclAgrees
<1> QED BY <1>9, <1>10, <1>11

LEMMA PermissionGrants ==
    ASSUME AclInv, NEW s \in Requests,
           NEW r \in Resources, NEW p \in Parties, NEW m \in Masks,
           SetPermission(s, r, p, m) \/ AddPermission(s, r, p, m)
    PROVE  AclAgrees' /\ OneEntryPerPair' /\ Grant(p, r)
<1> DEFINE v == req[s].view
<1>1. req[s] # Idle /\ v.party[p] # NoObj
  BY DEF SetPermission, AddPermission, authorizeHandlerAction
<1>2. v.entry = entry /\ v.party = party
  BY <1>1, SerialView DEF AclInv
<1>3. EntriesFor(v, p, r) = PairEntries(p, r)
  BY <1>1, <1>2 DEF AclInv, AclAgrees, EntriesFor, PairEntries
<1>4. m \in SUBSET Rights
  BY AccessAssumption
<1>5. \A e \in PairEntries(p, r) : v.entry[e].mask \cup m \in SUBSET Rights
  <2>1. \A e \in PairEntries(p, r) : entry[e] \in ACLEntry
    BY StoredTyping DEF AclInv, PairEntries
  <2> QED BY <1>2, <1>4, <2>1 DEF ACLEntry
<1>6. CASE EntriesFor(v, p, r) = {} /\ dbCreateACLEntry(s, r, p, m)
  BY <1>1, <1>2, <1>3, <1>4, <1>6, CreateEntryGrants
<1>7. CASE \E e \in EntriesFor(v, p, r) : setPermissionMask(s, e, m)
  BY <1>1, <1>3, <1>4, <1>7, SetMaskGrants
<1>8. CASE \E e \in EntriesFor(v, p, r) :
              setPermissionMask(s, e, v.entry[e].mask \cup m)
  BY <1>1, <1>3, <1>5, <1>8, SetMaskGrants
<1> QED BY <1>6, <1>7, <1>8 DEF SetPermission, AddPermission

-----------------------------------------------------------------------------
(***************************************************************************)
(* The invariant of requests that follow one another.                      *)
(***************************************************************************)

\* Every step is a grant, a removal, or the begin or end of a request that
\* writes nothing.
LEMMA StepEffects ==
    ASSUME AclInv, NEW s \in Requests, Step(s)
    PROVE  \/ \E r \in Resources, p \in Parties :
                 /\ \E m \in Masks :
                       SetPermission(s, r, p, m) \/ AddPermission(s, r, p, m)
                 /\ AclAgrees' /\ OneEntryPerPair' /\ Grant(p, r)
           \/ \E ids \in SUBSET Entries : Removal(ids)
           \/ Stored' = Stored
<1>1. CASE (\E u \in Users : Begin(s, u)) \/ Abandon(s)
  BY <1>1 DEF Begin, Abandon, Stored
<1>2. CASE \E r \in Resources, p \in Parties, m \in Masks :
              SetPermission(s, r, p, m) \/ AddPermission(s, r, p, m)
  BY <1>2, PermissionGrants
<1>3. \A p, r : PairEntries(p, r) \in SUBSET Entries /\ PartyEntries(p) \in SUBSET Entries
  BY DEF PairEntries, PartyEntries
<1>4. CASE \E r \in Resources, p \in Parties : RemPermission(s, r, p)
  BY <1>3, <1>4, RemPermissionRemoves
<1>5. CASE \E g \in Groups, addMe \in BOOLEAN : CreateGroup(s, g, addMe)
  BY <1>5, CreateGroupRemovesNothing
<1>6. CASE \E g \in Groups : DeleteGroup(s, g)
  BY <1>3, <1>6, DeleteGroupRemoves
<1>7. CASE \E g \in Groups, u \in Users :
              AddGroupUser(s, g, u) \/ RemGroupUser(s, g, u)
  BY <1>7, MembershipRemovesNothing
<1>8. CASE DeactivateRealm(s)
  BY <1>8, DeactivateRemoves
<1> QED BY <1>1, <1>2, <1>4, <1>5, <1>6, <1>7, <1>8 DEF Step

LEMMA InitAclInv == Init => AclInv
<1> SUFFICES ASSUME Init PROVE AclInv
  OBVIOUS
<1>1. TypeOK
  BY InitTypeOK
<1>2. ViewInv
  BY DEF Init, ViewInv
<1>3. PICK first \in [Resources -> Entries] :
         /\ \A r, t \in Resources : first[r] = first[t] => r = t
         /\ entry = [e \in Entries |->
                       IF \E r \in Resources : first[r] = e
                       THEN [resource |-> CHOOSE r \in Resources : first[r] = e,
                             party |-> Admin, mask |-> Rights]
                       ELSE NoObj]
         /\ party = [p \in Parties |->
                       IF p \in Groups THEN NoObj
                       ELSE [acl |-> IF p = Admin
                                     THEN {first[r] : r \in Resources} ELSE {},
                             links |-> {}]]
         /\ resource = [r \in Resources |-> [acl |-> {first[r]}, groups |-> {}]]
  BY DEF Init
<1> DEFINE Used(e) == \E r \in Resources : first[r] = e
<1>4. ASSUME NEW e \in Entries, Used(e)
      PROVE  /\ entry[e] # NoObj /\ entry[e].party = Admin
             /\ entry[e].resource \in Resources /\ first[entry[e].resource] = e
  <2> DEFINE home == CHOOSE r \in Resources : first[r] = e
  <2>1. home \in Resources /\ first[home] = e
    BY <1>4
  <2>2. entry[e] = [resource |-> home, party |-> Admin, mask |-> Rights]
    BY <1>3, <1>4
  <2> HIDE DEF home
  <2>3. [resource |-> home, party |-> Admin, mask |-> Rights] \in ACLEntry
    BY <2>1, AccessAssumption DEF ACLEntry, Parties
  <2> QED BY <2>1, <2>2, <2>3, SentinelAssumption
<1>5. \A e \in Entries : ~Used(e) => entry[e] = NoObj
  BY <1>3
<1>6. \A r \in Resources : first[r] \in Entries /\ Used(first[r])
  OBVIOUS
<1>7. /\ Admin \in Parties /\ Admin \notin Groups
      /\ \A p \in Parties : p \notin Groups =>
            party[p].acl = IF p = Admin THEN {first[r] : r \in Resources} ELSE {}
      /\ \A p \in Groups : party[p] = NoObj
      /\ \A r \in Resources : resource[r].acl = {first[r]}
  BY <1>3, AccessAssumption DEF Parties
<1>8. party[Admin] # NoObj
  BY <1>1, AccessAssumption DEF TypeOK, WellTyped, Stored
<1>6a. {first[r] : r \in Resources} = {e \in Entries : Used(e)}
  OBVIOUS
<1> HIDE DEF Used
<1>9. \A r \in Resources :
        resource[r].acl = {e \in Entries : entry[e] # NoObj /\ entry[e].resource = r}
  BY <1>3, <1>4, <1>5, <1>6, <1>7
<1>10. ASSUME NEW p \in Parties, party[p] # NoObj
       PROVE  party[p].acl = {e \in Entries : entry[e] # NoObj /\ entry[e].party = p}
  <2>1. p \notin Groups
    BY <1>7, <1>10
  <2>2. \A e \in Entries : /\ entry[e] # NoObj <=> Used(e)
                           /\ Used(e) => entry[e].party = Admin
    BY <1>4, <1>5
  <2>3. CASE p = Admin
    <3>1. party[p].acl = {e \in Entries : Used(e)}
      BY <1>7, <1>6a, <2>1, <2>3
    <3> QED BY <2>2, <2>3, <3>1
  <2>4. CASE p # Admin
    <3>1. party[p].acl = {}
      BY <1>7, <2>1, <2>4
    <3> QED BY <2>2, <2>4, <3>1
  <2> QED BY <2>3, <2>4
<1>11. AclAgrees
  BY <1>4, <1>5, <1>8, <1>9, <1>10 DEF AclAgrees
<1>12. OneEntryPerPair
  BY <1>4, <1>5 DEF OneEntryPerPair
<1> QED BY <1>1, <1>2, <1>11, <1>12 DEF AclInv

LEMMA ViewStep ==
    ASSUME OneAtATime, TypeOK, ViewInv, NEW s \in Requests, Step(s)
    PROVE  ViewInv'
<1>1. \A t \in Requests : t = s
  BY DEF OneAtATime
<1>2. CASE \E u \in Users : Begin(s, u)
  <2>1. PICK u \in Users : req' = [req EXCEPT ![s] = [user |-> u, view |-> Stored]]
    BY <1>2 DEF Begin
  <2>2. req'[s] = [user |-> u, view |-> Stored]
    BY <2>1 DEF TypeOK
  <2>3. req'[s].view = Stored
    BY <2>2
  <2>4. Stored' = Stored
    BY <1>2 DEF Begin, Stored
  <2> QED BY <1>1, <2>3, <2>4 DEF ViewInv
<1>3. ASSUME req' = [req EXCEPT ![s] = Idle] PROVE ViewInv'
  BY <1>1, <1>3 DEF TypeOK, ViewInv
<1>4. CASE ~ \E u \in Users : Begin(s, u)
  <2> DEFINE End == req' = [req EXCEPT ![s] = Idle]
  <2>1. \A we, wp, wr : Commit(s, we, wp, wr) => End
    BY DEF Commit
  <2> SUFFICES End
    BY <1>3
  <2> HIDE DEF End
  <2>2. CASE \E r \in Resources, p \in Parties, m \in Masks :
                SetPermission(s, r, p, m) \/ AddPermission(s, r, p, m)
    BY <2>1, <2>2 DEF SetPermission, AddPermission, dbCreateACLEntry, setPermissionMask
  <2>3. CASE \E r \in Resources, p \in Parties : RemPermission(s, r, p)
    BY <2>1, <2>3 DEF RemPermission
  <2>4. CASE \E g \in Groups, addMe \in BOOLEAN : CreateGroup(s, g, addMe)
    BY <2>1, <2>4 DEF CreateGroup
  <2>5. CASE \E g \in Groups : DeleteGroup(s, g)
    BY <2>1, <2>5 DEF DeleteGroup
  <2>6. CASE \E g \in Groups, u \in Users :
                AddGroupUser(s, g, u) \/ RemGroupUser(s, g, u)
    BY <2>1, <2>6 DEF AddGroupUser, RemGroupUser
  <2>7. CASE DeactivateRealm(s)
    BY <2>1, <2>7 DEF DeactivateRealm
  <2>8. CASE Abandon(s)
    BY <2>8 DEF Abandon, End
  <2> QED BY <1>4, <2>2, <2>3, <2>4, <2>5, <2>6, <2>7, <2>8 DEF Step
<1> QED BY <1>2, <1>4

LEMMA NextAclInv == OneAtATime /\ AclInv /\ [Next]_vars => AclInv'
<1> SUFFICES ASSUME OneAtATime, AclInv, [Next]_vars PROVE AclInv'
  OBVIOUS
<1>1. TypeOK'
  BY NextTypeOK DEF AclInv
<1>2. CASE UNCHANGED vars
  BY <1>1, <1>2 DEF AclInv, vars, ViewInv, AclAgrees, OneEntryPerPair, Stored
<1>3. ASSUME NEW s \in Requests, Step(s) PROVE AclInv'
  <2>1. ViewInv'
    BY <1>3, ViewStep DEF AclInv
  <2>2. CASE \E ids \in SUBSET Entries : Removal(ids)
    BY <1>1, <2>1, <2>2, RemovalKeepsAcl DEF AclInv
  <2>3. CASE Stored' = Stored
    <3>1. entry' = entry /\ party' = party /\ resource' = resource
      BY <2>3 DEF Stored
    <3> QED BY <1>1, <2>1, <3>1 DEF AclInv, AclAgrees, OneEntryPerPair
  <2>4. CASE AclAgrees' /\ OneEntryPerPair'
    BY <1>1, <2>1, <2>4 DEF AclInv
  <2> QED BY <1>3, <2>2, <2>3, <2>4, StepEffects
<1> QED BY <1>2, <1>3 DEF Next

LEMMA AclInvariant == ASSUME OneAtATime PROVE Spec => []AclInv
BY InitAclInv, NextAclInv, PTL DEF Spec

\* When requests follow one another, the entries, the lists of the resources
\* and the lists of the parties agree after every commit.
THEOREM PermissionRecordsAgree == ASSUME OneAtATime PROVE Spec => []AclAgrees
<1>1. AclInv => AclAgrees
  BY DEF AclInv
<1> QED BY <1>1, AclInvariant, PTL

\* ... and a party has at most one entry for a resource.
THEOREM EntriesUnique == ASSUME OneAtATime PROVE Spec => []OneEntryPerPair
<1>1. AclInv => OneEntryPerPair
  BY DEF AclInv
<1> QED BY <1>1, AclInvariant, PTL

-----------------------------------------------------------------------------
(***************************************************************************)
(* Rights, read off the entries.                                           *)
(***************************************************************************)
LEMMA RightsByEntries ==
    ASSUME AclAgrees, NEW p \in Parties, NEW r \in Resources
    PROVE  RightsOf(p, r) =
             {a \in Rights : \E e \in PairEntries(p, r) : a \in entry[e].mask}
<1>1. CASE party[p] = NoObj
  BY <1>1 DEF AclAgrees, RightsOf, PairEntries
<1>2. CASE party[p] # NoObj
  <2>1. Stored.party = party /\ Stored.entry = entry
    BY DEF Stored
  <2>2. party[p].acl = {e \in Entries : entry[e] # NoObj /\ entry[e].party = p}
    BY <1>2 DEF AclAgrees
  <2>3. RightsOf(p, r) = {a \in Rights : partyHasAccess(Stored, p, a, r)}
    BY <1>2 DEF RightsOf
  <2>4. \A a : partyHasAccess(Stored, p, a, r)
                 <=> \E e \in PairEntries(p, r) : a \in entry[e].mask
    BY <2>1, <2>2 DEF partyHasAccess, PairEntries
  <2> QED BY <2>3, <2>4
<1> QED BY <1>1, <1>2

LEMMA RightsByNewEntries ==
    ASSUME AclAgrees', NEW p \in Parties, NEW r \in Resources
    PROVE  RightsOf(p, r)' =
             {a \in Rights : \E e \in Entries :
                 /\ entry'[e] # NoObj /\ a \in entry'[e].mask
                 /\ entry'[e].resource = r /\ entry'[e].party = p}
<1>1. CASE party'[p] = NoObj
  BY <1>1 DEF AclAgrees, RightsOf
<1>2. CASE party'[p] # NoObj
  <2>1. Stored'.party = party' /\ Stored'.entry = entry'
    BY DEF Stored
  <2>2. party'[p].acl = {e \in Entries : entry'[e] # NoObj /\ entry'[e].party = p}
    BY <1>2 DEF AclAgrees
  <2>3. RightsOf(p, r)' = {a \in Rights : partyHasAccess(Stored', p, a, r)}
    BY <1>2 DEF RightsOf, partyHasAccess
  <2>4. \A a : partyHasAccess(Stored', p, a, r)
                 <=> \E e \in Entries :
                       /\ entry'[e] # NoObj /\ a \in entry'[e].mask
                       /\ entry'[e].resource = r /\ entry'[e].party = p
    BY <2>1, <2>2 DEF partyHasAccess
  <2> QED BY <2>3, <2>4
<1> QED BY <1>1, <1>2

LEMMA RemovalRights ==
    ASSUME TypeOK, AclAgrees, OneEntryPerPair, NEW ids, Removal(ids),
           NEW p \in Parties, NEW r \in Resources
    PROVE  RightsOf(p, r)' =
             {a \in Rights : \E e \in PairEntries(p, r) \ ids : a \in entry[e].mask}
<1>1. AclAgrees'
  BY RemovalKeepsAcl
<1>2. \A e \in Entries, a \in Rights :
        (/\ entry'[e] # NoObj /\ a \in entry'[e].mask
         /\ entry'[e].resource = r /\ entry'[e].party = p)
        <=> e \in PairEntries(p, r) \ ids /\ a \in entry[e].mask
  BY DEF Removal, PairEntries
<1>3. \A e \in PairEntries(p, r) : e \in Entries
  BY DEF PairEntries
<1> QED BY <1>1, <1>2, <1>3, RightsByNewEntries

\* A grant changes the rights of its own pair only.
LEMMA GrantRights ==
    ASSUME AclAgrees, AclAgrees',
           NEW p \in Parties, NEW r \in Resources, Grant(p, r),
           NEW q \in Parties, NEW t \in Resources, q # p \/ t # r
    PROVE  RightsOf(q, t)' \subseteq RightsOf(q, t)
<1>1. \A e \in Entries : entry'[e] # NoObj /\ entry'[e].resource = t /\ entry'[e].party = q
                            => e \in PairEntries(q, t) /\ entry'[e] = entry[e]
  BY DEF Grant, PairEntries
<1> QED BY <1>1, RightsByEntries, RightsByNewEntries

\* No right is gained but by a grant of a user who may write the resource,
\* directly, through a group, or by a right to its parent.
THEOREM RightsOnlyGranted == ASSUME OneAtATime PROVE Spec => NoEscalation
<1> DEFINE Granted(p, r) ==
             \E s \in Requests : req'[s] # req[s] /\ req[s] # Idle
                /\ authorized(req[s].view, req[s].user, "write", r)
           A == \A p \in Parties, r \in Resources :
                   RightsOf(p, r)' \subseteq RightsOf(p, r) \/ Granted(p, r)
<1>1. ASSUME AclInv, AclInv', NEW s \in Requests, Step(s) PROVE A
  <2> SUFFICES ASSUME NEW q \in Parties, NEW t \in Resources
               PROVE  RightsOf(q, t)' \subseteq RightsOf(q, t) \/ Granted(q, t)
    OBVIOUS
  <2>1. AclAgrees /\ AclAgrees'
    BY <1>1 DEF AclInv
  <2>2. CASE \E ids \in SUBSET Entries : Removal(ids)
    <3>1. PICK ids \in SUBSET Entries : Removal(ids)
      BY <2>2
    <3>2. RightsOf(q, t)' =
             {a \in Rights : \E e \in PairEntries(q, t) \ ids : a \in entry[e].mask}
      BY <1>1, <3>1, RemovalRights DEF AclInv
    <3>3. RightsOf(q, t) =
             {a \in Rights : \E e \in PairEntries(q, t) : a \in entry[e].mask}
      BY <2>1, RightsByEntries
    <3>4. RightsOf(q, t)' \subseteq RightsOf(q, t)
      BY <3>2, <3>3
    <3> QED BY <3>4
  <2>3. CASE Stored' = Stored
    <3>1. entry' = entry
      BY <2>3 DEF Stored
    <3>2. RightsOf(q, t)' \subseteq RightsOf(q, t)
      BY <2>1, <3>1, RightsByEntries, RightsByNewEntries DEF PairEntries
    <3> QED BY <3>2
  <2>4. ASSUME NEW r \in Resources, NEW p \in Parties, NEW m \in Masks,
               SetPermission(s, r, p, m) \/ AddPermission(s, r, p, m), Grant(p, r)
        PROVE  RightsOf(q, t)' \subseteq RightsOf(q, t) \/ Granted(q, t)
    <3>1. CASE q # p \/ t # r
      <4>1. RightsOf(q, t)' \subseteq RightsOf(q, t)
        BY <2>1, <2>4, <3>1, GrantRights
      <4> QED BY <4>1
    <3>2. CASE t = r
      <4>1. req[s] # Idle /\ authorized(req[s].view, req[s].user, "write", t)
        BY <2>4, <3>2 DEF SetPermission, AddPermission, authorizeHandlerAction
      <4>2. \A we, wp, wr : Commit(s, we, wp, wr) => req' = [req EXCEPT ![s] = Idle]
        BY DEF Commit
      <4>3. req' = [req EXCEPT ![s] = Idle]
        BY <2>4, <4>2
           DEF SetPermission, AddPermission, dbCreateACLEntry, setPermissionMask
      <4>4. req'[s] # req[s]
        BY <1>1, <4>1, <4>3 DEF AclInv, TypeOK
      <4> QED BY <4>1, <4>4
    <3> QED BY <3>1, <3>2
  <2> QED BY <1>1, <2>2, <2>3, <2>4, StepEffects
<1>2. AclInv /\ AclInv' /\ [Next]_vars => [A]_vars
  BY <1>1 DEF Next
<1> QED BY <1>2, AclInvariant, PTL DEF Spec, NoEscalation

\* A removal removes the whole right, and no other.
THEOREM RevocationEffective == ASSUME OneAtATime PROVE Spec => RevocationTakesEffect
<1> DEFINE Effect(r, p) ==
              /\ RightsOf(p, r)' = {}
              /\ \A q \in Parties, t \in Resources :
                    q # p \/ t # r => RightsOf(q, t)' = RightsOf(q, t)
           A == \A s \in Requests, r \in Resources, p \in Parties :
                   RemPermission(s, r, p) => Effect(r, p)
<1>1. ASSUME AclInv, NEW s \in Requests, NEW r \in Resources, NEW p \in Parties,
             RemPermission(s, r, p)
      PROVE  Effect(r, p)
  <2>1. \A q \in Parties, t \in Resources : RightsOf(q, t)' =
           {a \in Rights : \E e \in PairEntries(q, t) \ PairEntries(p, r) : a \in entry[e].mask}
    BY <1>1, RemPermissionRemoves, RemovalRights DEF AclInv
  <2>2. RightsOf(p, r)' = {}
    BY <2>1
  <2>3. ASSUME NEW q \in Parties, NEW t \in Resources, q # p \/ t # r
        PROVE  RightsOf(q, t)' = RightsOf(q, t)
    <3>1. PairEntries(q, t) \ PairEntries(p, r) = PairEntries(q, t)
      BY <2>3 DEF PairEntries
    <3>2. RightsOf(q, t) =
             {a \in Rights : \E e \in PairEntries(q, t) : a \in entry[e].mask}
      BY <1>1, RightsByEntries DEF AclInv
    <3> QED BY <2>1, <3>1, <3>2
  <2> QED BY <2>2, <2>3
<1>2. AclInv => [A]_vars
  BY <1>1
<1> QED BY <1>2, AclInvariant, PTL DEF RevocationTakesEffect

\* After deactivateRealm nobody has a right to anything in the realm.
THEOREM DeactivationEffective == ASSUME OneAtATime PROVE Spec => DeactivationRemovesAll
<1> DEFINE A == \A s \in Requests :
                   DeactivateRealm(s) => \A p \in Parties, r \in Resources :
                                            RightsOf(p, r)' = {}
<1>1. ASSUME AclInv, NEW s \in Requests, DeactivateRealm(s),
             NEW p \in Parties, NEW r \in Resources
      PROVE  RightsOf(p, r)' = {}
  <2>1. RightsOf(p, r)' =
           {a \in Rights : \E e \in PairEntries(p, r) \ Entries : a \in entry[e].mask}
    BY <1>1, DeactivateRemoves, RemovalRights DEF AclInv
  <2> QED BY <2>1 DEF PairEntries
<1>2. AclInv => [A]_vars
  BY <1>1
<1> QED BY <1>2, AclInvariant, PTL DEF DeactivationRemovesAll

\* A group disappears from the realm's list in deleteGroup only.
LEMMA OnlyDeleteGroup ==
    ASSUME AclInv, NEW s \in Requests, Step(s), NEW g \in Groups,
           g \in resource[Realm].groups, g \notin resource'[Realm].groups
    PROVE  DeleteGroup(s, g)
<1> DEFINE v == req[s].view
<1>1. Realm \in Resources
  BY AccessAssumption
<1>2. \A r \in Resources : resource[r] \in Resource
  BY StoredTyping DEF AclInv
<1>3. \A we, wp, wr : Commit(s, we, wp, wr) => Realm \in DOMAIN wr /\ g \notin wr[Realm].groups
  BY <1>1, CommitReads DEF AclInv
<1>4. DOMAIN Nothing = {} /\ (\A k, obj : DOMAIN Only(k, obj) = {k} /\ Only(k, obj)[k] = obj)
  BY DEF Nothing, Only
<1>5. req[s] # Idle => v.resource = resource
  BY SerialView DEF AclInv
<1>6. \A e : [resource[Realm] EXCEPT !.acl = e].groups = resource[Realm].groups
  BY <1>1, <1>2 DEF Resource
<1>7. \A h : [resource[Realm] EXCEPT !.groups = h].groups = h
  BY <1>1, <1>2 DEF Resource
<1>8. ~ ((\E u \in Users : Begin(s, u)) \/ Abandon(s))
  BY DEF Begin, Abandon
<1>9. \A e, m : ~ setPermissionMask(s, e, m)
  BY <1>3, <1>4 DEF setPermissionMask
<1>10. \A r, obj, we, wp :
          Commit(s, we, wp, Only(r, obj)) => r = Realm /\ obj.groups # resource[Realm].groups
  <2> SUFFICES ASSUME NEW r, NEW obj, NEW we, NEW wp, Commit(s, we, wp, Only(r, obj))
               PROVE  r = Realm /\ obj.groups # resource[Realm].groups
    OBVIOUS
  <2> DEFINE wr == Only(r, obj)
  <2>1. DOMAIN wr = {r} /\ wr[r] = obj
    BY <1>4
  <2>2. Commit(s, we, wp, wr)
    OBVIOUS
  <2> HIDE DEF wr
  <2>3. r = Realm /\ g \notin obj.groups
    BY <1>3, <2>1, <2>2
  <2> QED BY <1>1, <2>3
<1>11. ASSUME NEW r \in Resources, NEW p \in Parties, NEW m \in Masks,
              req[s] # Idle, dbCreateACLEntry(s, r, p, m)
       PROVE  FALSE
  <2>1. PICK e \in NewIds :
           Commit(s, Only(e, [resource |-> r, party |-> p, mask |-> m]),
                     Only(p, [v.party[p] EXCEPT !.acl = @ \cup {e}]),
                     Only(r, [v.resource[r] EXCEPT !.acl = @ \cup {e}]))
    BY <1>11 DEF dbCreateACLEntry
  <2> DEFINE obj == [v.resource[r] EXCEPT !.acl = @ \cup {e}]
  <2>2. obj.groups = resource[r].groups
    BY <1>2, <1>5, <1>11 DEF Resource
  <2>3. \E we, wp : Commit(s, we, wp, Only(r, obj))
    BY <2>1
  <2> HIDE DEF obj
  <2> QED BY <1>10, <2>2, <2>3
<1>12. \A r \in Resources, p \in Parties, m \in Masks :
          ~ (SetPermission(s, r, p, m) \/ AddPermission(s, r, p, m))
  BY <1>9, <1>11 DEF SetPermission, AddPermission, authorizeHandlerAction
<1>13. ASSUME NEW r \in Resources, NEW p \in Parties, RemPermission(s, r, p)
       PROVE  FALSE
  <2>1. PICK gone : \E we, wp :
           Commit(s, we, wp, Only(r, [v.resource[r] EXCEPT !.acl = @ \ gone]))
    BY <1>13 DEF RemPermission
  <2>2. req[s] # Idle
    BY <1>13 DEF RemPermission, authorizeHandlerAction
  <2> DEFINE obj == [v.resource[r] EXCEPT !.acl = @ \ gone]
  <2>3. obj.groups = resource[r].groups
    BY <1>2, <1>5, <2>2 DEF Resource
  <2>4. \E we, wp : Commit(s, we, wp, Only(r, obj))
    BY <2>1
  <2> HIDE DEF obj
  <2> QED BY <1>10, <2>3, <2>4
<1>14. \A h \in Groups, addMe \in BOOLEAN : ~ CreateGroup(s, h, addMe)
  <2> SUFFICES ASSUME NEW h \in Groups, NEW addMe \in BOOLEAN, CreateGroup(s, h, addMe)
               PROVE  FALSE
    OBVIOUS
  <2> DEFINE wr == Only(Realm, [resource[Realm] EXCEPT !.groups = @ \cup {h}])
  <2>1. \E wp : Commit(s, Nothing, wp, wr)
    BY <1>5 DEF CreateGroup, authorizeHandlerAction
  <2>2. wr[Realm].groups = resource[Realm].groups \cup {h}
    BY <1>4, <1>7
  <2> HIDE DEF wr
  <2> QED BY <1>3, <2>1, <2>2
<1>15. \A h \in Groups, u \in Users : ~ (AddGroupUser(s, h, u) \/ RemGroupUser(s, h, u))
  BY <1>3, <1>4 DEF AddGroupUser, RemGroupUser
<1>16. ~ DeactivateRealm(s)
  <2> SUFFICES ASSUME DeactivateRealm(s) PROVE FALSE
    OBVIOUS
  <2> DEFINE wr == [r \in Resources |-> [v.resource[r] EXCEPT !.acl = {}]]
  <2>1. req[s] # Idle
    BY DEF DeactivateRealm, authorizeHandlerAction
  <2>2. \E we, wp : Commit(s, we, wp, wr)
    BY DEF DeactivateRealm
  <2>3. wr[Realm] = [resource[Realm] EXCEPT !.acl = {}]
    BY <1>1, <1>5, <2>1
  <2> HIDE DEF wr
  <2>4. wr[Realm].groups = resource[Realm].groups
    BY <1>6, <2>3
  <2> QED BY <1>1, <1>3, <2>2, <2>4
<1>17. ASSUME NEW h \in Groups, DeleteGroup(s, h) PROVE h = g
  <2> DEFINE touched == {v.entry[e].resource : e \in v.party[h].acl}
             wr(gone) == [r \in touched \cup {Realm} |->
                    [acl |-> IF r \in touched THEN v.resource[r].acl \ gone[r]
                                              ELSE v.resource[r].acl,
                     groups |-> IF r = Realm THEN v.resource[r].groups \ {h}
                                             ELSE v.resource[r].groups]]
  <2>1. req[s] # Idle
    BY <1>17 DEF DeleteGroup, authorizeHandlerAction
  <2>2. PICK gone, we, wp : Commit(s, we, wp, wr(gone))
    BY <1>17 DEF DeleteGroup
  <2>3. wr(gone)[Realm].groups = v.resource[Realm].groups \ {h}
    OBVIOUS
  <2>4. wr(gone)[Realm].groups = resource[Realm].groups \ {h}
    BY <1>5, <2>1, <2>3
  <2> HIDE DEF wr, touched
  <2> QED BY <1>3, <2>2, <2>4
<1>18. PICK h \in Groups : DeleteGroup(s, h)
  BY <1>8, <1>12, <1>13, <1>14, <1>15, <1>16 DEF Step
<1> QED BY <1>17, <1>18

\* A group that has been deleted has no right to anything.
THEOREM DeletionEffective == ASSUME OneAtATime PROVE Spec => DeletedGroupHasNoRights
<1> DEFINE A == \A g \in Groups :
              g \in resource[Realm].groups /\ g \notin resource'[Realm].groups
                 => \A r \in Resources : RightsOf(g, r)' = {}
<1>1. ASSUME AclInv, NEW s \in Requests, Step(s), NEW g \in Groups,
             g \in resource[Realm].groups, g \notin resource'[Realm].groups,
             NEW r \in Resources
      PROVE  RightsOf(g, r)' = {}
  <2>1. DeleteGroup(s, g)
    BY <1>1, OnlyDeleteGroup
  <2>2. g \in Parties
    BY DEF Parties
  <2>3. RightsOf(g, r)' =
           {a \in Rights : \E e \in PairEntries(g, r) \ PartyEntries(g) : a \in entry[e].mask}
    BY <1>1, <2>1, <2>2, DeleteGroupRemoves, RemovalRights DEF AclInv
  <2> QED BY <2>3 DEF PairEntries, PartyEntries
<1>2. AclInv /\ [Next]_vars => [A]_vars
  BY <1>1 DEF Next
<1> QED BY <1>2, AclInvariant, PTL DEF Spec, DeletedGroupHasNoRights

-----------------------------------------------------------------------------
(***************************************************************************)
(* Queries.                                                                *)
(***************************************************************************)

\* A realm contains repos, and repos all the rest: so it is with resources.
ThreeLevels ==
    /\ ParentOf[Realm] = NoParent
    /\ \A r \in Resources \ {Realm} :
          ParentOf[r] = Realm \/ (ParentOf[r] \in Resources \ {Realm}
                                  /\ ParentOf[ParentOf[r]] = Realm)

\* With lists that agree with the entries, a user's list names the resources
\* of the user's entries.
LEMMA OwnByEntries ==
    ASSUME TypeOK, AclAgrees, NEW u \in Users, NEW r \in Resources
    PROVE  r \in OwnResources(Stored, u) <=>
              \E e \in Entries : /\ entry[e] # NoObj
                                 /\ entry[e].party = u /\ entry[e].resource = r
<1>1. u \in Parties /\ party[u] # NoObj
  BY DEF Parties, TypeOK, WellTyped, Stored
<1>2. party[u].acl = {e \in Entries : entry[e] # NoObj /\ entry[e].party = u}
  BY <1>1 DEF AclAgrees
<1>3. Stored.party = party /\ Stored.entry = entry
  BY DEF Stored
<1>4. OwnResources(Stored, u) = {entry[e].resource : e \in party[u].acl}
  BY <1>3 DEF OwnResources
<1> QED BY <1>2, <1>4

\* A right by an own entry puts the entry's resource into the user's list.
LEMMA RightsAreOwn ==
    ASSUME NEW u \in Users, NEW r, RightsOf(u, r) # {}
    PROVE  r \in OwnResources(Stored, u)
<1>1. PICK a \in Rights : partyHasAccess(Stored, u, a, r)
  BY DEF RightsOf
<1> QED BY <1>1 DEF partyHasAccess, OwnResources

\* No query fails, shows less than the user's own entries allow, or shows
\* what they do not reach: for every tree of realm, repos and leaves.
THEOREM QueriesComplete ==
    ASSUME OneAtATime, ThreeLevels PROVE Spec => []QueriesShowRights
<1>1. ASSUME AclInv, NEW u \in Users PROVE EntriesReadable(Stored, u)
  <2>1. u \in Parties /\ party[u] # NoObj
    BY <1>1 DEF Parties, AclInv, TypeOK, WellTyped, Stored
  <2>2. party[u].acl = {e \in Entries : entry[e] # NoObj /\ entry[e].party = u}
    BY <1>1, <2>1 DEF AclInv, AclAgrees
  <2> QED BY <2>2 DEF EntriesReadable, Stored
<1>2. ASSUME NEW u \in Users, NEW r \in Resources,
             r \in OwnResources(Stored, u)
                \/ (r # Realm /\ ParentOf[r] \in OwnResources(Stored, u))
      PROVE  r \in Listed(Stored, u)
  <2> DEFINE own == OwnResources(Stored, u)
  <2>1. CASE r = Realm
    BY <1>2, <2>1 DEF Listed, getMyRealms
  <2>2. CASE r \in Repos
    BY <1>2, <2>2 DEF Listed, getMyRepos, Repos
  <2>3. CASE r \in Leaves
    <3>1. r # Realm /\ r \notin Repos
      BY <2>3 DEF Leaves
    <3>2. ParentOf[r] \in Repos
      BY <3>1 DEF ThreeLevels, Repos
    <3>3. ParentOf[r] \in own => ParentOf[r] \in getMyRepos(Stored, u)
      BY <3>2 DEF getMyRepos
    <3> QED BY <1>2, <2>3, <3>1, <3>3 DEF Listed, getLeafResources
  <2> QED BY <2>1, <2>2, <2>3 DEF Leaves
<1>3. ASSUME AclInv, NEW u \in Users, NEW r \in Listed(Stored, u)
      PROVE  \E e \in Entries : /\ entry[e] # NoObj
                                /\ entry[e].party = u
                                /\ entry[e].resource \in {r, ParentOf[r], Realm}
  <2> DEFINE own == OwnResources(Stored, u)
  <2>1. r \in own \/ Realm \in own \/ (ParentOf[r] \in own /\ ParentOf[r] \in Resources)
    BY <1>3 DEF Listed, getMyRealms, getMyRepos, getLeafResources, Repos
  <2>2. r \in Resources /\ Realm \in Resources
    BY <1>3, AccessAssumption
       DEF Listed, getMyRealms, getMyRepos, getLeafResources, Repos, Leaves
  <2>3. PICK t \in Resources : t \in own /\ t \in {r, ParentOf[r], Realm}
    BY <2>1, <2>2
  <2> QED BY <1>3, <2>3, OwnByEntries DEF AclInv
<1>4. AclInv => QueriesShowRights
  BY <1>1, <1>2, <1>3, RightsAreOwn DEF QueriesShowRights
<1> QED BY <1>4, AclInvariant, PTL

-----------------------------------------------------------------------------
(***************************************************************************)
(* What holds in AccessControl for any number of requests in progress: no  *)
(* list leads to somebody else's entry, although the lists and the entries *)
(* may no longer agree.  The invariant has to speak of what the requests   *)
(* have read as well as of what is stored, since a commit writes parts of  *)
(* the one over parts of the other.                                        *)
(***************************************************************************)

\* What is stored, and what each request in progress has read.
Views == {Stored} \cup {req[s].view : s \in {t \in Requests : req[t] # Idle}}

\* The lists of v never lead to somebody else's entry of w.
Agree(v, w) ==
    /\ \A r \in Resources : \A e \in v.resource[r].acl :
          w.entry[e] # NoObj => w.entry[e].resource = r
    /\ \A p \in Parties : v.party[p] # NoObj => \A e \in v.party[p].acl :
          w.entry[e] # NoObj => w.entry[e].party = p

HomeInv == TypeOK /\ \A v, w \in Views : Agree(v, w)

\* A step that stores nothing but what was in some view, and new ids that
\* stand for an entry of party q for resource t.
Follows(new, t, q) ==
    /\ new \subseteq NewIds
    /\ \A r \in Resources : \A e \in resource'[r].acl :
          (\E v \in Views : e \in v.resource[r].acl) \/ (e \in new /\ r = t)
    /\ \A p \in Parties : party'[p] # NoObj => \A e \in party'[p].acl :
          \/ \E v \in Views : v.party[p] # NoObj /\ e \in v.party[p].acl
          \/ e \in new /\ p = q
    /\ \A e \in Entries : entry'[e] # NoObj =>
          \/ \E v \in Views : /\ v.entry[e] # NoObj
                              /\ v.entry[e].resource = entry'[e].resource
                              /\ v.entry[e].party = entry'[e].party
          \/ e \in new /\ entry'[e].resource = t /\ entry'[e].party = q
    /\ \A s \in Requests : req'[s] # Idle => req'[s] = req[s]

\* A new id is in no view.
LEMMA NewIdsUnseen ==
    ASSUME NEW e \in NewIds, NEW v \in Views
    PROVE  /\ e \in Entries
           /\ v.entry[e] = NoObj
           /\ \A r \in Resources : e \notin v.resource[r].acl
           /\ \A p \in Parties : v.party[p] # NoObj => e \notin v.party[p].acl
<1>1. e \in Entries /\ e \notin Mentioned(v)
  BY DEF NewIds, Views
<1> QED BY <1>1 DEF Mentioned

\* Ids in the lists of a view are ids of entries.
LEMMA ViewIds ==
    ASSUME TypeOK, NEW v \in Views
    PROVE  /\ \A r \in Resources : v.resource[r].acl \subseteq Entries
           /\ \A p \in Parties : v.party[p] # NoObj => v.party[p].acl \subseteq Entries
<1>1. v \in Database
  <2>1. v = Stored \/ \E t \in Requests : req[t] # Idle /\ v = req[t].view
    BY DEF Views
  <2>2. CASE v = Stored
    BY <2>2 DEF TypeOK, WellTyped
  <2>3. ASSUME NEW t \in Requests, req[t] # Idle, v = req[t].view PROVE v \in Database
    BY <2>3 DEF TypeOK, WellTyped
  <2> QED BY <2>1, <2>2, <2>3
<1>2. v.resource \in [Resources -> Resource] /\ v.party \in [Parties -> Party \cup {NoObj}]
  BY <1>1 DEF Database
<1>3. \A r \in Resources : v.resource[r].acl \subseteq Entries
  BY <1>2 DEF Resource
<1>4. \A p \in Parties : v.party[p] # NoObj => v.party[p].acl \subseteq Entries
  BY <1>2 DEF Party
<1> QED BY <1>3, <1>4

LEMMA FollowsKeepsHome ==
    ASSUME HomeInv, TypeOK', NEW new, NEW t, NEW q, Follows(new, t, q)
    PROVE  HomeInv'
<1>1. \A v \in Views' : v \in Views \/ v = Stored'
  BY DEF Follows, Views
<1>2. TypeOK
  BY DEF HomeInv
<1>3. /\ Stored'.entry = entry'
      /\ Stored'.party = party'
      /\ Stored'.resource = resource'
  BY DEF Stored
<1>4. /\ \A r \in Resources : resource'[r].acl \subseteq Entries
      /\ \A p \in Parties : party'[p] # NoObj => party'[p].acl \subseteq Entries
  <2>1. Stored' \in Database
    BY DEF TypeOK, WellTyped
  <2>2. resource' \in [Resources -> Resource] /\ party' \in [Parties -> Party \cup {NoObj}]
    BY <1>3, <2>1 DEF Database
  <2>3. \A r \in Resources : resource'[r].acl \subseteq Entries
    BY <2>2 DEF Resource
  <2>4. \A p \in Parties : party'[p] # NoObj => party'[p].acl \subseteq Entries
    BY <2>2 DEF Party
  <2> QED BY <2>3, <2>4
<1>5. \A v, w \in Views : Agree(v, w)
  BY DEF HomeInv
<1>6. \A w \in Views : Agree(Stored', w)
  <2> SUFFICES ASSUME NEW w \in Views PROVE Agree(Stored', w)
    OBVIOUS
  <2>1. ASSUME NEW r \in Resources, NEW e \in resource'[r].acl, w.entry[e] # NoObj
        PROVE  w.entry[e].resource = r
    <3>1. e \notin new
      BY <2>1, NewIdsUnseen DEF Follows
    <3>2. PICK v \in Views : e \in v.resource[r].acl
      BY <2>1, <3>1 DEF Follows
    <3> QED BY <1>5, <2>1, <3>2 DEF Agree
  <2>2. ASSUME NEW p \in Parties, party'[p] # NoObj, NEW e \in party'[p].acl,
               w.entry[e] # NoObj
        PROVE  w.entry[e].party = p
    <3>1. e \notin new
      BY <2>2, NewIdsUnseen DEF Follows
    <3>2. PICK v \in Views : v.party[p] # NoObj /\ e \in v.party[p].acl
      BY <2>2, <3>1 DEF Follows
    <3> QED BY <1>5, <2>2, <3>2 DEF Agree
  <2> QED BY <1>3, <2>1, <2>2 DEF Agree
<1>7. \A v \in Views : Agree(v, Stored')
  <2> SUFFICES ASSUME NEW v \in Views PROVE Agree(v, Stored')
    OBVIOUS
  <2>1. ASSUME NEW r \in Resources, NEW e \in v.resource[r].acl, entry'[e] # NoObj
        PROVE  entry'[e].resource = r
    <3>1. e \in Entries
      BY <1>2, ViewIds
    <3>2. e \notin new
      BY NewIdsUnseen DEF Follows
    <3>3. PICK w \in Views : w.entry[e] # NoObj /\ w.entry[e].resource = entry'[e].resource
      BY <2>1, <3>1, <3>2 DEF Follows
    <3> QED BY <1>5, <3>3 DEF Agree
  <2>2. ASSUME NEW p \in Parties, v.party[p] # NoObj, NEW e \in v.party[p].acl,
               entry'[e] # NoObj
        PROVE  entry'[e].party = p
    <3>1. e \in Entries
      BY <1>2, <2>2, ViewIds
    <3>2. e \notin new
      BY <2>2, NewIdsUnseen DEF Follows
    <3>3. PICK w \in Views : w.entry[e] # NoObj /\ w.entry[e].party = entry'[e].party
      BY <2>2, <3>1, <3>2 DEF Follows
    <3> QED BY <1>5, <2>2, <3>3 DEF Agree
  <2> QED BY <1>3, <2>1, <2>2 DEF Agree
<1>8. Agree(Stored', Stored')
  <2>1. ASSUME NEW r \in Resources, NEW e \in resource'[r].acl, entry'[e] # NoObj
        PROVE  entry'[e].resource = r
    <3>1. e \in Entries
      BY <1>4
    <3>2. CASE e \in new
      <4>1. \A v \in Views : e \notin v.resource[r].acl /\ v.entry[e] = NoObj
        BY <3>2, NewIdsUnseen DEF Follows
      <4> QED BY <2>1, <3>1, <4>1 DEF Follows
    <3>3. CASE e \notin new
      <4>1. PICK v \in Views : e \in v.resource[r].acl
        BY <3>3 DEF Follows
      <4>2. PICK w \in Views : w.entry[e] # NoObj /\ w.entry[e].resource = entry'[e].resource
        BY <2>1, <3>1, <3>3 DEF Follows
      <4> QED BY <1>5, <4>1, <4>2 DEF Agree
    <3> QED BY <3>2, <3>3
  <2>2. ASSUME NEW p \in Parties, party'[p] # NoObj, NEW e \in party'[p].acl,
               entry'[e] # NoObj
        PROVE  entry'[e].party = p
    <3>1. e \in Entries
      BY <1>4, <2>2
    <3>2. CASE e \in new
      <4>1. \A v \in Views : /\ v.party[p] # NoObj => e \notin v.party[p].acl
                             /\ v.entry[e] = NoObj
        BY <3>2, NewIdsUnseen DEF Follows
      <4> QED BY <2>2, <3>1, <4>1 DEF Follows
    <3>3. CASE e \notin new
      <4>1. PICK v \in Views : v.party[p] # NoObj /\ e \in v.party[p].acl
        BY <2>2, <3>3 DEF Follows
      <4>2. PICK w \in Views : w.entry[e] # NoObj /\ w.entry[e].party = entry'[e].party
        BY <2>2, <3>1, <3>3 DEF Follows
      <4> QED BY <1>5, <4>1, <4>2 DEF Agree
    <3> QED BY <3>2, <3>3
  <2> QED BY <1>3, <2>1, <2>2 DEF Agree
<1>9. \A v, w \in Views' : Agree(v, w)
  BY <1>1, <1>5, <1>6, <1>7, <1>8
<1>10. (\A v, w \in Views : Agree(v, w))'
  BY <1>9 DEF Agree
<1> QED BY <1>10 DEF HomeInv
-----------------------------------------------------------------------------
\* A commit is such a step when it shortens the lists that were read, except
\* for adding new ids, and leaves an entry the resource and party it has.
LEMMA CommitFollows ==
    ASSUME TypeOK, NEW s \in Requests, req[s] # Idle, NEW we, NEW wp, NEW wr,
           Commit(s, we, wp, wr), NEW new \in SUBSET NewIds, NEW t, NEW q,
           \A r \in (DOMAIN wr) \cap Resources : \A e \in wr[r].acl :
              e \in req[s].view.resource[r].acl \/ (e \in new /\ r = t),
           \A p \in (DOMAIN wp) \cap Parties : \A e \in wp[p].acl :
              \/ req[s].view.party[p] # NoObj /\ e \in req[s].view.party[p].acl
              \/ e \in new /\ p = q,
           \A e \in (DOMAIN we) \cap Entries : we[e] # NoObj =>
              \/ /\ req[s].view.entry[e] # NoObj
                 /\ req[s].view.entry[e].resource = we[e].resource
                 /\ req[s].view.entry[e].party = we[e].party
              \/ e \in new /\ we[e].resource = t /\ we[e].party = q
    PROVE  Follows(new, t, q)
<1>1. /\ \A e \in Entries : entry'[e] = IF e \in DOMAIN we THEN we[e] ELSE entry[e]
      /\ \A p \in Parties : party'[p] = IF p \in DOMAIN wp THEN wp[p] ELSE party[p]
      /\ \A r \in Resources :
            resource'[r] = IF r \in DOMAIN wr THEN wr[r] ELSE resource[r]
  BY CommitReads
<1>2. req[s].view \in Views /\ Stored \in Views
  BY DEF Views
<1>3. Stored.entry = entry /\ Stored.party = party /\ Stored.resource = resource
  BY DEF Stored
<1>4. \A r \in Resources : \A e \in resource'[r].acl :
         (\E v \in Views : e \in v.resource[r].acl) \/ (e \in new /\ r = t)
  BY <1>1, <1>2, <1>3
<1>5. \A p \in Parties : party'[p] # NoObj => \A e \in party'[p].acl :
         \/ \E v \in Views : v.party[p] # NoObj /\ e \in v.party[p].acl
         \/ e \in new /\ p = q
  BY <1>1, <1>2, <1>3
<1>6. \A e \in Entries : entry'[e] # NoObj =>
         \/ \E v \in Views : /\ v.entry[e] # NoObj
                             /\ v.entry[e].resource = entry'[e].resource
                             /\ v.entry[e].party = entry'[e].party
         \/ e \in new /\ entry'[e].resource = t /\ entry'[e].party = q
  BY <1>1, <1>2, <1>3
<1>7. \A u \in Requests : req'[u] # Idle => req'[u] = req[u]
  BY DEF Commit, TypeOK
<1> QED BY <1>4, <1>5, <1>6, <1>7 DEF Follows
-----------------------------------------------------------------------------
(***************************************************************************)
(* Each handler takes such a step.                                         *)
(***************************************************************************)
Follow == \E new \in SUBSET NewIds, t \in Resources, q \in Parties : Follows(new, t, q)

LEMMA CreateEntryFollows ==
    ASSUME TypeOK, NEW s \in Requests, req[s] # Idle,
           NEW r \in Resources, NEW p \in Parties, NEW m \in Masks,
           req[s].view.party[p] # NoObj, dbCreateACLEntry(s, r, p, m)
    PROVE  Follow
<1> DEFINE v == req[s].view
<1>1. PICK e \in NewIds :
        Commit(s, Only(e, [resource |-> r, party |-> p, mask |-> m]),
                  Only(p, [v.party[p] EXCEPT !.acl = @ \cup {e}]),
                  Only(r, [v.resource[r] EXCEPT !.acl = @ \cup {e}]))
  BY DEF dbCreateACLEntry
<1> DEFINE rec == [resource |-> r, party |-> p, mask |-> m]
           pty == [v.party[p] EXCEPT !.acl = @ \cup {e}]
           res == [v.resource[r] EXCEPT !.acl = @ \cup {e}]
<1>2. rec.resource = r /\ rec.party = p
  OBVIOUS
<1>3. pty.acl = v.party[p].acl \cup {e}
  BY ViewTyping DEF Party
<1>4. res.acl = v.resource[r].acl \cup {e}
  BY ViewTyping DEF Resource
<1>5. Commit(s, Only(e, rec), Only(p, pty), Only(r, res))
  BY <1>1
<1> HIDE DEF rec, pty, res
<1>6. \A x, obj, y : y \in DOMAIN Only(x, obj) => y = x /\ Only(x, obj)[y] = obj
  BY DEF Only
<1> DEFINE we == Only(e, rec)
           wp == Only(p, pty)
           wr == Only(r, res)
<1>7. \A y \in DOMAIN wr : \A f \in wr[y].acl :
         f \in v.resource[y].acl \/ (f \in {e} /\ y = r)
  BY <1>4, <1>6
<1>8. \A y \in DOMAIN wp : \A f \in wp[y].acl :
         (v.party[y] # NoObj /\ f \in v.party[y].acl) \/ (f \in {e} /\ y = p)
  BY <1>3, <1>6
<1>9. \A f \in DOMAIN we : f \in {e} /\ we[f].resource = r /\ we[f].party = p
  BY <1>2, <1>6
<1> HIDE DEF we, wp, wr
<1>10. Commit(s, we, wp, wr)
  BY <1>5 DEF we, wp, wr
<1>11. {e} \in SUBSET NewIds
  OBVIOUS
<1>12. Follows({e}, r, p)
  BY <1>7, <1>8, <1>9, <1>10, <1>11, CommitFollows
<1> QED BY <1>11, <1>12 DEF Follow

\* A commit that adds no id.
LEMMA CommitFollowsNothingNew ==
    ASSUME TypeOK, NEW s \in Requests, req[s] # Idle, NEW we, NEW wp, NEW wr,
           Commit(s, we, wp, wr),
           \A r \in (DOMAIN wr) \cap Resources :
              wr[r].acl \subseteq req[s].view.resource[r].acl,
           \A p \in (DOMAIN wp) \cap Parties :
              \/ wp[p].acl = {}
              \/ req[s].view.party[p] # NoObj /\ wp[p].acl \subseteq req[s].view.party[p].acl,
           \A e \in (DOMAIN we) \cap Entries : we[e] # NoObj =>
              /\ req[s].view.entry[e] # NoObj
              /\ req[s].view.entry[e].resource = we[e].resource
              /\ req[s].view.entry[e].party = we[e].party
    PROVE  Follow
<1>1. Realm \in Resources /\ Admin \in Parties /\ {} \in SUBSET NewIds
  BY AccessAssumption DEF Parties
<1>2. Follows({}, Realm, Admin)
  BY <1>1, CommitFollows
<1> QED BY <1>1, <1>2 DEF Follow
LEMMA PermissionFollows ==
    ASSUME TypeOK, NEW s \in Requests,
           NEW r \in Resources, NEW p \in Parties, NEW m \in Masks,
           SetPermission(s, r, p, m) \/ AddPermission(s, r, p, m)
    PROVE  Follow
<1> DEFINE v == req[s].view
<1>1. req[s] # Idle /\ v.party[p] # NoObj
  BY DEF SetPermission, AddPermission, authorizeHandlerAction
<1>2. CASE dbCreateACLEntry(s, r, p, m)
  BY <1>1, <1>2, CreateEntryFollows
<1>3. ASSUME NEW e \in EntriesFor(v, p, r), NEW mask, setPermissionMask(s, e, mask)
      PROVE  Follow
  <2> DEFINE rec == [v.entry[e] EXCEPT !.mask = mask]
             we == Only(e, rec)
  <2>1. Commit(s, we, Nothing, Nothing)
    BY <1>3 DEF setPermissionMask
  <2>2. v.entry[e] # NoObj /\ v.entry[e].resource = r
    BY <1>3 DEF EntriesFor
  <2>3. e \in Entries
    BY <1>1, ViewTyping DEF EntriesFor, Party
  <2>4. v.entry[e] \in ACLEntry
    BY <1>1, <2>2, <2>3, ViewTyping
  <2>5. rec.resource = v.entry[e].resource /\ rec.party = v.entry[e].party
    BY <2>4 DEF ACLEntry
  <2>6. DOMAIN Nothing = {}
    BY DEF Nothing
  <2> HIDE DEF rec
  <2>7. \A f \in DOMAIN we : f = e /\ we[f] = rec
    BY DEF Only
  <2> HIDE DEF we
  <2> QED BY <1>1, <2>1, <2>2, <2>5, <2>6, <2>7, CommitFollowsNothingNew
<1> QED BY <1>2, <1>3 DEF SetPermission, AddPermission

LEMMA RemPermissionFollows ==
    ASSUME TypeOK, NEW s \in Requests, NEW r \in Resources, NEW p \in Parties,
           RemPermission(s, r, p)
    PROVE  Follow
<1> DEFINE v == req[s].view
           m == Matches(v, r, p)
           wp == IF m = {} THEN Nothing
                 ELSE Only(p, [v.party[p] EXCEPT !.acl = @ \ m])
<1>1. req[s] # Idle /\ v.party[p] # NoObj
  BY DEF RemPermission, authorizeHandlerAction
<1>2. PICK gone \in Removals(v, r, p) :
        Commit(s, Gone(m), wp, Only(r, [v.resource[r] EXCEPT !.acl = @ \ gone]))
  BY DEF RemPermission
<1> DEFINE res == [v.resource[r] EXCEPT !.acl = @ \ gone]
           pty == [v.party[p] EXCEPT !.acl = @ \ m]
           wr == Only(r, res)
<1>3. \A x \in DOMAIN Gone(m) : Gone(m)[x] = NoObj
  BY DEF Gone
<1>4. pty.acl \subseteq v.party[p].acl
  BY <1>1, ViewTyping DEF Party
<1>5. res.acl \subseteq v.resource[r].acl
  BY <1>1, ViewTyping DEF Resource
<1>6. Commit(s, Gone(m), wp, wr)
  BY <1>2
<1>7. wp = Nothing \/ wp = Only(p, pty)
  OBVIOUS
<1> HIDE DEF m, wp, pty, res
<1>8. \A x \in DOMAIN wp : x = p /\ wp[x] = pty
  BY <1>7 DEF Only, Nothing
<1>9. \A x \in DOMAIN wr : x = r /\ wr[x] = res
  BY DEF Only
<1> HIDE DEF wr
<1> QED BY <1>1, <1>3, <1>4, <1>5, <1>6, <1>8, <1>9, CommitFollowsNothingNew

LEMMA CreateGroupFollows ==
    ASSUME TypeOK, NEW s \in Requests, NEW g \in Groups, NEW addMe \in BOOLEAN,
           CreateGroup(s, g, addMe)
    PROVE  Follow
<1> DEFINE v == req[s].view
           u == req[s].user
           group == [acl |-> {}, links |-> IF addMe THEN {u} ELSE {}]
           member == [v.party[u] EXCEPT !.links = @ \cup {g}]
           res == [v.resource[Realm] EXCEPT !.groups = @ \cup {g}]
           wp == [p \in {g} \cup (IF addMe THEN {u} ELSE {}) |->
                    IF p = g THEN group ELSE member]
           wr == Only(Realm, res)
<1>1. req[s] # Idle /\ Commit(s, Nothing, wp, wr)
  BY DEF CreateGroup, authorizeHandlerAction
<1>2. u \in Parties /\ v.party[u] # NoObj
  BY <1>1, ViewTyping DEF Parties
<1>3. group.acl = {}
  OBVIOUS
<1>4. member.acl = v.party[u].acl
  BY <1>1, <1>2, ViewTyping DEF Party
<1>5. res.acl = v.resource[Realm].acl
  BY <1>1, ViewTyping, AccessAssumption DEF Resource
<1> HIDE DEF group, member, res
<1>6. \A x \in DOMAIN wp : wp[x] = group \/ (x = u /\ wp[x] = member)
  OBVIOUS
<1>7. \A x \in DOMAIN wr : x = Realm /\ wr[x] = res
  BY DEF Only
<1>8. DOMAIN Nothing = {}
  BY DEF Nothing
<1> HIDE DEF wp, wr
<1> QED BY <1>1, <1>2, <1>3, <1>4, <1>5, <1>6, <1>7, <1>8, CommitFollowsNothingNew

LEMMA MembershipFollows ==
    ASSUME TypeOK, NEW s \in Requests, NEW g \in Groups, NEW u \in Users,
           AddGroupUser(s, g, u) \/ RemGroupUser(s, g, u)
    PROVE  Follow
<1> DEFINE v == req[s].view
           add == [p \in {g, u} |->
                     [v.party[p] EXCEPT !.links = @ \cup ({g, u} \ {p})]]
           rem == Only(g, [v.party[g] EXCEPT !.links = @ \ {u}])
<1>1. /\ req[s] # Idle /\ v.party[g] # NoObj
      /\ Commit(s, Nothing, add, Nothing) \/ Commit(s, Nothing, rem, Nothing)
  BY DEF AddGroupUser, RemGroupUser, authorizeHandlerAction
<1>2. g \in Parties /\ u \in Parties /\ v.party[u] # NoObj
  BY <1>1, ViewTyping DEF Parties
<1>3. v.party[g] \in Party /\ v.party[u] \in Party
  BY <1>1, <1>2, ViewTyping
<1>4. DOMAIN Nothing = {}
  BY DEF Nothing
<1>5. [v.party[g] EXCEPT !.links = @ \ {u}].acl = v.party[g].acl
  BY <1>3 DEF Party
<1> HIDE DEF v
<1>6. \A x \in DOMAIN add : x \in {g, u} /\ add[x].acl = v.party[x].acl
  BY <1>3 DEF Party
<1>7. \A x \in DOMAIN rem : x = g /\ rem[x].acl = v.party[x].acl
  BY <1>5 DEF Only
<1> HIDE DEF add, rem
<1>8. CASE Commit(s, Nothing, add, Nothing)
  BY <1>1, <1>2, <1>4, <1>6, <1>8, CommitFollowsNothingNew DEF v
<1>9. CASE Commit(s, Nothing, rem, Nothing)
  BY <1>1, <1>2, <1>4, <1>7, <1>9, CommitFollowsNothingNew DEF v
<1> QED BY <1>1, <1>8, <1>9

LEMMA DeleteGroupFollows ==
    ASSUME TypeOK, NEW s \in Requests, NEW g \in Groups, DeleteGroup(s, g)
    PROVE  Follow
<1> DEFINE v == req[s].view
           touched == {v.entry[e].resource : e \in v.party[g].acl}
           ids == UNION {Matches(v, r, g) : r \in touched}
           wp == Only(g, [acl |-> v.party[g].acl \ ids, links |-> {}])
           wr(gone) == [r \in touched \cup {Realm} |->
                          [acl |-> IF r \in touched THEN v.resource[r].acl \ gone[r]
                                                    ELSE v.resource[r].acl,
                           groups |-> IF r = Realm THEN v.resource[r].groups \ {g}
                                                   ELSE v.resource[r].groups]]
<1>1. req[s] # Idle /\ v.party[g] # NoObj
  BY DEF DeleteGroup, authorizeHandlerAction
<1>2. PICK gone \in [touched -> SUBSET Entries] : Commit(s, Gone(ids), wp, wr(gone))
  BY DEF DeleteGroup
<1>3. \A x \in DOMAIN Gone(ids) : Gone(ids)[x] = NoObj
  BY DEF Gone
<1> HIDE DEF ids, touched, v
<1>4. \A x \in DOMAIN wp : x = g /\ wp[x].acl \subseteq v.party[g].acl
  BY DEF Only
<1>5. \A x \in DOMAIN wr(gone) : wr(gone)[x].acl \subseteq v.resource[x].acl
  OBVIOUS
<1> HIDE DEF wp, wr
<1> QED BY <1>1, <1>2, <1>3, <1>4, <1>5, CommitFollowsNothingNew DEF v

LEMMA DeactivateFollows ==
    ASSUME TypeOK, NEW s \in Requests, DeactivateRealm(s)
    PROVE  Follow
<1> DEFINE v == req[s].view
           ids == UNION {v.resource[r].acl : r \in Resources}
           owners == {v.entry[e].party : e \in ids}
           parties == Users \cup v.resource[Realm].groups \cup owners
           wp == [p \in parties |-> [v.party[p] EXCEPT !.acl = @ \ ids]]
           wr == [r \in Resources |-> [v.resource[r] EXCEPT !.acl = {}]]
<1>1. /\ req[s] # Idle
      /\ \A p \in parties : v.party[p] # NoObj
      /\ Commit(s, Gone(ids), wp, wr)
  BY DEF DeactivateRealm, authorizeHandlerAction
<1>2. \A p \in Parties : v.party[p] # NoObj => v.party[p] \in Party
  BY <1>1, ViewTyping
<1>3. v.resource \in [Resources -> Resource]
  BY <1>1, ViewTyping
<1>4. \A x \in DOMAIN Gone(ids) : Gone(ids)[x] = NoObj
  BY DEF Gone
<1> HIDE DEF ids, owners, parties, v
<1>5. \A x \in Resources : wr[x].acl = {}
  BY <1>3 DEF Resource
<1>6. \A x \in (DOMAIN wp) \cap Parties :
         v.party[x] # NoObj /\ wp[x].acl \subseteq v.party[x].acl
  BY <1>1, <1>2 DEF Party
<1> HIDE DEF wp, wr
<1> QED BY <1>1, <1>4, <1>5, <1>6, CommitFollowsNothingNew DEF v

LEMMA BeginFollows ==
    ASSUME TypeOK, HomeInv, NEW s \in Requests,
           (\E u \in Users : Begin(s, u)) \/ Abandon(s)
    PROVE  (\A v, w \in Views : Agree(v, w))'
<1>1. Stored' = Stored
  BY DEF Begin, Abandon, Stored
<1>2. \A t \in Requests : \/ req'[t] = Idle
                          \/ req'[t] = req[t]
                          \/ req'[t].view = Stored
  BY DEF Begin, Abandon, TypeOK
<1>3. \A v \in Views' : v \in Views
  BY <1>1, <1>2 DEF Views
<1>4. \A v, w \in Views' : Agree(v, w)
  BY <1>3 DEF HomeInv
<1> QED BY <1>4 DEF Agree

-----------------------------------------------------------------------------
LEMMA InitHomeInv == Init => HomeInv
<1> SUFFICES ASSUME Init PROVE HomeInv
  OBVIOUS
<1>1. TypeOK
  BY InitTypeOK
<1>2. AclAgrees
  BY InitAclInv DEF AclInv
<1>3. Views = {Stored}
  BY DEF Init, Views
<1>4. Agree(Stored, Stored)
  BY <1>2 DEF Agree, AclAgrees, Stored
<1> QED BY <1>1, <1>3, <1>4 DEF HomeInv

LEMMA NextHomeInv == HomeInv /\ [Next]_vars => HomeInv'
<1> SUFFICES ASSUME HomeInv, [Next]_vars PROVE HomeInv'
  OBVIOUS
<1>1. TypeOK /\ TypeOK'
  BY NextTypeOK DEF HomeInv
<1>2. CASE UNCHANGED vars
  <2>1. Views' = Views
    BY <1>2 DEF vars, Views, Stored
  <2> QED BY <1>1, <2>1 DEF HomeInv, Agree
<1>3. ASSUME NEW s \in Requests, Step(s) PROVE HomeInv'
  <2>1. CASE (\E u \in Users : Begin(s, u)) \/ Abandon(s)
    BY <1>1, <2>1, BeginFollows DEF HomeInv
  <2>2. CASE Follow
    BY <1>1, <2>2, FollowsKeepsHome DEF Follow
  <2> QED BY <1>1, <1>3, <2>1, <2>2, PermissionFollows, RemPermissionFollows,
             CreateGroupFollows, MembershipFollows, DeleteGroupFollows,
             DeactivateFollows DEF Step
<1> QED BY <1>2, <1>3 DEF Next

\* However many requests overlap, no list leads to somebody else's entry.
THEOREM ListsLeadHome == Spec => []ListsPointHome
<1>1. HomeInv => ListsPointHome
  <2>1. HomeInv => Agree(Stored, Stored)
    BY DEF HomeInv, Views
  <2>2. Agree(Stored, Stored) => ListsPointHome
    BY DEF Agree, ListsPointHome, Stored
  <2> QED BY <2>1, <2>2
<1> QED BY <1>1, InitHomeInv, NextHomeInv, PTL DEF Spec

=============================================================================
