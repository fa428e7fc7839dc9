--------------------------- MODULE AccessControl ---------------------------
(***************************************************************************)
(* Access control lists, groups, and the decision whether a user may do    *)
(* something, in one realm.                                                *)
(*                                                                         *)
(* An ACLEntry names a resource, a party (a user or a group) and a mask of *)
(* rights.  Its id is kept in two lists, that of the resource and that of  *)
(* the party; membership of a group is kept in two lists as well, the      *)
(* group's UserObjIds and the user's GroupIds.  The handlers update these  *)
(* objects one by one.                                                     *)
(*                                                                         *)
(* A request reads the stored objects when it begins and writes the ones   *)
(* it changed when it commits; RequestTransactions is about that layer.    *)
(* With a single member of Requests the requests follow one another, with  *)
(* more they overlap.  Lists of ids are sets here: their order is left out.*)
(***************************************************************************)
EXTENDS Naturals, FiniteSets

CONSTANTS
    Requests,   \* requests that may be in progress at one time
    Users,      \* ids of the user objects of the realm
    Groups,     \* ids of the groups that can be created
    Admin,      \* the user who created the realm and what is in it
    Resources,  \* the realm, its repos and their dockerfiles, images, ...
    Realm,      \* the realm, the root of the resources
    ParentOf,   \* ParentOf[r]: ParentId of a resource, NoParent for the realm
    Entries,    \* ids of ACL entries
    Masks,      \* the permission masks that clients send
    NoParent, NoObj, Idle

Rights  == {"createIn", "read", "write", "execute", "delete"}
Parties == Users \cup Groups

ASSUME AccessAssumption ==
    /\ Users \cap Groups = {}
    /\ Admin \in Users
    /\ Realm \in Resources
    /\ ParentOf \in [Resources -> Resources \cup {NoParent}]
    /\ NoParent \notin Resources
    /\ Masks \subseteq SUBSET Rights

ACLEntry == [resource : Resources, party : Parties, mask : SUBSET Rights]
Party    == [acl : SUBSET Entries, links : SUBSET Parties]
Resource == [acl : SUBSET Entries, groups : SUBSET Groups]
Database == [entry : [Entries -> ACLEntry \cup {NoObj}],
             party : [Parties -> Party \cup {NoObj}],
             resource : [Resources -> Resource]]

ASSUME SentinelAssumption ==
    /\ NoObj \notin ACLEntry \cup Party
    /\ Idle \notin [user : Users, view : Database]

VARIABLES
    entry,     \* entry[e]: the stored ACLEntry
    party,     \* party[p]: its ACLEntryIds (acl), and as links the GroupIds
               \* of a user or the UserObjIds of a group
    resource,  \* resource[r]: its ACLEntryIds; for the realm also GroupIds
    req        \* req[s]: the authenticated user, and the objects as read

vars == <<entry, party, resource, req>>

Stored == [entry |-> entry, party |-> party, resource |-> resource]

Init ==
    /\ \E first \in [Resources -> Entries] :
         /\ \A r, t \in Resources : first[r] = first[t] => r = t
         /\ entry = [e \in Entries |->
                       IF \E r \in Resources : first[r] = e
                       THEN [resource |-> CHOOSE r \in Resources : first[r] = e,
                             party |-> Admin, mask |-> Rights]
                       ELSE NoObj]
         /\ party = [p \in Parties |->
                       IF p \in Groups THEN NoObj
                       ELSE [acl |-> IF p = Admin
                                     THEN {first[r] : r \in Resources} ELSE {},
                             links |-> {}]]
         /\ resource = [r \in Resources |-> [acl |-> {first[r]}, groups |-> {}]]
    /\ req = [s \in Requests |-> Idle]

-----------------------------------------------------------------------------
(***************************************************************************)
(* The decision, on the objects v that a request has read.                 *)
(***************************************************************************)

\* partyHasAccess: one of the party's own entries for r has the right a.
partyHasAccess(v, p, a, r) ==
    \E e \in v.party[p].acl :
        /\ v.entry[e] # NoObj
        /\ v.entry[e].resource = r
        /\ a \in v.entry[e].mask

\* authorized: the user, then each group in the user's list; the resource,
\* then its parent.
authorized(v, u, a, r) ==
    \E p \in {u} \cup v.party[u].links :
        \/ partyHasAccess(v, p, a, r)
        \/ ParentOf[r] # NoParent /\ partyHasAccess(v, p, a, ParentOf[r])

\* authorizeHandlerAction, for the user of request s.
authorizeHandlerAction_Always(s, a, r) == req[s] # Idle

authorizeHandlerAction(s, a, r) ==
    req[s] # Idle /\ authorized(req[s].view, req[s].user, a, r)

(***************************************************************************)
(* Database operations.  A commit writes the changed objects over what is  *)
(* stored by then; w maps ids to objects.                                  *)
(***************************************************************************)
Overlay(f, w) == [x \in DOMAIN f |-> IF x \in DOMAIN w THEN w[x] ELSE f[x]]
Only(k, obj)  == [x \in {k} |-> obj]
Nothing       == [x \in {} |-> NoObj]

Commit(s, we, wp, wr) ==
    /\ entry' = Overlay(entry, we)
    /\ party' = Overlay(party, wp)
    /\ resource' = Overlay(resource, wr)
    /\ req' = [req EXCEPT ![s] = Idle]

\* Ids come from a counter: an id is new if nothing mentions it.
Mentioned(v) == {e \in Entries : v.entry[e] # NoObj}
                \cup (UNION {v.party[p].acl : p \in {q \in Parties : v.party[q] # NoObj}})
                \cup (UNION {v.resource[r].acl : r \in Resources})
NewIds == {e \in Entries :
             /\ e \notin Mentioned(Stored)
             /\ \A s \in Requests : req[s] # Idle => e \notin Mentioned(req[s].view)}

\* dbCreateACLEntry: the entry, then both lists.
dbCreateACLEntry_InRealm(s, r, p, m) ==
    LET v == req[s].view IN
    \E e \in NewIds :
        Commit(s, Only(e, [resource |-> r, party |-> p, mask |-> m]),
                  Only(p, [v.party[p] EXCEPT !.acl = @ \cup {e}]),
                  Only(Realm, [v.resource[Realm] EXCEPT !.acl = @ \cup {e}]))

dbCreateACLEntry(s, r, p, m) ==
    LET v == req[s].view IN
    \E e \in NewIds :
        Commit(s, Only(e, [resource |-> r, party |-> p, mask |-> m]),
                  Only(p, [v.party[p] EXCEPT !.acl = @ \cup {e}]),
                  Only(r, [v.resource[r] EXCEPT !.acl = @ \cup {e}]))

\* getACLEntryForResourceId: an entry in p's list that is for r.
EntriesFor_None(v, p, r) == {}
EntriesFor(v, p, r) ==
    {e \in v.party[p].acl : v.entry[e] # NoObj /\ v.entry[e].resource = r}

setPermissionMask(s, e, m) ==
    Commit(s, Only(e, [req[s].view.entry[e] EXCEPT !.mask = m]), Nothing, Nothing)

\* deleteAccess walks over the list of r: entries of another resource there,
\* or ids without an entry, are errors.
Readable(v, r) == \A e \in v.resource[r].acl : v.entry[e] # NoObj
Matches_AnyParty(v, r, p) == v.resource[r].acl
Matches(v, r, p) == {e \in v.resource[r].acl : v.entry[e].party = p}
Deletable(v, r, p) ==
    Readable(v, r) /\ \A e \in Matches(v, r, p) : v.entry[e].resource = r

\* It removes the position of each match from a list that has been getting
\* shorter: with several matches, one of them goes and then others' entries.
Removals(v, r, p) ==
    LET m == Matches(v, r, p) IN
    IF \A a, b \in m : a = b THEN {m}
    ELSE {gone \in SUBSET v.resource[r].acl :
             Cardinality(gone) = Cardinality(m) /\ gone \cap m # {}}

Gone(ids) == [e \in ids |-> NoObj]
-----------------------------------------------------------------------------
(***************************************************************************)
(* The handlers.  Each takes one request from its begin to its commit.     *)
(***************************************************************************)

\* A request with a valid session begins, and reads what it will need.
Begin(s, u) ==
    /\ req[s] = Idle
    /\ req' = [req EXCEPT ![s] = [user |-> u, view |-> Stored]]
    /\ UNCHANGED <<entry, party, resource>>

\* The request only reads, or it is refused or fails and is aborted.
Abandon(s) ==
    /\ req[s] # Idle
    /\ req' = [req EXCEPT ![s] = Idle]
    /\ UNCHANGED <<entry, party, resource>>

SetPermission(s, r, p, m) ==
    /\ authorizeHandlerAction(s, "write", r)
    /\ LET v == req[s].view IN
       /\ v.party[p] # NoObj
       /\ \/ EntriesFor(v, p, r) = {} /\ dbCreateACLEntry(s, r, p, m)
          \/ \E e \in EntriesFor(v, p, r) : setPermissionMask(s, e, m)

AddPermission(s, r, p, m) ==
    /\ authorizeHandlerAction(s, "write", r)
    /\ LET v == req[s].view IN
       /\ v.party[p] # NoObj
       /\ \/ EntriesFor(v, p, r) = {} /\ dbCreateACLEntry(s, r, p, m)
          \/ \E e \in EntriesFor(v, p, r) :
                setPermissionMask(s, e, v.entry[e].mask \cup m)

\* deleteAccess: from the party's list, from the resource's, then the entry.
RemPermission_KeepsPartyList(s, r, p) ==
    /\ authorizeHandlerAction(s, "write", r)
    /\ LET v == req[s].view
           m == Matches(v, r, p) IN
       /\ v.party[p] # NoObj
       /\ Deletable(v, r, p)
       /\ \E gone \in Removals(v, r, p) :
            Commit(s, Gone(m), Nothing,
                      Only(r, [v.resource[r] EXCEPT !.acl = @ \ gone]))

RemPermission(s, r, p) ==
    /\ authorizeHandlerAction(s, "write", r)
    /\ LET v == req[s].view
           m == Matches(v, r, p) IN
       /\ v.party[p] # NoObj
       /\ Deletable(v, r, p)
       /\ \E gone \in Removals(v, r, p) :
            Commit(s, Gone(m),
                      IF m = {} THEN Nothing
                      ELSE Only(p, [v.party[p] EXCEPT !.acl = @ \ m]),
                      Only(r, [v.resource[r] EXCEPT !.acl = @ \ gone]))

\* createGroup: a new group in the realm's list; with AddMe the user who
\* creates it becomes a member.
CreateGroup(s, g, addMe) ==
    /\ authorizeHandlerAction(s, "createIn", Realm)
    /\ LET v == req[s].view
           u == req[s].user
           group == [acl |-> {}, links |-> IF addMe THEN {u} ELSE {}] IN
       /\ party[g] = NoObj
       /\ Commit(s, Nothing,
                 [p \in {g} \cup (IF addMe THEN {u} ELSE {}) |->
                    IF p = g THEN group
                    ELSE [v.party[u] EXCEPT !.links = @ \cup {g}]],
                 Only(Realm, [v.resource[Realm] EXCEPT !.groups = @ \cup {g}]))

\* addGroupUser: fails if either list already has the other.
AddGroupUser_WrongId(s, g, u) ==
    /\ authorizeHandlerAction(s, "write", Realm)
    /\ LET v == req[s].view IN
       /\ v.party[g] # NoObj
       /\ u \notin v.party[g].links
       /\ Commit(s, Nothing,
                 [p \in {g, u} |-> [v.party[p] EXCEPT !.links = @ \cup {u}]],
                 Nothing)

AddGroupUser(s, g, u) ==
    /\ authorizeHandlerAction(s, "write", Realm)
    /\ LET v == req[s].view IN
       /\ v.party[g] # NoObj
       /\ u \notin v.party[g].links
       /\ g \notin v.party[u].links
       /\ Commit(s, Nothing,
                 [p \in {g, u} |->
                    [v.party[p] EXCEPT !.links = @ \cup ({g, u} \ {p})]],
                 Nothing)

\* remGroupUser: only the group's list is changed.
RemGroupUser(s, g, u) ==
    /\ authorizeHandlerAction(s, "write", Realm)
    /\ LET v == req[s].view IN
       /\ v.party[g] # NoObj
       /\ u \in v.party[g].links
       /\ Commit(s, Nothing, Only(g, [v.party[g] EXCEPT !.links = @ \ {u}]), Nothing)

\* deleteGroup: the group leaves the realm's list and loses its members and
\* entries; its object and the users' GroupIds stay.  Removing the members
\* shifts the list that is being walked, which fails from three members on.
DeleteGroup_KeepsEntries(s, g) ==
    /\ authorizeHandlerAction(s, "write", Realm)
    /\ LET v == req[s].view IN
       /\ v.party[g] # NoObj
       /\ Cardinality(v.party[g].links) < 3
       /\ Commit(s, Nothing,
                 Only(g, [v.party[g] EXCEPT !.links = {}]),
                 Only(Realm, [v.resource[Realm] EXCEPT !.groups = @ \ {g}]))

DeleteGroup(s, g) ==
    /\ authorizeHandlerAction(s, "write", Realm)
    /\ LET v == req[s].view
           touched == {v.entry[e].resource : e \in v.party[g].acl}
           ids == UNION {Matches(v, r, g) : r \in touched} IN
       /\ v.party[g] # NoObj
       /\ Cardinality(v.party[g].links) < 3
       /\ \A e \in v.party[g].acl : v.entry[e] # NoObj
       /\ \A r \in touched : Deletable(v, r, g)
       /\ \E gone \in [touched -> SUBSET Entries] :
            /\ \A r \in touched : gone[r] \in Removals(v, r, g)
            /\ Commit(s, Gone(ids),
                 Only(g, [acl |-> v.party[g].acl \ ids, links |-> {}]),
                 [r \in touched \cup {Realm} |->
                    [acl |-> IF r \in touched THEN v.resource[r].acl \ gone[r]
                                              ELSE v.resource[r].acl,
                     groups |-> IF r = Realm THEN v.resource[r].groups \ {g}
                                             ELSE v.resource[r].groups]])

\* deactivateRealm: deleteAllAccessToResource for everything in the realm;
\* then every user and listed group is written, no longer active.
DeactivateRealm_OnlyRealm(s) ==
    /\ authorizeHandlerAction(s, "delete", Realm)
    /\ LET v == req[s].view
           ids == v.resource[Realm].acl
           owners == {v.entry[e].party : e \in ids} IN
       /\ Readable(v, Realm)
       /\ Commit(s, Gone(ids),
                 [p \in Users \cup v.resource[Realm].groups \cup owners |->
                    [v.party[p] EXCEPT !.acl = @ \ ids]],
                 Only(Realm, [v.resource[Realm] EXCEPT !.acl = {}]))

DeactivateRealm(s) ==
    /\ authorizeHandlerAction(s, "delete", Realm)
    /\ LET v == req[s].view
           ids == UNION {v.resource[r].acl : r \in Resources}
           owners == {v.entry[e].party : e \in ids}
           parties == Users \cup v.resource[Realm].groups \cup owners IN
       /\ \A r \in Resources : Readable(v, r)
       /\ \A p \in parties : v.party[p] # NoObj
       /\ Commit(s, Gone(ids),
                 [p \in parties |-> [v.party[p] EXCEPT !.acl = @ \ ids]],
                 [r \in Resources |-> [v.resource[r] EXCEPT !.acl = {}]])

-----------------------------------------------------------------------------
(***************************************************************************)
(* Queries, on the objects v that a request has read: what is a user's     *)
(* own.  They only read, as Abandon does.                                  *)
(***************************************************************************)

\* Each walks over the user's entries and fails if there is none under an id.
EntriesReadable(v, u) == \A e \in v.party[u].acl : v.entry[e] # NoObj
OwnResources(v, u) == {v.entry[e].resource : e \in v.party[u].acl}

Repos  == {r \in Resources : ParentOf[r] = Realm}
Leaves == Resources \ ({Realm} \cup Repos)

getMyRealms(v, u) == OwnResources(v, u) \cap {Realm}

\* The repos with an entry, and with an entry for the realm all of its repos.
getMyRepos_Direct(v, u) == OwnResources(v, u) \cap Repos
getMyRepos(v, u) ==
    (OwnResources(v, u) \cap Repos)
    \cup (IF Realm \in OwnResources(v, u) THEN Repos ELSE {})

\* The leaves with an entry, and all leaves of those repos.
getLeafResources(v, u) ==
    {r \in Leaves : r \in OwnResources(v, u) \/ ParentOf[r] \in getMyRepos(v, u)}

Listed(v, u) == getMyRealms(v, u) \cup getMyRepos(v, u) \cup getLeafResources(v, u)

Step(s) ==
    \/ \E u \in Users : Begin(s, u)
    \/ Abandon(s)
    \/ \E r \in Resources, p \in Parties :
          \/ \E m \in Masks : SetPermission(s, r, p, m) \/ AddPermission(s, r, p, m)
          \/ RemPermission(s, r, p)
    \/ \E g \in Groups :
          \/ \E addMe \in BOOLEAN : CreateGroup(s, g, addMe)
          \/ DeleteGroup(s, g)
          \/ \E u \in Users : AddGroupUser(s, g, u) \/ RemGroupUser(s, g, u)
    \/ DeactivateRealm(s)

Next == \E s \in Requests : Step(s)

Spec == Init /\ [][Next]_vars
-----------------------------------------------------------------------------
(***************************************************************************)
(* Properties.                                                             *)
(***************************************************************************)

WellTyped(v) ==
    /\ v \in Database
    /\ \A u \in Users : v.party[u] # NoObj /\ v.party[u].links \subseteq Groups
    /\ \A g \in Groups : v.party[g] # NoObj => v.party[g].links \subseteq Users

TypeOK ==
    /\ WellTyped(Stored)
    /\ req \in [Requests -> [user : Users, view : Database] \cup {Idle}]
    /\ \A s \in Requests : req[s] # Idle => WellTyped(req[s].view)

\* An id in a list is never that of somebody else's entry: the condition
\* that deleteAccess reports as an internal error never arises, even if
\* requests overlap.
ListsPointHome ==
    /\ \A r \in Resources : \A e \in resource[r].acl :
          entry[e] # NoObj => entry[e].resource = r
    /\ \A p \in Parties : party[p] # NoObj => \A e \in party[p].acl :
          entry[e] # NoObj => entry[e].party = p

\* The three records of a right - the entry, the resource's list and the
\* party's list - agree, and a party has at most one entry for a resource,
\* so that one removal removes the whole right.
AclAgrees ==
    /\ \A r \in Resources :
          resource[r].acl = {e \in Entries : entry[e] # NoObj /\ entry[e].resource = r}
    /\ \A p \in Parties : party[p] # NoObj =>
          party[p].acl = {e \in Entries : entry[e] # NoObj /\ entry[e].party = p}
    /\ \A e \in Entries : entry[e] # NoObj => party[entry[e].party] # NoObj
OneEntryPerPair ==
    \A e, f \in Entries :
        /\ entry[e] # NoObj /\ entry[f] # NoObj
        /\ entry[e].resource = entry[f].resource
        /\ entry[e].party = entry[f].party
        => e = f

\* What a party may do to a resource by its own entries, now.
RightsOf(p, r) == IF party[p] = NoObj THEN {}
                  ELSE {a \in Rights : partyHasAccess(Stored, p, a, r)}

\* What a user is shown never lags behind what the user may do: no query of
\* the user's own realms, repos, dockerfiles, images, configurations and
\* flags fails, each shows all that the user's own entries allow anything
\* on, and shows nothing without an entry for it or for what contains it.
QueriesShowRights ==
    \A u \in Users :
        /\ EntriesReadable(Stored, u)
        /\ \A r \in Resources :
              (RightsOf(u, r) # {} \/ (r # Realm /\ RightsOf(u, ParentOf[r]) # {}))
                  => r \in Listed(Stored, u)
        /\ \A r \in Listed(Stored, u) : \E e \in Entries :
              /\ entry[e] # NoObj
              /\ entry[e].party = u
              /\ entry[e].resource \in {r, ParentOf[r], Realm}

\* Nobody comes by a right unless a user who may write the resource (or what
\* contains it) gives it: no sequence of requests escalates rights.
NoEscalation ==
    [][\A p \in Parties, r \in Resources :
          RightsOf(p, r)' \subseteq RightsOf(p, r)
          \/ \E s \in Requests : req'[s] # req[s] /\ req[s] # Idle
                /\ authorized(req[s].view, req[s].user, "write", r)]_vars

\* A removal removes all that the party could do to the resource by its own
\* entries, and nothing else: every other party, and the same party on every
\* other resource, keeps its rights.
RevocationTakesEffect ==
    [][\A s \in Requests, r \in Resources, p \in Parties :
          RemPermission(s, r, p) =>
              /\ RightsOf(p, r)' = {}
              /\ \A q \in Parties, t \in Resources :
                    q # p \/ t # r => RightsOf(q, t)' = RightsOf(q, t)]_vars

\* When a group has been deleted it has no right to anything.
DeletedGroupHasNoRights ==
    [][\A g \in Groups :
          g \in resource[Realm].groups /\ g \notin resource'[Realm].groups
             => \A r \in Resources : RightsOf(g, r)' = {}]_vars

\* When a realm has been deactivated nobody has a right to anything in it,
\* groups that had been deleted and resources deep inside included.
DeactivationRemovesAll ==
    [][\A s \in Requests :
          DeactivateRealm(s) => \A p \in Parties, r \in Resources :
                                   RightsOf(p, r)' = {}]_vars

(***************************************************************************)
(* What the comments of the code say, and the code does not do.            *)
(***************************************************************************)

\* authorized: "the user belongs to a group that is explicitly the party":
\* only the members of a group have its rights.
MembersOnly ==
    \A u \in Users, a \in Rights, r \in Resources :
        authorized(Stored, u, a, r) =>
            \E p \in {u} \cup {g \in Groups : party[g] # NoObj /\ u \in party[g].links} :
                \/ partyHasAccess(Stored, p, a, r)
                \/ ParentOf[r] # NoParent /\ partyHasAccess(Stored, p, a, ParentOf[r])
=============================================================================
