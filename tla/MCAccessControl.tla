-------------------------- MODULE MCAccessControl --------------------------
(***************************************************************************)
(* Small instances of AccessControl: the tree of resources, the masks that *)
(* clients send, and the symmetry of the ids of ACL entries, which nothing *)
(* in the specification tells apart.                                       *)
(***************************************************************************)
EXTENDS AccessControl, TLC

CONSTANTS realm, repo, dockerfile

\* The dockerfile is in the repo, the repo in the realm.
Tree == [r \in Resources |-> CASE r = realm -> NoParent
                               [] r = repo -> realm
                               [] OTHER -> repo]

ReadOrWrite == {{"read"}, {"write"}}
WriteOnly   == {{"write"}}

EntrySymmetry == Permutations(Entries)
=============================================================================
