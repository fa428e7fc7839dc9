----------------------------- MODULE MCAccounts -----------------------------
(***************************************************************************)
(* Small instances of Accounts, and the symmetry of ids and names, which   *)
(* the specification compares and nothing else.                            *)
(***************************************************************************)
EXTENDS Accounts, TLC

Symmetry == Permutations(Realms) \cup Permutations(UserIds)
            \cup Permutations(Names) \cup Permutations(Addresses)
            \cup Permutations(Passwords) \cup Permutations(SessionIds)
            \cup Permutations(Tokens) \cup Permutations(Requests)
=============================================================================
