-------------------------- MODULE MCRetriedCommands --------------------------
(***************************************************************************)
(* A small instance of RetriedCommands: two requests want one name and     *)
(* two present one token.                                                  *)
(***************************************************************************)
EXTENDS RetriedCommands, TLC

CONSTANTS c1, c2, v1, v2, alice, token

WantedHere == [q \in Requests |-> IF q \in Creators THEN alice ELSE token]

Symmetry == Permutations({c1, c2}) \cup Permutations({v1, v2})
=============================================================================
