----------------------------- MODULE MCRegistry -----------------------------
(* Instances of Registry for TLC.  One more id than rows and requests that    *)
(* may name one is never needed.                                              *)
EXTENDS Registry, TLC

Symmetry ==
    Permutations(Reqs) \cup Permutations(Users) \cup Permutations(Hosts)
        \cup Permutations(Dests) \cup Permutations(Ids)
=============================================================================
