----------------------------- MODULE MCService -----------------------------
(* Instances of Service for TLC: an empty object to start with; hosts that    *)
(* are nobody's "www." variant, or a domain and its variant.                  *)
EXTENDS Service, TLC

NoSeed == {{}}

WwwPair == {"example.com", "www.example.com"}
BareOfPair(h) == IF h = "www.example.com" THEN "example.com" ELSE h

Symmetry ==
    Permutations(Reqs) \cup Permutations(Users) \cup Permutations(Hosts)
        \cup Permutations(Ids) \cup Permutations(Operators)
=============================================================================
