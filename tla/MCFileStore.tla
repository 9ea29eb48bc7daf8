---------------------------- MODULE MCFileStore ----------------------------
(* Instance of FileStore for TLC: two domains, one of them in two spellings,  *)
(* and a host without a dot; a hand has written up to two mappings, whose     *)
(* targets are in order: those that Validate refuses come from the web tier.  *)
EXTENDS FileStore, Integers, TLC

MCHosts == {"a.com", "b.com", "localhost"}
MCDotless == {"localhost"}
MCTexts == MCHosts \cup {"A.com."}
MCNormalizeHost(x) == IF x = "A.com." THEN "a.com" ELSE x

MCSeeds ==
    {config \in SUBSET [host : MCTexts, target : Dests \ Loose] :
        /\ Cardinality(config) =< 2
        /\ \A m, n \in config : m.host = n.host => m = n}

Symmetry == Permutations(Operators) \cup Permutations(Exports)
=============================================================================
