----------------------------- MODULE MCCertLock -----------------------------
(* Instances of CertLock for TLC.  A caller that creates the lock remembers   *)
(* no generation, so as many generations as callers leave a fresh one.        *)
EXTENDS CertLock, TLC

Symmetry == Permutations(Procs) \cup Permutations(Generations)
=============================================================================
