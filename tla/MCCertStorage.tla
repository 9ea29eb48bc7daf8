--------------------------- MODULE MCCertStorage ---------------------------
(* Instance of CertStorage for TLC: a host with two files, its www variant    *)
(* and a longer domain with one each, in the bucket's order ("." sorts before *)
(* "/"); calls on the directory of the host and on one of its files.  No name *)
(* is an object and another's directory.                                      *)
EXTENDS CertStorage, TLC

MCNames == <<<<"ca", "/", "h", ".au", "/", "crt">>,
             <<"ca", "/", "h", "/", "crt">>,
             <<"ca", "/", "h", "/", "key">>,
             <<"ca", "/", "www.", "h", "/", "crt">>>>

MCKeys == {<<"ca", "/", "h">>, <<"ca", "/", "h", "/", "crt">>}

Symmetry == Permutations(Callers)
=============================================================================
