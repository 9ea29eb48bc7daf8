----------------------------- MODULE MCMappings -----------------------------
(* Instance of Mappings for TLC: a domain and its www variant, a domain below *)
(* a suffix of two labels, one of a private registry, and an unqualified name *)
(* that both tiers refuse.                                                    *)
EXTENDS Mappings

MCNames == <<<<"example", "co", "uk">>, <<"example", "com">>,
             <<"foo", "github", "io">>, <<"localhost">>, <<"www", "example", "com">>>>
MCIcann == {<<"com">>, <<"uk">>, <<"co", "uk">>, <<"io">>}
MCPrivate == {<<"github", "io">>}
=============================================================================
