------------------------------- MODULE Claims -------------------------------
(***************************************************************************)
(* What the registry of the web tier promises, without requests, rows or   *)
(* tables: a host belongs to one account at a time.  An account may claim  *)
(* a host nobody has, change where its host redirects, and give it up; a   *)
(* host never goes straight from one account to another.                   *)
(***************************************************************************)
CONSTANTS Users, Hosts, Dests

VARIABLE claims   \* [host, user, target] of every claimed host

Claim == [host : Hosts, user : Users, target : Dests]

Free(h) == \A c \in claims : c.host # h

Init == claims = {}

Register(u, h, d) ==
    /\ Free(h)
    /\ claims' = claims \cup {[host |-> h, user |-> u, target |-> d]}

Retarget(c, d) ==
    /\ c \in claims
    /\ claims' = (claims \ {c}) \cup {[c EXCEPT !.target = d]}

Release(c) ==
    /\ c \in claims
    /\ claims' = claims \ {c}

Next ==
    \/ \E u \in Users, h \in Hosts, d \in Dests : Register(u, h, d)
    \/ \E c \in claims : Release(c) \/ \E d \in Dests : Retarget(c, d)

Spec == Init /\ [][Next]_claims
=============================================================================
