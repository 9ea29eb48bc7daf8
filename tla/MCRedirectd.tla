---------------------------- MODULE MCRedirectd ----------------------------
(* Instance of Redirectd for TLC: the object is written at most Last times,   *)
(* its contents numbered in that order.                                       *)
EXTENDS Redirectd

CONSTANT Last

MCContents == 0..Last
MCNewer(v, w) == v > w
=============================================================================
