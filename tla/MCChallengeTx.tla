---------------------------- MODULE MCChallengeTx ----------------------------
(***************************************************************************)
(* TLC instances of ChallengeTx: two calls, of one poke or of two.         *)
(***************************************************************************)
EXTENDS ChallengeTx

TwoCalls == {"c1", "c2"}
TwoPokes == {"p1", "p2"}

=============================================================================
