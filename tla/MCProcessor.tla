----------------------------- MODULE MCProcessor -----------------------------
(***************************************************************************)
(* TLC instances of Processor: two pokes of one contract, either of which  *)
(* the poller may send again.                                              *)
(***************************************************************************)
EXTENDS Processor

TwoPokes == {"p1", "p2"}

=============================================================================
