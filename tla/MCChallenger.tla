---------------------------- MODULE MCChallenger ----------------------------
(***************************************************************************)
(* TLC instance of Challenger: a poke, a success and a later poke fit in   *)
(* the chain, and one poll may fail and hand over all of it again.         *)
(***************************************************************************)
EXTENDS Challenger

LogPositions == 1 .. MaxLogs

\* The local clock agrees with the chain, is ahead, or is behind by more than a period.
Clocks == {-2, 0, 1}

=============================================================================
