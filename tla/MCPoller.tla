------------------------------ MODULE MCPoller ------------------------------
(***************************************************************************)
(* TLC instances of Poller.                                                *)
(***************************************************************************)
EXTENDS Poller

\* Two watched contracts: with ChunkSize = 1, two chunks.
TwoContracts == <<"a", "b">>
OneContract == <<"a">>

=============================================================================
