---------------------------- MODULE MCBlockRanges ----------------------------
(***************************************************************************)
(* TLC instances of BlockRanges on a word of 16 values.                    *)
(***************************************************************************)
EXTENDS BlockRanges

MCU64 == 16
SmallHeads == 1 .. 9
SmallLimits == 0 .. 6

=============================================================================
