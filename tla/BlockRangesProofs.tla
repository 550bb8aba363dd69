-------------------------- MODULE BlockRangesProofs --------------------------
(***************************************************************************)
(* Proofs about BlockRanges, for every width of the word, head and limit   *)
(* of which no sum overflows the word; a limit of zero included.           *)
(***************************************************************************)
EXTENDS BlockRanges, TLAPS

(***************************************************************************)
(* Without an overflow the loop computes the end of the range as on Nat:   *)
(* the same block as RangeEnd of module Poller.                            *)
(***************************************************************************)
LEMMA EndIsPlain ==
    ASSUME NoOverflow, TypeOK, current <= latest_block, max_blocks > 0
    PROVE  /\ End = IF current + max_blocks - 1 < latest_block
                    THEN current + max_blocks - 1 ELSE latest_block
           /\ max_blocks \in Nat \ {0} /\ latest_block \in Nat /\ current \in Nat
<1>1. /\ U64 \in Nat /\ latest_block \in Nat /\ current \in Nat
      /\ max_blocks \in Nat /\ latest_block + max_blocks < U64
    BY RangesAssumption DEF NoOverflow, TypeOK
<1>2. (current + max_blocks) % U64 = current + max_blocks
    BY <1>1
<1> QED
    BY <1>1, <1>2 DEF End, WrappingAdd, WrappingDec

\* A loop that is not stuck asks for the blocks from current on, and goes past them.
LEMMA EndFacts ==
    ASSUME NoOverflow, TypeOK, Progress, ~ZeroLimit, current <= latest_block
    PROVE  /\ End \in Nat /\ current <= End /\ End <= latest_block
           /\ max_blocks > 0 => End - current < max_blocks
           /\ max_blocks = 0 => End = latest_block
           /\ WrappingAdd(End, 1) = End + 1
           /\ max_blocks \in Nat /\ latest_block \in Nat /\ current \in Nat
           /\ last_processes_block \in Nat /\ U64 \in Nat /\ latest_block + 1 < U64
<1>1. /\ U64 \in Nat /\ latest_block \in Nat /\ current \in Nat /\ max_blocks \in Nat
      /\ last_processes_block \in Nat /\ latest_block + 1 < U64
    BY RangesAssumption DEF NoOverflow, TypeOK
<1>2. \A e \in 0 .. latest_block : WrappingAdd(e, 1) = e + 1
    BY <1>1 DEF WrappingAdd
<1>3. CASE max_blocks > 0
    BY <1>1, <1>2, <1>3, EndIsPlain
<1>4. CASE max_blocks = 0
    <2>1. current = 0
        BY <1>1, <1>4 DEF Progress, ZeroLimit
    <2>2. WrappingAdd(current, max_blocks) = 0
        BY <1>1, <1>4, <2>1 DEF WrappingAdd
    <2>3. End = latest_block
        BY <1>1, <2>2 DEF End, WrappingDec
    <2> QED
        BY <1>1, <1>2, <1>4, <2>1, <2>3
<1> QED
    BY <1>1, <1>3, <1>4

\* A loop that is stuck asks for the block before its start, up to its start.
LEMMA EndWhenStuck ==
    ASSUME TypeOK, ZeroLimit, Stuck
    PROVE  End = current - 1 /\ WrappingAdd(End, 1) = current
<1>1. /\ current \in Nat /\ current > 0 /\ current < U64 /\ latest_block < U64
      /\ U64 \in Nat /\ latest_block \in Nat /\ max_blocks = 0 /\ current <= latest_block
    BY RangesAssumption DEF TypeOK, ZeroLimit, Stuck
<1>2. current % U64 = current
    BY <1>1
<1> QED
    BY <1>1, <1>2 DEF End, WrappingAdd, WrappingDec

(***************************************************************************)
(* The type invariant, which takes no assumption on the sums: they wrap.   *)
(***************************************************************************)
LEMMA EndTyped == TypeOK => End \in 0 .. latest_block /\ WrappingAdd(End, 1) \in 0 .. U64 - 1
<1> SUFFICES ASSUME TypeOK PROVE End \in 0 .. latest_block /\ WrappingAdd(End, 1) \in 0 .. U64 - 1
    OBVIOUS
<1>1. U64 \in Nat \ {0} /\ latest_block \in Nat /\ current + max_blocks \in Nat
    BY RangesAssumption DEF TypeOK
<1>2. WrappingAdd(current, max_blocks) \in 0 .. U64 - 1
    BY <1>1 DEF WrappingAdd
<1>3. WrappingDec(WrappingAdd(current, max_blocks)) \in Nat
    BY <1>1, <1>2 DEF WrappingDec
<1>4. End \in 0 .. latest_block
    BY <1>1, <1>3 DEF End
<1>5. (End + 1) % U64 \in 0 .. U64 - 1
    BY <1>1, <1>4
<1> QED
    BY <1>4, <1>5 DEF WrappingAdd

LEMMA TypeInit == Init => TypeOK
<1> SUFFICES ASSUME Init PROVE TypeOK
    OBVIOUS
<1>1. latest_block \in 0 .. U64 - 1 /\ last_processes_block \in 0 .. U64 - 1 /\ U64 \in Nat
    BY RangesAssumption DEF Init
<1> QED
    BY <1>1 DEF Init, TypeOK

LEMMA TypeStep == TypeOK /\ [Next]_vars => TypeOK'
<1> SUFFICES ASSUME TypeOK, [Next]_vars PROVE TypeOK'
    OBVIOUS
<1>1. CASE PushRange
    <2>1. <<current, End>> \in (0 .. latest_block) \X (0 .. latest_block)
        BY <1>1, EndTyped, RangesAssumption DEF PushRange, TypeOK
    <2>2. /\ UNCHANGED <<last_processes_block, latest_block, max_blocks, done>>
          /\ ranges' = ranges \cup {<<current, End>>} /\ current' = WrappingAdd(End, 1)
        BY <1>1 DEF PushRange, inputs
    <2> QED
        BY <2>1, <2>2, EndTyped DEF TypeOK
<1>2. CASE LeaveLoop \/ UNCHANGED vars
    BY <1>2 DEF LeaveLoop, vars, inputs, TypeOK
<1> QED
    BY <1>1, <1>2 DEF Next

\* Every value of the loop stays within the word, and every range below the head.
THEOREM TypeCorrect == Spec => []TypeOK
  BY TypeInit, TypeStep, PTL DEF Spec

(***************************************************************************)
(* LoopInv: the inputs tell which of the two loops it is.                  *)
(***************************************************************************)
LEMMA LoopInit == Init => LoopInv
<1> SUFFICES ASSUME Init PROVE LoopInv
    OBVIOUS
<1>1. /\ latest_block \in 0 .. U64 - 1 /\ last_processes_block \in 0 .. latest_block - 1 /\ U64 \in Nat
      /\ current = last_processes_block /\ ranges = {} /\ done = FALSE
    BY RangesAssumption DEF Init
<1>2. CASE ZeroLimit
    BY <1>1, <1>2 DEF LoopInv, Stuck
<1>3. CASE ~ZeroLimit
    <2>1. Disjoint
        BY <1>1 DEF Disjoint
    <2> QED
        BY <1>1, <1>3, <2>1 DEF LoopInv, Progress
<1> QED
    BY <1>2, <1>3

LEMMA InputsKept ==
    [Next]_vars => UNCHANGED <<last_processes_block, latest_block, max_blocks>>
  BY DEF Next, PushRange, LeaveLoop, vars, inputs

\* This half holds whether or not sums overflow.
LEMMA StuckStep ==
    ASSUME TypeOK, ZeroLimit, Stuck, [Next]_vars
    PROVE  Stuck'
<1>1. /\ current \in Nat /\ latest_block \in Nat
      /\ current = last_processes_block /\ current < latest_block /\ ~done
    BY RangesAssumption DEF Stuck, TypeOK
<1>2. ~LeaveLoop
    BY <1>1 DEF LeaveLoop
<1>3. current' = current /\ done' = done
    BY <1>2, EndWhenStuck DEF Next, PushRange, vars
<1> QED
    BY <1>1, <1>3, InputsKept DEF Stuck

LEMMA PushKeepsProgress ==
    ASSUME NoOverflow, TypeOK, Progress, ~ZeroLimit, PushRange
    PROVE  Progress'
<1> DEFINE new == <<current, End>>
<1>1. /\ current' = End + 1 /\ ranges' = ranges \cup {new}
      /\ UNCHANGED <<last_processes_block, latest_block, max_blocks, done>> /\ ~done
    BY EndFacts DEF PushRange, inputs
<1>2. /\ End \in Nat /\ current <= End /\ End <= latest_block
      /\ max_blocks > 0 => End - current < max_blocks
      /\ max_blocks = 0 => End = latest_block
      /\ current \in Nat /\ latest_block \in Nat /\ latest_block + 1 < U64 /\ U64 \in Nat
      /\ last_processes_block \in Nat
    BY EndFacts DEF PushRange
<1>3. new[1] = current /\ new[2] = End
    OBVIOUS
<1>5. ASSUME NEW b \in 0 .. U64 - 1
      PROVE  (\E r \in ranges' : Within(b, r)) <=> (last_processes_block <= b /\ b < current')
    <2>1. (\E r \in ranges : Within(b, r)) <=> (last_processes_block <= b /\ b < current)
        BY DEF Progress
    <2>2. Within(b, new) <=> (current <= b /\ b <= End)
        BY <1>3 DEF Within
    <2>3. (\E r \in ranges' : Within(b, r)) <=> ((\E r \in ranges : Within(b, r)) \/ Within(b, new))
        BY <1>1
    <2>4. last_processes_block <= current
        BY DEF Progress
    <2> QED
        BY <1>1, <1>2, <2>1, <2>2, <2>3, <2>4
<1>6. \A r \in ranges : r[2] < current /\ r[1] \in Nat /\ r[2] \in Nat
    BY DEF Progress, TypeOK
<1>7. \A r \in ranges' : r[2] < current'
    BY <1>1, <1>2, <1>3, <1>6
<1>8. Disjoint'
    <2> SUFFICES ASSUME max_blocks > 0 PROVE Disjoint'
        BY <1>1 DEF Disjoint
    <2>1. \A r \in ranges : /\ r[1] <= r[2] /\ r[2] - r[1] < max_blocks
                            /\ \A s \in ranges : r # s => r[2] < s[1] \/ s[2] < r[1]
        BY DEF Progress, Disjoint
    <2>2. \A r \in ranges : r[2] < new[1]
        BY <1>3, <1>6
    <2>3. new[1] <= new[2] /\ new[2] - new[1] < max_blocks
        BY <1>2, <1>3
    <2> QED
        BY <1>1, <2>1, <2>2, <2>3 DEF Disjoint
<1>9. /\ last_processes_block <= current' /\ current' <= latest_block + 1
      /\ last_processes_block < latest_block
      /\ max_blocks = 0 => current' = latest_block + 1
    BY <1>1, <1>2 DEF Progress
<1> QED
    BY <1>1, <1>5, <1>7, <1>8, <1>9 DEF Progress

LEMMA ProgressStep ==
    ASSUME NoOverflow, TypeOK, Progress, ~ZeroLimit, [Next]_vars
    PROVE  Progress'
<1>1. CASE PushRange
    BY <1>1, PushKeepsProgress
<1>2. CASE LeaveLoop \/ UNCHANGED vars
    <2>1. /\ UNCHANGED <<last_processes_block, latest_block, max_blocks, current, ranges>>
          /\ done' => done \/ current > latest_block
        BY <1>2 DEF LeaveLoop, inputs, vars
    <2> QED
        BY <2>1 DEF Progress, Disjoint, Within
<1> QED
    BY <1>1, <1>2 DEF Next

LEMMA LoopInvariant == NoOverflow => (Spec => [](TypeOK /\ LoopInv))
<1> SUFFICES ASSUME NoOverflow PROVE Spec => [](TypeOK /\ LoopInv)
    OBVIOUS
<1>1. Init => TypeOK /\ LoopInv
    BY TypeInit, LoopInit
<1>2. TypeOK /\ LoopInv /\ [Next]_vars => TypeOK' /\ LoopInv'
    <2> SUFFICES ASSUME TypeOK, LoopInv, [Next]_vars PROVE LoopInv'
        BY TypeStep
    <2>1. ZeroLimit' <=> ZeroLimit
        BY InputsKept DEF ZeroLimit
    <2> QED
        BY <2>1, StuckStep, ProgressStep DEF LoopInv
<1> QED
    BY <1>1, <1>2, PTL DEF Spec

(***************************************************************************)
(* Every block of the poll's range is in a sub-range, and no other block   *)
(* is, when the loop ends; for a limit of zero, it ends only where it      *)
(* starts at block 0, with one range of all blocks.                        *)
(***************************************************************************)
THEOREM RangesTile == NoOverflow => (Spec => []Tiles)
<1> SUFFICES ASSUME NoOverflow PROVE Spec => []Tiles
    OBVIOUS
<1>1. TypeOK /\ LoopInv => Tiles
    <2> SUFFICES ASSUME TypeOK, LoopInv, done PROVE Tiles
        BY DEF Tiles
    <2>1. Progress
        BY DEF LoopInv, Stuck
    <2>2. current = latest_block + 1
        BY <2>1, RangesAssumption DEF Progress, TypeOK
    <2>3. \A b \in 0 .. U64 - 1 : b < latest_block + 1 <=> b <= latest_block
        BY RangesAssumption DEF TypeOK
    <2> QED
        BY <2>1, <2>2, <2>3 DEF Progress, Tiles
<1>2. Spec => [](TypeOK /\ LoopInv)
    BY LoopInvariant
<1> QED
    BY <1>1, <1>2, PTL

\* No two sub-ranges share a block, and none is wider than the limit.
THEOREM RangesAreDisjoint == NoOverflow => (Spec => []Disjoint)
<1> SUFFICES ASSUME NoOverflow PROVE Spec => []Disjoint
    OBVIOUS
<1>1. TypeOK /\ LoopInv => Disjoint
    <2>1. ASSUME TypeOK, ZeroLimit PROVE Disjoint
        BY <2>1 DEF ZeroLimit, Disjoint
    <2> QED
        BY <2>1 DEF LoopInv, Progress
<1>2. Spec => [](TypeOK /\ LoopInv)
    BY LoopInvariant
<1> QED
    BY <1>1, <1>2, PTL

(***************************************************************************)
(* What Terminates rests on, and is not fairness: but for the loop that is *)
(* stuck, every turn brings current closer to the block after the head,    *)
(* where the loop ends.                                                    *)
(***************************************************************************)
THEOREM TurnsAdvance ==
    NoOverflow => (Spec => [][~ZeroLimit /\ PushRange
                              => current < current' /\ current' <= latest_block + 1]_vars)
<1> SUFFICES ASSUME NoOverflow
             PROVE  Spec => [][~ZeroLimit /\ PushRange
                               => current < current' /\ current' <= latest_block + 1]_vars
    OBVIOUS
<1>1. ASSUME TypeOK, LoopInv, ~ZeroLimit, PushRange
      PROVE  current < current' /\ current' <= latest_block + 1
    <2>1. Progress /\ current <= latest_block /\ current' = WrappingAdd(End, 1)
        BY <1>1 DEF LoopInv, PushRange
    <2>2. /\ End \in Nat /\ current <= End /\ End <= latest_block /\ current \in Nat
          /\ latest_block \in Nat /\ WrappingAdd(End, 1) = End + 1
        BY <1>1, <2>1, EndFacts
    <2> QED
        BY <2>1, <2>2
<1>2. Spec => [](TypeOK /\ LoopInv)
    BY LoopInvariant
<1> QED
    BY <1>1, <1>2, PTL DEF Spec

(***************************************************************************)
(* --max-block-range 0 hangs the poller: unless it starts at block 0, the  *)
(* splitting of a range never ends, for any width of the word and head,    *)
(* whether or not sums overflow.                                           *)
(***************************************************************************)
THEOREM ZeroLimitNeverEnds == Spec => ZeroLimitLoops
<1>1. Init /\ ZeroLimit => TypeOK /\ ZeroLimit /\ Stuck
    BY TypeInit, LoopInit DEF LoopInv
<1>2. TypeOK /\ ZeroLimit /\ Stuck /\ [Next]_vars => TypeOK' /\ ZeroLimit' /\ Stuck'
    <2> SUFFICES ASSUME TypeOK, ZeroLimit, Stuck, [Next]_vars PROVE TypeOK' /\ ZeroLimit' /\ Stuck'
        OBVIOUS
    <2>1. ZeroLimit'
        BY InputsKept DEF ZeroLimit
    <2> QED
        BY <2>1, TypeStep, StuckStep
<1>3. Stuck => ~done
    BY DEF Stuck
<1>4. Spec /\ ZeroLimit => []~done
    BY <1>1, <1>2, <1>3, PTL DEF Spec
<1> QED
    BY <1>4 DEF ZeroLimitLoops

=============================================================================
