----------------------------- MODULE BlockRanges -----------------------------
(***************************************************************************)
(* The loop of chunk_and_poll_logs in crates/scribe/src/events_poller.rs   *)
(* that splits last_processes_block .. latest_block into sub-ranges of at  *)
(* most max_block_range blocks, in u64 arithmetic as the release build     *)
(* computes it.  Poller goes through the same sub-ranges one by one.       *)
(***************************************************************************)
EXTENDS Integers

CONSTANTS
    U64,     \* the modulus of u64 arithmetic
    Heads,   \* the heads an endpoint may report
    Limits   \* the values given to --max-block-range

ASSUME RangesAssumption ==
    /\ U64 \in Nat \ {0}
    /\ Heads \subseteq 0 .. U64 - 1 /\ Limits \subseteq 0 .. U64 - 1

VARIABLES
    last_processes_block, latest_block, max_blocks,  \* the inputs
    current, ranges,                                 \* the locals of the loop
    done

inputs == <<last_processes_block, latest_block, max_blocks>>
vars == <<inputs, current, ranges, done>>

\* Mutant of WrappingAdd: the step past the end of a range is lost.
WrappingAddIgnoresOne(a, b) == IF b = 1 THEN a ELSE (a + b) % U64

WrappingAdd(a, b) == (a + b) % U64
WrappingDec(a) == IF a = 0 THEN U64 - 1 ELSE a - 1

\* poll_for_new_events calls chunk_and_poll_logs only for a newer head.
Init ==
    /\ latest_block \in Heads /\ max_blocks \in Limits
    /\ last_processes_block \in 0 .. latest_block - 1
    /\ current = last_processes_block /\ ranges = {} /\ done = FALSE

\* Mutant of End: the last range is as wide as the others.
EndWithoutMin == WrappingDec(WrappingAdd(current, max_blocks))

\* (current + max_blocks - 1).min(latest_block)
End == LET e == WrappingDec(WrappingAdd(current, max_blocks))
       IN  IF e < latest_block THEN e ELSE latest_block

\* Mutant of PushRange: the next range starts at the last block of this one.
PushRangeSharesBlock ==
    /\ ~done /\ current <= latest_block
    /\ ranges' = ranges \cup {<<current, End>>}
    /\ current' = IF End = latest_block THEN WrappingAdd(End, 1) ELSE End
    /\ UNCHANGED <<inputs, done>>

\* The ranges are a Vec; as a range starts where no other does, a set will do.
PushRange ==
    /\ ~done /\ current <= latest_block
    /\ ranges' = ranges \cup {<<current, End>>}
    /\ current' = WrappingAdd(End, 1)
    /\ UNCHANGED <<inputs, done>>

\* Mutant of LeaveLoop: current < latest_block as the loop's condition.
LeaveLoopEarly ==
    /\ ~done /\ current >= latest_block
    /\ done' = TRUE
    /\ UNCHANGED <<inputs, current, ranges>>

LeaveLoop ==
    /\ ~done /\ current > latest_block
    /\ done' = TRUE
    /\ UNCHANGED <<inputs, current, ranges>>

Next == PushRange \/ LeaveLoop

Spec == Init /\ [][Next]_vars /\ WF_vars(Next)

-----------------------------------------------------------------------------
TypeOK ==
    /\ latest_block \in Heads /\ max_blocks \in Limits
    /\ last_processes_block \in 0 .. U64 - 1 /\ current \in 0 .. U64 - 1
    /\ ranges \subseteq (0 .. latest_block) \X (0 .. latest_block)
    /\ done \in BOOLEAN

Within(b, r) == r[1] <= b /\ b <= r[2]

(***************************************************************************)
(* When the loop ends, the sub-ranges tile the range of the poll: every    *)
(* block of it is in one of them, and nothing else is.                     *)
(***************************************************************************)
Tiles ==
    done => \A b \in 0 .. U64 - 1 :
        (\E r \in ranges : Within(b, r))
            <=> (last_processes_block <= b /\ b <= latest_block)

(***************************************************************************)
(* No block is asked for twice, and no request is wider than the limit.    *)
(***************************************************************************)
Disjoint ==
    max_blocks > 0 => \A r \in ranges :
        /\ r[1] <= r[2] /\ r[2] - r[1] < max_blocks
        /\ \A s \in ranges : r # s => r[2] < s[1] \/ s[2] < r[1]

(***************************************************************************)
(* "Splits wide ranges into multiple calls": the splitting comes to an end *)
(* for every limit but zero.                                               *)
(***************************************************************************)
Terminates == max_blocks > 0 => <>done

\* The loop does not advance.
ZeroLimit == max_blocks = 0 /\ last_processes_block > 0

(***************************************************************************)
(* With a limit of zero the end of a range is the block before its start,  *)
(* and the loop pushes this range for ever, unless it starts at block 0.   *)
(***************************************************************************)
ZeroLimitLoops == ZeroLimit => []~done

\* No sum of the loop exceeds u64: a limit near 2^64, which main() does not
\* refuse, is left out, as is a head that large.
NoOverflow == \A h \in Heads, m \in Limits : h + m < U64 /\ h + 1 < U64

\* The inductive invariant: the ranges so far tile the blocks before current.
Progress ==
    /\ last_processes_block <= current /\ current <= latest_block + 1
    /\ last_processes_block < latest_block
    /\ done => current > latest_block
    /\ \A b \in 0 .. U64 - 1 :
          (\E r \in ranges : Within(b, r)) <=> (last_processes_block <= b /\ b < current)
    /\ \A r \in ranges : r[2] < current
    /\ Disjoint
    /\ max_blocks = 0 => current \in {last_processes_block, latest_block + 1}

\* Where a limit of zero keeps the loop.
Stuck ==
    /\ current = last_processes_block /\ current < latest_block /\ ~done

LoopInv == IF ZeroLimit THEN Stuck ELSE Progress

=============================================================================
