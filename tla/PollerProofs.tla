---------------------------- MODULE PollerProofs ----------------------------
(***************************************************************************)
(* Proofs about Poller, for every list of contracts, chunk size, range,    *)
(* retry limit, channel capacity and bound on the environment.             *)
(***************************************************************************)
EXTENDS Poller, TLAPS

USE PollerAssumption

(***************************************************************************)
(* A subtraction on u64 stays a u64, whether it wraps or not.              *)
(***************************************************************************)
LEMMA FirstBlockType ==
    ASSUME last_processes_block \in Block, NEW n \in 0 .. MaxHead
    PROVE  FirstBlock(n) \in Block
  BY DEF FirstBlock, WrappingSub, Block

(***************************************************************************)
(* The type invariant.                                                     *)
(***************************************************************************)
LEMMA SomeAddress == Len(Addresses) \in Nat \ {0}
  OBVIOUS

LEMMA LogFields ==
    ASSUME TypeOK, NEW p \in Positions
    PROVE  /\ p \in LogIds
           /\ chain[p].address \in Contracts
           /\ chain[p].block \in Nat
<1>1. chain[p] \in Logs /\ p \in LogIds
    BY DEF TypeOK, Positions, LogIds
<1> QED
    BY <1>1 DEF Logs

\* The numbers are naturals, and so are the positions of the address vector.
LEMMA Numbers ==
    ASSUME TypeOK
    PROVE  /\ last_processes_block \in Nat /\ latest_block \in Nat /\ from_block \in Nat
           /\ next_address \in Nat /\ start \in Nat /\ head \in Nat
           /\ ChunkSize \in Nat \ {0} /\ DOMAIN Addresses = 1 .. Len(Addresses)
           /\ Len(Addresses) \in Nat
  BY DEF TypeOK, Block

LEMMA TypeInit == Init => TypeOK
<1> SUFFICES ASSUME Init PROVE TypeOK
    OBVIOUS
<1>1. chain \in Seq(Logs) /\ Len(chain) <= MaxLogs /\ logs = {} /\ sent = {}
    BY DEF Init
<1>2. channel \in [Contracts -> Seq(LogIds)] /\ receiving \in [Contracts -> BOOLEAN]
    BY DEF Init
<1>3. 0 \in Block /\ 1 \in 1 .. Len(Addresses)
    BY SomeAddress DEF Block
<1>4. InitLast \in Block
    BY <1>3 DEF InitLast, Block
<1>5. last_processes_block \in Block /\ start \in Block /\ from_block \in Block
    BY <1>3, <1>4 DEF Init
<1>6. failedHigh \in Block \cup {-1} /\ latest_block \in 0 .. MaxHead /\ head \in FirstHead .. MaxHead
    BY DEF Init
<1>7. /\ retry_count \in 0 .. MaxRetry
      /\ pc \in {"select", "sleep", "head", "query", "send", "stopped", "failed"}
      /\ next_address \in 1 .. Len(Addresses)
      /\ streak \in Nat /\ faults \in 0 .. MaxFaults
    BY <1>3 DEF Init
<1>8. cancelled \in BOOLEAN
    BY DEF Init
<1> QED
    BY <1>1, <1>2, <1>5, <1>6, <1>7, <1>8 DEF TypeOK

LEMMA TypeStep == TypeOK /\ [Next]_vars => TypeOK'
<1> SUFFICES ASSUME TypeOK, [Next]_vars PROVE TypeOK'
    OBVIOUS
<1> USE DEF TypeOK, Positions, chainVars, queueVars, pollVars, ghostVars
<1>1. CASE Select
    BY <1>1 DEF Select
<1>2. CASE StopOnCancel
    BY <1>2 DEF StopOnCancel
<1>3. CASE Wake
    BY <1>3 DEF Wake
<1>4. ASSUME NEW n \in MinReport .. head, ReportHead(n) PROVE TypeOK'
    <2>1. n \in 0 .. MaxHead
        OBVIOUS
    <2>2. FirstBlock(n) \in Block
        BY <2>1, FirstBlockType
    <2>3. last_processes_block' \in Block /\ start' \in Block
        BY <1>4, <2>2 DEF ReportHead
    <2>4. CASE n <= FirstBlock(n)
        BY <1>4, <2>3, <2>4 DEF ReportHead, PollSucceeds
    <2>5. CASE ~(n <= FirstBlock(n))
        BY <1>4, <2>1, <2>2, <2>3, <2>5, SomeAddress DEF ReportHead
    <2> QED
        BY <2>4, <2>5
<1>5. CASE HeadError
    BY <1>5 DEF HeadError, PollFails
<1>6. CASE QueryOk
    BY <1>6 DEF QueryOk, LogsIn
<1>7. CASE QueryError
    BY <1>7 DEF QueryError, PollFails, Block
<1>8. ASSUME NEW p \in logs, SendLog(p) PROVE TypeOK'
    <2>1. p \in LogIds /\ chain[p].address \in Contracts
        BY LogFields
    <2> QED
        BY <1>8, <2>1 DEF SendLog
<1>9. ASSUME NEW p \in logs, SkipLog(p) PROVE TypeOK'
    BY <1>9 DEF SkipLog
<1>10. CASE NextRange
    <2>1. RangeEnd(from_block) + 1 \in Block
        BY <1>10 DEF NextRange, RangeEnd, Block
    <2> QED
        BY <1>10, <2>1 DEF NextRange
<1>11. CASE NextChunk
    BY <1>11 DEF NextChunk
<1>12. CASE FinishPoll
    BY <1>12 DEF FinishPoll, PollSucceeds, Block
<1>13. ASSUME NEW a \in Contracts, NEW k \in Kinds, MineLog(a, k) PROVE TypeOK'
    <2>1. [address |-> a, block |-> head + 1, kind |-> k] \in Logs
        BY DEF Logs
    <2>2. /\ chain' \in Seq(Logs) /\ Len(chain') = Len(chain) + 1
          /\ DOMAIN chain \subseteq DOMAIN chain'
        BY <1>13, <2>1 DEF MineLog
    <2> QED
        BY <1>13, <2>2 DEF MineLog, pollerState
<1>14. CASE SealBlock
    BY <1>14 DEF SealBlock, pollerState
<1>15. CASE Cancel
    BY <1>15 DEF Cancel, pollerState
<1>16. ASSUME NEW a \in Contracts, Receive(a) PROVE TypeOK'
    BY <1>16 DEF Receive, pollerState
<1>17. ASSUME NEW a \in Contracts, CloseReceiver(a) PROVE TypeOK'
    BY <1>17 DEF CloseReceiver, pollerState
<1>18. CASE UNCHANGED vars
    BY <1>18 DEF vars
<1> QED
    BY <1>1, <1>2, <1>3, <1>4, <1>5, <1>6, <1>7, <1>8, <1>9, <1>10, <1>11, <1>12,
       <1>13, <1>14, <1>15, <1>16, <1>17, <1>18 DEF Next, PollerNext, EnvNext

\* Type correctness of the poller: all its block arithmetic stays within u64.
THEOREM TypeCorrect == Spec => []TypeOK
  BY TypeInit, TypeStep, PTL DEF Spec

-----------------------------------------------------------------------------
(***************************************************************************)
(* What the actions leave alone.                                           *)
(***************************************************************************)
USE DEF Positions

\* Only the chain's own actions change it, and they only append to it.
LEMMA ChainGrows ==
    ASSUME TypeOK, [Next]_vars
    PROVE  /\ \/ chain' = chain /\ head' = head
              \/ chain' = chain /\ head' = head + 1
              \/ \E a \in Contracts, k \in Kinds :
                    /\ chain' = Append(chain, [address |-> a, block |-> head + 1, kind |-> k])
                    /\ head' = head
           /\ \A p \in Positions : p \in Positions' /\ chain'[p] = chain[p]
<1> USE DEF TypeOK, chainVars, queueVars, pollVars, ghostVars
<1>1. ASSUME NEW a \in Contracts, NEW k \in Kinds, MineLog(a, k)
      PROVE  /\ chain' = Append(chain, [address |-> a, block |-> head + 1, kind |-> k])
             /\ head' = head
             /\ \A p \in Positions : p \in Positions' /\ chain'[p] = chain[p]
    <2>1. [address |-> a, block |-> head + 1, kind |-> k] \in Logs
        BY DEF Logs
    <2> QED
        BY <1>1, <2>1 DEF MineLog
<1>2. CASE SealBlock
    BY <1>2 DEF SealBlock
<1>3. CASE PollerNext
    <2>1. chain' = chain /\ head' = head
        BY <1>3 DEF PollerNext, Select, StopOnCancel, Wake, ReportHead, HeadError, QueryOk,
           QueryError, SendLog, SkipLog, NextRange, NextChunk, FinishPoll
    <2> QED
        BY <2>1
<1>4. CASE Cancel \/ (\E a \in Contracts : Receive(a) \/ CloseReceiver(a)) \/ UNCHANGED vars
    <2>1. chain' = chain /\ head' = head
        BY <1>4 DEF Cancel, Receive, CloseReceiver, vars
    <2> QED
        BY <2>1
<1> QED
    BY <1>1, <1>2, <1>3, <1>4 DEF Next, EnvNext

\* What was sent stays sent, and a receiver that is gone stays gone.
LEMMA HandledKept ==
    ASSUME TypeOK, [Next]_vars, NEW p \in Positions, Handled(p)
    PROVE  Handled(p)'
<1> USE DEF TypeOK, chainVars, queueVars, pollVars, ghostVars
<1>1. chain'[p] = chain[p] /\ chain[p].address \in Contracts
    BY ChainGrows, LogFields
<1>2. sent \subseteq sent'
    <2>1. CASE PollerNext
        BY <2>1 DEF PollerNext, Select, StopOnCancel, Wake, ReportHead, HeadError, QueryOk,
           QueryError, SendLog, SkipLog, NextRange, NextChunk, FinishPoll
    <2>2. CASE EnvNext \/ UNCHANGED vars
        BY <2>2 DEF EnvNext, MineLog, SealBlock, Cancel, Receive, CloseReceiver, pollerState, vars
    <2> QED
        BY <2>1, <2>2 DEF Next
<1>3. \A a \in Contracts : ~receiving[a] => ~receiving'[a]
    <2>1. CASE PollerNext
        BY <2>1 DEF PollerNext, Select, StopOnCancel, Wake, ReportHead, HeadError, QueryOk,
           QueryError, SendLog, SkipLog, NextRange, NextChunk, FinishPoll
    <2>2. ASSUME NEW b \in Contracts, CloseReceiver(b)
          PROVE  \A a \in Contracts : ~receiving[a] => ~receiving'[a]
        BY <2>2 DEF CloseReceiver
    <2>3. CASE SealBlock \/ Cancel \/ UNCHANGED vars
               \/ (\E a \in Contracts : Receive(a) \/ \E k \in Kinds : MineLog(a, k))
        BY <2>3 DEF SealBlock, Cancel, Receive, MineLog, vars
    <2> QED
        BY <2>1, <2>2, <2>3 DEF Next, EnvNext
<1> QED
    BY <1>1, <1>2, <1>3 DEF Handled

LEMMA RangeEndBounds ==
    ASSUME TypeOK, PollInv, Polling
    PROVE  /\ RangeEnd(from_block) \in Nat
           /\ from_block <= RangeEnd(from_block) /\ RangeEnd(from_block) <= latest_block
  BY DEF TypeOK, PollInv, RangeEnd, Block

-----------------------------------------------------------------------------
(***************************************************************************)
(* One lemma for each part of CoverageInv.                                 *)
(***************************************************************************)
LEMMA ChainOrderedStep ==
    ASSUME TypeOK, ChainOrdered, [Next]_vars
    PROVE  ChainOrdered'
<1> USE DEF TypeOK, ChainOrdered
<1>1. \A p \in Positions : chain[p].block \in Nat
    BY LogFields
<1>2. CASE chain' = chain /\ head' \in {head, head + 1}
    <2>1. head \in Nat /\ Positions' = Positions
        BY <1>2
    <2>2. \A p \in Positions : chain[p].block <= head' + 1
        BY <1>1, <1>2, <2>1
    <2> QED
        BY <1>2, <2>1, <2>2
<1>3. ASSUME NEW a \in Contracts, NEW k \in Kinds,
             chain' = Append(chain, [address |-> a, block |-> head + 1, kind |-> k]),
             head' = head
      PROVE  ChainOrdered'
    <2>1. /\ Positions' = Positions \cup {Len(chain) + 1}
          /\ \A p \in Positions : chain'[p] = chain[p] /\ p < Len(chain) + 1
          /\ chain'[Len(chain) + 1].block = head + 1
        BY <1>3
    <2> QED
        BY <1>1, <1>3, <2>1
<1> QED
    BY <1>2, <1>3, ChainGrows

LEMMA CursorStep ==
    ASSUME TypeOK, CursorInv, PollInv, [Next]_vars
    PROVE  CursorInv'
<1> USE DEF TypeOK, CursorInv, Block, chainVars, queueVars, pollVars, ghostVars
<1>1. ASSUME NEW n \in MinReport .. head, ReportHead(n) PROVE CursorInv'
    <2>1. FirstBlock(n) \in Block
        BY FirstBlockType
    <2> QED
        BY <1>1, <2>1 DEF ReportHead, FirstBlock
<1>2. CASE FinishPoll
    BY <1>2 DEF FinishPoll, PollInv, Polling
<1>3. CASE SealBlock
    BY <1>3 DEF SealBlock, pollerState
<1>4. CASE UNCHANGED <<start, last_processes_block, head>>
    BY <1>4
<1>5. CASE PollerNext /\ ~FinishPoll /\ \A n \in MinReport .. head : ~ReportHead(n)
    BY <1>4, <1>5 DEF PollerNext, Select, StopOnCancel, Wake, HeadError, QueryOk,
       QueryError, SendLog, SkipLog, NextRange, NextChunk
<1>6. CASE (EnvNext /\ ~SealBlock) \/ UNCHANGED vars
    BY <1>4, <1>6 DEF EnvNext, MineLog, Cancel, Receive, CloseReceiver, pollerState, vars
<1> QED
    BY <1>1, <1>2, <1>3, <1>5, <1>6 DEF Next, PollerNext

LEMMA PollStep ==
    ASSUME TypeOK, PollInv, [Next]_vars
    PROVE  PollInv'
<1> USE DEF TypeOK, PollInv, Polling, Block, chainVars, queueVars, pollVars, ghostVars
<1>1. ASSUME NEW n \in MinReport .. head, ReportHead(n) PROVE PollInv'
    <2>1. FirstBlock(n) \in Block
        BY FirstBlockType
    <2> QED
        BY <1>1, <2>1 DEF ReportHead, PollSucceeds
<1>2. CASE NextRange
    BY <1>2, RangeEndBounds DEF NextRange
<1>3. CASE NextChunk
    BY <1>3 DEF NextChunk
<1>4. CASE Select \/ StopOnCancel \/ Wake \/ HeadError \/ QueryError \/ FinishPoll
    BY <1>4 DEF Select, StopOnCancel, Wake, HeadError, QueryError, FinishPoll,
       PollFails, PollSucceeds
<1>5. CASE QueryOk \/ \E p \in logs : SendLog(p) \/ SkipLog(p)
    BY <1>5 DEF QueryOk, SendLog, SkipLog
<1>6. CASE SealBlock
    BY <1>6 DEF SealBlock, pollerState
<1>7. CASE (EnvNext /\ ~SealBlock) \/ UNCHANGED vars
    <2>1. UNCHANGED <<pc, last_processes_block, from_block, latest_block, head>>
        BY <1>7 DEF EnvNext, MineLog, Cancel, Receive, CloseReceiver, pollerState, vars
    <2> QED
        BY <2>1
<1> QED
    BY <1>1, <1>2, <1>3, <1>4, <1>5, <1>6, <1>7 DEF Next, PollerNext

\* A log that is mined now is in the block after the head.
LEMMA MinedBlock ==
    ASSUME TypeOK, [Next]_vars, NEW p \in Positions', p \notin Positions
    PROVE  chain'[p].block = head + 1 /\ head' = head
<1>1. CASE chain' = chain
    BY <1>1
<1>2. ASSUME NEW a \in Contracts, NEW k \in Kinds,
             chain' = Append(chain, [address |-> a, block |-> head + 1, kind |-> k]),
             head' = head
      PROVE  chain'[p].block = head + 1 /\ head' = head
    <2>1. p = Len(chain) + 1
        BY <1>2 DEF TypeOK
    <2> QED
        BY <1>2, <2>1 DEF TypeOK
<1> QED
    BY <1>1, <1>2, ChainGrows

(***************************************************************************)
(* While nothing about the poll in progress changes, a log that satisfied  *)
(* ProgressInv still does, and a log mined now is outside of the poll.     *)
(***************************************************************************)
LEMMA ProgressKept ==
    ASSUME TypeOK, PollInv, ProgressInv, [Next]_vars,
           UNCHANGED <<pc, last_processes_block, pollVars>>
    PROVE  ProgressInv'
<1> USE DEF TypeOK, pollVars
<1>1. (Polling' <=> Polling) /\ RangeEnd(from_block)' = RangeEnd(from_block)
    BY DEF Polling, RangeEnd
<1>2. ASSUME NEW p \in Positions
      PROVE  /\ chain'[p] = chain[p] /\ (Handled(p) => Handled(p)')
             /\ (Passed(p)' <=> Passed(p)) /\ (Asked(p)' <=> Asked(p))
    <2>1. chain'[p] = chain[p] /\ (Handled(p) => Handled(p)')
        BY ChainGrows, HandledKept
    <2> QED
        BY <1>1, <2>1 DEF Passed, Asked, Chunk
<1>3. ASSUME NEW p \in Positions', p \notin Positions, Polling
      PROVE  ~(chain'[p].block <= latest_block) /\ ~Asked(p)'
    <2>1. chain'[p].block = head + 1
        BY <1>3, MinedBlock
    <2> QED
        BY <1>1, <1>3, <2>1, RangeEndBounds DEF PollInv, Asked
<1>4. ASSUME Polling, NEW p \in Positions',
             last_processes_block <= chain'[p].block, chain'[p].block <= latest_block, Passed(p)'
      PROVE  Handled(p)'
    <2>1. CASE p \in Positions
        BY <1>2, <1>4, <2>1 DEF ProgressInv
    <2>2. CASE p \notin Positions
        BY <1>3, <1>4, <2>2
    <2> QED
        BY <2>1, <2>2
<1>5. ASSUME pc = "send", NEW p \in Positions', Asked(p)'
      PROVE  p \in logs \/ Handled(p)'
    <2>1. CASE p \in Positions
        BY <1>2, <1>5, <2>1 DEF ProgressInv
    <2>2. CASE p \notin Positions
        BY <1>3, <1>5, <2>2 DEF Polling
    <2> QED
        BY <2>1, <2>2
<1> QED
    BY <1>1, <1>4, <1>5 DEF ProgressInv

LEMMA ProgressStep ==
    ASSUME TypeOK, PollInv, ProgressInv, [Next]_vars
    PROVE  ProgressInv'
<1> USE DEF chainVars, queueVars, pollVars, ghostVars
<1>1. ASSUME NEW n \in MinReport .. head, ReportHead(n) PROVE ProgressInv'
    <2>1. CASE pc' # "query"
        BY <1>1, <2>1 DEF ReportHead, PollSucceeds, ProgressInv, Polling
    <2>2. CASE pc' = "query"
        <3>1. /\ next_address' = 1 /\ from_block' = last_processes_block'
              /\ chain' = chain
            BY <1>1, <2>2 DEF ReportHead, PollSucceeds
        <3>2. ASSUME NEW p \in Positions, last_processes_block' <= chain[p].block
              PROVE  ~Passed(p)'
            <4>1. last_processes_block' \in Nat
                <5>1. TypeOK'
                    BY TypeStep
                <5> QED
                    BY <5>1 DEF TypeOK, Block
            <4>2. chain[p].block \in Nat
                BY LogFields
            <4>3. ~(chain[p].block < from_block') /\ \A j \in DOMAIN Addresses : ~(j < 1)
                BY <3>1, <3>2, <4>1, <4>2
            <4> QED
                BY <3>1, <4>3 DEF Passed
        <3> QED
            BY <2>2, <3>1, <3>2 DEF ProgressInv
    <2> QED
        BY <2>1, <2>2
<1>2. CASE QueryOk
    <2>1. /\ UNCHANGED <<chain, sent, receiving, last_processes_block>>
          /\ UNCHANGED <<latest_block, next_address, from_block>>
          /\ pc = "query" /\ pc' = "send"
          /\ logs' = LogsIn(Chunk(next_address), from_block, RangeEnd(from_block))
        BY <1>2 DEF QueryOk
    <2>2. \A p \in Positions : Handled(p)' <=> Handled(p)
        BY <2>1 DEF Handled
    <2>3. \A p \in Positions : Passed(p)' <=> Passed(p)
        BY <2>1 DEF Passed, Chunk
    <2>4. RangeEnd(from_block)' = RangeEnd(from_block)
        BY <2>1 DEF RangeEnd
    <2>5. \A p \in Positions : Asked(p)' => p \in logs'
        BY <2>1, <2>4 DEF Asked, Chunk, LogsIn
    <2> QED
        BY <2>1, <2>2, <2>3, <2>5 DEF ProgressInv, Polling
<1>3. ASSUME NEW q \in logs, SendLog(q) \/ SkipLog(q) PROVE ProgressInv'
    <2>1. /\ UNCHANGED <<chain, receiving, pc, last_processes_block>>
          /\ UNCHANGED <<latest_block, next_address, from_block>>
          /\ logs' = logs \ {q} /\ pc = "send"
          /\ Handled(q)'
        BY <1>3 DEF SendLog, SkipLog, Handled
    <2>2. \A p \in Positions : Handled(p) => Handled(p)'
        BY HandledKept
    <2>3. \A p \in Positions : Passed(p)' <=> Passed(p)
        BY <2>1 DEF Passed, Chunk
    <2>4. RangeEnd(from_block)' = RangeEnd(from_block)
        BY <2>1 DEF RangeEnd
    <2>5. \A p \in Positions : Asked(p)' <=> Asked(p)
        BY <2>1, <2>4 DEF Asked, Chunk
    <2> QED
        BY <2>1, <2>2, <2>3, <2>5 DEF ProgressInv, Polling
<1>4. CASE NextRange
    <2>1. /\ UNCHANGED <<chain, receiving, sent, last_processes_block>>
          /\ UNCHANGED <<latest_block, next_address>>
          /\ from_block' = RangeEnd(from_block) + 1
          /\ logs = {} /\ pc = "send" /\ pc' = "query"
        BY <1>4 DEF NextRange
    <2>2. ASSUME NEW p \in Positions PROVE Passed(p)' => Passed(p) \/ Asked(p)
        <3>1. chain[p].block \in Nat /\ RangeEnd(from_block) \in Nat
            BY <2>1, LogFields, RangeEndBounds DEF Polling
        <3> QED
            BY <2>1, <3>1, Numbers DEF Passed, Asked, Chunk
    <2>3. \A p \in Positions : Handled(p)' <=> Handled(p)
        BY <2>1 DEF Handled
    <2> QED
        BY <2>1, <2>2, <2>3 DEF ProgressInv, Polling
<1>5. CASE NextChunk
    <2>1. /\ UNCHANGED <<chain, receiving, sent, last_processes_block, latest_block>>
          /\ next_address' = next_address + ChunkSize
          /\ from_block' = last_processes_block
          /\ logs = {} /\ pc = "send" /\ pc' = "query"
          /\ RangeEnd(from_block) >= latest_block
        BY <1>5 DEF NextChunk
    <2>2. ASSUME NEW p \in Positions,
                 last_processes_block <= chain[p].block, chain[p].block <= latest_block, Passed(p)'
          PROVE  Passed(p) \/ Asked(p)
        <3>1. chain[p].block \in Nat
            BY LogFields
        <3>5. RangeEnd(from_block) = latest_block
            BY <2>1, RangeEndBounds, Numbers DEF Polling
        <3>0. ~(chain[p].block < from_block')
            BY <2>1, <2>2, <3>1, Numbers
        <3>2. PICK j \in DOMAIN Addresses :
                  j < next_address + ChunkSize /\ Addresses[j] = chain[p].address
            BY <2>1, <2>2, <3>0 DEF Passed
        <3>3. CASE j < next_address
            BY <3>2, <3>3 DEF Passed
        <3>4. CASE ~(j < next_address)
            <4>1. chain[p].address \in Chunk(next_address)
                BY <3>2, <3>4, Numbers DEF Chunk
            <4> QED
                BY <2>2, <3>1, <3>5, <4>1, Numbers DEF Passed, Asked
        <3> QED
            BY <3>3, <3>4
    <2>3. \A p \in Positions : Handled(p)' <=> Handled(p)
        BY <2>1 DEF Handled
    <2> QED
        BY <2>1, <2>2, <2>3 DEF ProgressInv, Polling
<1>6. CASE Select \/ StopOnCancel \/ Wake \/ HeadError \/ QueryError \/ FinishPoll
    BY <1>6 DEF Select, StopOnCancel, Wake, HeadError, QueryError, FinishPoll,
       PollFails, PollSucceeds, ProgressInv, Polling
<1>7. CASE EnvNext \/ UNCHANGED vars
    <2>1. UNCHANGED <<pc, last_processes_block, pollVars>>
        BY <1>7 DEF EnvNext, MineLog, SealBlock, Cancel, Receive, CloseReceiver, pollerState, vars
    <2> QED
        BY <2>1, ProgressKept
<1> QED
    BY <1>1, <1>2, <1>3, <1>4, <1>5, <1>6, <1>7 DEF Next, PollerNext

LEMMA NoGapStep ==
    ASSUME TypeOK, CoverageInv, [Next]_vars
    PROVE  NoGap'
<1> USE DEF chainVars, queueVars, pollVars, ghostVars
<1>0. ChainOrdered /\ CursorInv /\ PollInv /\ ProgressInv /\ NoGap
    BY DEF CoverageInv
<1>1. CASE UNCHANGED <<start, last_processes_block>>
    <2> SUFFICES ASSUME NEW p \in Positions', start <= chain'[p].block,
                        chain'[p].block < last_processes_block
                 PROVE  Handled(p)'
        BY <1>1 DEF NoGap
    <2>1. CASE p \in Positions
        BY <1>0, <2>1, ChainGrows, HandledKept DEF NoGap
    <2>2. CASE p \notin Positions
        BY <1>0, <2>2, MinedBlock, Numbers DEF CursorInv
    <2> QED
        BY <2>1, <2>2
<1>2. ASSUME NEW n \in MinReport .. head, ReportHead(n) PROVE NoGap'
    <2>1. CASE last_processes_block = 0
        <3>1. start' = last_processes_block' /\ start' \in Nat /\ chain' = chain
            BY <1>2, <2>1, TypeStep, Numbers DEF ReportHead, TypeOK, Block
        <3> QED
            BY <3>1, LogFields DEF NoGap
    <2>2. CASE last_processes_block # 0
        BY <1>1, <1>2, <2>2 DEF ReportHead, FirstBlock
    <2> QED
        BY <2>1, <2>2
<1>3. CASE FinishPoll
    <2>1. /\ pc = "send" /\ logs = {} /\ RangeEnd(from_block) = latest_block
          /\ next_address + ChunkSize > Len(Addresses)
          /\ last_processes_block' = latest_block + 1
          /\ UNCHANGED <<chain, receiving, sent, start>>
        BY <1>0, <1>3, RangeEndBounds, Numbers DEF FinishPoll, Polling
    <2> SUFFICES ASSUME NEW p \in Positions, start <= chain[p].block,
                        chain[p].block < latest_block + 1
                 PROVE  Handled(p)
        BY <2>1 DEF NoGap, Handled
    <2>2. chain[p].block \in Nat /\ chain[p].address \in Contracts
        BY LogFields
    <2>3. CASE chain[p].block < last_processes_block
        BY <1>0, <2>3 DEF NoGap
    <2>4. CASE ~(chain[p].block < last_processes_block)
        <3>0. last_processes_block <= chain[p].block /\ chain[p].block <= latest_block
            BY <2>2, <2>4, Numbers
        <3>1. PICK j \in DOMAIN Addresses : Addresses[j] = chain[p].address
            BY <2>2 DEF Contracts
        <3>2. CASE j < next_address
            <4>1. Passed(p)
                BY <3>1, <3>2 DEF Passed
            <4> QED
                BY <1>0, <2>1, <3>0, <4>1 DEF ProgressInv, Polling
        <3>3. CASE ~(j < next_address)
            <4>0. next_address <= j /\ j < next_address + ChunkSize
                BY <2>1, <3>3, Numbers
            <4>1. chain[p].address \in Chunk(next_address)
                BY <3>1, <4>0 DEF Chunk
            <4>2. Passed(p) \/ Asked(p)
                BY <2>1, <2>2, <3>0, <4>1, Numbers DEF Passed, Asked
            <4> QED
                BY <1>0, <2>1, <3>0, <4>2 DEF ProgressInv, Polling
        <3> QED
            BY <3>2, <3>3
    <2> QED
        BY <2>3, <2>4
<1>4. CASE PollerNext /\ ~FinishPoll /\ \A n \in MinReport .. head : ~ReportHead(n)
    BY <1>1, <1>4 DEF PollerNext, Select, StopOnCancel, Wake, HeadError, QueryOk,
       QueryError, SendLog, SkipLog, NextRange, NextChunk
<1>5. CASE EnvNext \/ UNCHANGED vars
    BY <1>1, <1>5 DEF EnvNext, MineLog, SealBlock, Cancel, Receive, CloseReceiver,
       pollerState, vars
<1> QED
    BY <1>2, <1>3, <1>4, <1>5 DEF Next, PollerNext

LEMMA CoverageInit == Init => CoverageInv
  BY TypeInit DEF Init, TypeOK, CoverageInv, ChainOrdered, CursorInv, PollInv, ProgressInv,
     NoGap, Polling, Block

LEMMA CoverageStep == TypeOK /\ CoverageInv /\ [Next]_vars => CoverageInv'
  BY ChainOrderedStep, CursorStep, PollStep, ProgressStep, NoGapStep DEF CoverageInv

(***************************************************************************)
(* No log between the first block of the poller and its cursor is lost,    *)
(* whatever the number of contracts, the chunk size, the range limit, the  *)
(* retry limit and the capacity of the channels.                           *)
(***************************************************************************)
THEOREM NoLogIsLost == Spec => []NoGap
<1>1. Spec => []CoverageInv
    BY TypeCorrect, CoverageInit, CoverageStep, PTL DEF Spec
<1>2. CoverageInv => NoGap
    BY DEF CoverageInv
<1> QED
    BY <1>1, <1>2, PTL

-----------------------------------------------------------------------------
(***************************************************************************)
(* The poller gives up only after MaxRetry + 1 failed polls in a row.      *)
(***************************************************************************)
THEOREM GivesUpOnlyAfterStreak == Spec => []GivesUpAfterStreak
<1> USE DEF GivesUpAfterStreak, chainVars, queueVars, pollVars, ghostVars
<1>1. Init => GivesUpAfterStreak
    BY DEF Init
<1>2. TypeOK /\ GivesUpAfterStreak /\ [Next]_vars => GivesUpAfterStreak'
    <2> SUFFICES ASSUME TypeOK, GivesUpAfterStreak, [Next]_vars PROVE GivesUpAfterStreak'
        OBVIOUS
    <2>1. retry_count \in 0 .. MaxRetry /\ streak \in Nat
        BY DEF TypeOK
    <2>2. ASSUME NEW n \in MinReport .. head, ReportHead(n) PROVE GivesUpAfterStreak'
        BY <2>2 DEF ReportHead, PollSucceeds
    <2>3. CASE HeadError \/ QueryError
        BY <2>1, <2>3 DEF HeadError, QueryError, PollFails
    <2>4. CASE FinishPoll
        BY <2>4 DEF FinishPoll, PollSucceeds
    <2>5. CASE Select \/ StopOnCancel \/ Wake
        BY <2>5 DEF Select, StopOnCancel, Wake
    <2>6. CASE QueryOk \/ NextRange \/ NextChunk \/ \E p \in logs : SendLog(p) \/ SkipLog(p)
        BY <2>6 DEF QueryOk, NextRange, NextChunk, SendLog, SkipLog
    <2>7. CASE EnvNext \/ UNCHANGED vars
        BY <2>7 DEF EnvNext, MineLog, SealBlock, Cancel, Receive, CloseReceiver,
           pollerState, vars
    <2> QED
        BY <2>2, <2>3, <2>4, <2>5, <2>6, <2>7 DEF Next, PollerNext
<1> QED
    BY <1>1, <1>2, TypeCorrect, PTL DEF Spec

-----------------------------------------------------------------------------
(***************************************************************************)
(* The order of the logs in the channels.                                  *)
(***************************************************************************)
LEMMA FrameFacts ==
    ASSUME TypeOK, [Next]_vars, UNCHANGED <<latest_block, next_address, from_block>>,
           NEW p \in Positions
    PROVE  /\ p \in Positions' /\ chain'[p] = chain[p]
           /\ Passed(p)' <=> Passed(p)
           /\ Asked(p)' <=> Asked(p)
<1>1. p \in Positions' /\ chain'[p] = chain[p]
    BY ChainGrows
<1>2. RangeEnd(from_block)' = RangeEnd(from_block)
    BY DEF RangeEnd
<1>3. Passed(p)' <=> Passed(p)
    BY <1>1 DEF Passed, Chunk
<1>4. Asked(p)' <=> Asked(p)
    BY <1>1, <1>2 DEF Asked, Chunk
<1> QED
    BY <1>1, <1>3, <1>4

LEMMA LogsStep ==
    ASSUME TypeOK, LogsInv, [Next]_vars
    PROVE  LogsInv'
<1> USE DEF chainVars, queueVars, pollVars, ghostVars
<1>0. logs \subseteq Positions
    BY DEF TypeOK
<1>1. CASE QueryOk
    <2>1. /\ UNCHANGED <<chain, latest_block, next_address, from_block>>
          /\ logs' = LogsIn(Chunk(next_address), from_block, RangeEnd(from_block))
        BY <1>1 DEF QueryOk
    <2>2. \A p \in logs' : p \in Positions /\ Asked(p)
        BY <2>1 DEF LogsIn, Asked
    <2> QED
        BY <2>1, <2>2, FrameFacts DEF LogsInv
<1>2. ASSUME NEW q \in logs, SendLog(q) \/ SkipLog(q) PROVE LogsInv'
    <2>1. /\ UNCHANGED <<latest_block, next_address, from_block>>
          /\ logs' \subseteq logs /\ pc = "send"
        BY <1>2 DEF SendLog, SkipLog
    <2> QED
        BY <1>0, <2>1, FrameFacts DEF LogsInv
<1>3. CASE EnvNext \/ UNCHANGED vars
    <2>1. UNCHANGED <<latest_block, next_address, from_block, logs, pc>>
        BY <1>3 DEF EnvNext, MineLog, SealBlock, Cancel, Receive, CloseReceiver, pollerState, vars
    <2> QED
        BY <1>0, <2>1, FrameFacts DEF LogsInv
<1>4. ASSUME NEW n \in MinReport .. head, ReportHead(n) PROVE LogsInv'
    BY <1>4 DEF ReportHead, PollSucceeds, LogsInv
<1>5. CASE Select \/ StopOnCancel \/ Wake \/ HeadError \/ QueryError \/ FinishPoll
           \/ NextRange \/ NextChunk
    BY <1>5 DEF Select, StopOnCancel, Wake, HeadError, QueryError, FinishPoll,
       NextRange, NextChunk, PollFails, PollSucceeds, LogsInv
<1> QED
    BY <1>1, <1>2, <1>3, <1>4, <1>5 DEF Next, PollerNext

LEMMA SentStep ==
    ASSUME TypeOK, PollInv, LogsInv, SentInv, [Next]_vars
    PROVE  SentInv'
<1> USE DEF chainVars, queueVars, pollVars, ghostVars
<1>0. /\ sent \subseteq Positions /\ logs \subseteq Positions
      /\ \A q \in Positions : chain[q].block \in Nat
      /\ \A q \in Positions : q \in Nat
    <2>1. sent \subseteq Positions /\ logs \subseteq Positions
        BY DEF TypeOK
    <2>2. \A q \in Positions : q \in Nat
        BY DEF TypeOK
    <2> QED
        BY <2>1, <2>2, LogFields
<1>1. ASSUME NEW n \in MinReport .. head, ReportHead(n) PROVE SentInv'
    <2>1. /\ UNCHANGED <<chain, sent, failedHigh>> /\ ~Polling
          /\ last_processes_block # 0 => last_processes_block' = last_processes_block
        BY <1>1 DEF ReportHead, FirstBlock, Polling
    <2>2. ASSUME NEW q \in sent, chain[q].block < last_processes_block
          PROVE  chain[q].block < last_processes_block'
        <3>1. chain[q].block \in Nat
            BY <1>0
        <3>2. last_processes_block # 0
            BY <2>2, <3>1
        <3> QED
            BY <2>1, <2>2, <3>2
    <2> QED
        BY <2>1, <2>2 DEF SentInv
<1>2. ASSUME NEW p \in logs, SendLog(p) PROVE SentInv'
    <2>1. /\ UNCHANGED <<chain, pc, last_processes_block, latest_block, next_address, from_block>>
          /\ UNCHANGED failedHigh
          /\ logs' = logs \ {p} /\ sent' = sent \cup {p} /\ pc = "send"
          /\ \A r \in logs : p <= r
        BY <1>2 DEF SendLog, IsNext
    <2>2. Asked(p)' /\ chain[p].block <= latest_block
        <3>1. Asked(p) /\ RangeEnd(from_block) <= latest_block /\ RangeEnd(from_block) \in Nat
            BY <2>1, RangeEndBounds DEF LogsInv, Polling
        <3>2. Asked(p)'
            BY <1>0, <2>1, <3>1, FrameFacts
        <3>3. chain[p].block <= RangeEnd(from_block) /\ chain[p].block \in Nat
            BY <1>0, <3>1 DEF Asked
        <3> QED
            BY <3>1, <3>2, <3>3, Numbers
    <2>3. \A r \in logs' : p < r
        BY <1>0, <2>1
    <2>4. \A q \in sent : (Passed(q)' <=> Passed(q)) /\ (Asked(q)' <=> Asked(q))
        BY <1>0, <2>1, FrameFacts
    <2>5. ASSUME NEW q \in sent'
          PROVE  \/ chain[q].block < last_processes_block
                 \/ chain[q].block <= failedHigh
                 \/ /\ chain[q].block <= latest_block
                    /\ Passed(q)' \/ (Asked(q)' /\ \A r \in logs' : q < r)
        <3>1. CASE q = p
            BY <2>2, <2>3, <3>1
        <3>2. CASE q \in sent
            BY <2>1, <2>4, <3>2 DEF SentInv
        <3> QED
            BY <2>1, <3>1, <3>2
    <2> QED
        BY <2>1, <2>5 DEF SentInv, Polling
<1>3. CASE QueryOk
    <2>1. /\ UNCHANGED <<chain, sent, last_processes_block, latest_block, next_address, from_block>>
          /\ UNCHANGED failedHigh
          /\ pc = "query" /\ pc' = "send"
        BY <1>3 DEF QueryOk
    <2> QED
        BY <1>0, <2>1, FrameFacts DEF SentInv, Polling
<1>4. ASSUME NEW p \in logs, SkipLog(p) PROVE SentInv'
    <2>1. /\ UNCHANGED <<chain, sent, pc, last_processes_block>>
          /\ UNCHANGED <<latest_block, next_address, from_block, failedHigh>>
          /\ logs' \subseteq logs
        BY <1>4 DEF SkipLog
    <2> QED
        BY <1>0, <2>1, FrameFacts DEF SentInv, Polling
<1>5. CASE NextRange \/ NextChunk
    <2>1. /\ UNCHANGED <<chain, sent, last_processes_block, latest_block, failedHigh>>
          /\ pc = "send" /\ pc' = "query"
        BY <1>5 DEF NextRange, NextChunk
    <2>2. RangeEnd(from_block) \in Nat /\ from_block <= RangeEnd(from_block)
        BY <2>1, RangeEndBounds DEF Polling
    <2>3. ASSUME NEW q \in sent, Passed(q) \/ Asked(q)
          PROVE  Passed(q)'
        <3>1. q \in Positions /\ chain[q].block \in Nat /\ chain'[q] = chain[q]
            BY <1>0, <2>1
        <3>2. CASE NextRange
            <4>1. next_address' = next_address /\ from_block' = RangeEnd(from_block) + 1
                BY <3>2 DEF NextRange
            <4>2. chain[q].block < from_block => chain[q].block < from_block'
                BY <2>2, <3>1, <4>1, Numbers
            <4>3. chain[q].block <= RangeEnd(from_block) => chain[q].block < from_block'
                BY <2>2, <3>1, <4>1
            <4>4. CASE Passed(q)
                BY <3>1, <4>1, <4>2, <4>4 DEF Passed, Chunk
            <4>5. CASE Asked(q)
                BY <3>1, <4>1, <4>3, <4>5 DEF Passed, Asked, Chunk
            <4> QED
                BY <2>3, <4>4, <4>5
        <3>3. CASE NextChunk
            <4>1. next_address' = next_address + ChunkSize
                BY <3>3 DEF NextChunk
            <4>2. PICK j \in DOMAIN Addresses :
                      j < next_address + ChunkSize /\ Addresses[j] = chain[q].address
                BY <2>3, Numbers DEF Passed, Asked, Chunk
            <4> QED
                BY <3>1, <4>1, <4>2 DEF Passed
        <3> QED
            BY <1>5, <3>2, <3>3
    <2> QED
        BY <2>1, <2>3 DEF SentInv, Polling
<1>6. CASE FinishPoll
    <2>1. /\ UNCHANGED <<chain, sent, failedHigh>>
          /\ last_processes_block' = latest_block + 1
          /\ last_processes_block <= latest_block
        BY <1>6, Numbers DEF FinishPoll, PollInv, Polling
    <2>2. ASSUME NEW q \in sent
          PROVE  chain[q].block < last_processes_block' \/ chain[q].block <= failedHigh
        BY <1>0, <2>1, Numbers DEF SentInv
    <2> QED
        BY <2>1, <2>2 DEF SentInv
<1>7. CASE QueryError
    <2>1. /\ UNCHANGED <<chain, sent, last_processes_block>>
          /\ failedHigh' = IF latest_block > failedHigh THEN latest_block ELSE failedHigh
          /\ failedHigh \in Int
        BY <1>7 DEF QueryError, TypeOK, Block
    <2>2. ASSUME NEW q \in sent
          PROVE  chain[q].block < last_processes_block \/ chain[q].block <= failedHigh'
        BY <1>0, <2>1, Numbers DEF SentInv
    <2> QED
        BY <2>1, <2>2 DEF SentInv
<1>8. CASE Select \/ StopOnCancel \/ Wake \/ HeadError
    <2>1. UNCHANGED <<chain, sent, last_processes_block, failedHigh>> /\ ~Polling
        BY <1>8 DEF Select, StopOnCancel, Wake, HeadError, PollFails, Polling
    <2> QED
        BY <2>1 DEF SentInv
<1>9. CASE EnvNext \/ UNCHANGED vars
    <2>1. /\ UNCHANGED <<sent, pc, last_processes_block>>
          /\ UNCHANGED <<latest_block, next_address, from_block, logs, failedHigh>>
        BY <1>9 DEF EnvNext, MineLog, SealBlock, Cancel, Receive, CloseReceiver, pollerState, vars
    <2> QED
        BY <1>0, <2>1, FrameFacts DEF SentInv, Polling
<1> QED
    BY <1>1, <1>2, <1>3, <1>4, <1>5, <1>6, <1>7, <1>8, <1>9 DEF Next, PollerNext

\* A channel grows only by the log that SendLog puts at its end.
LEMMA OrderedStep ==
    ASSUME TypeOK, ChainOrdered, PollInv, LogsInv, SentInv, [Next]_vars
    PROVE  SendsInOrder
<1> USE DEF chainVars, queueVars, pollVars, ghostVars
<1> SUFFICES ASSUME NEW a \in Contracts, Len(channel'[a]) > Len(channel[a]),
                    NEW p, p = channel'[a][Len(channel'[a])], chain[p].block > failedHigh,
                    NEW q \in sent, chain[q].address = a
             PROVE  q < p
    BY DEF SendsInOrder
<1>1. channel[a] \in Seq(LogIds) /\ Len(channel[a]) \in Nat
    BY DEF TypeOK
<1>2. PICK r \in logs : SendLog(r)
    <2>1. CASE UNCHANGED channel
        BY <1>1, <2>1
    <2>2. ASSUME NEW b \in Contracts, Receive(b) \/ CloseReceiver(b) PROVE FALSE
        <3>1. CASE a # b
            BY <1>1, <2>2, <3>1 DEF Receive, CloseReceiver, TypeOK
        <3>2. CASE a = b /\ Receive(b)
            <4>1. channel[a] # <<>> /\ channel'[a] = Tail(channel[a])
                BY <3>2 DEF Receive, TypeOK
            <4> QED
                BY <1>1, <4>1
        <3>3. CASE a = b /\ CloseReceiver(b)
            <4>1. channel'[a] = <<>>
                BY <3>3 DEF CloseReceiver, TypeOK
            <4> QED
                BY <1>1, <4>1
        <3> QED
            BY <2>2, <3>1, <3>2, <3>3
    <2>3. CASE PollerNext /\ ~\E r \in logs : SendLog(r)
        BY <2>1, <2>3 DEF PollerNext, Select, StopOnCancel, Wake, ReportHead, HeadError, QueryOk,
           QueryError, SkipLog, NextRange, NextChunk, FinishPoll
    <2>4. CASE SealBlock \/ Cancel \/ UNCHANGED vars
               \/ \E c \in Contracts, k \in Kinds : MineLog(c, k)
        BY <2>1, <2>4 DEF SealBlock, Cancel, MineLog, vars
    <2> QED
        BY <2>2, <2>3, <2>4 DEF Next, EnvNext
<1>3. /\ r \in Positions /\ q \in Positions /\ r \in Nat /\ q \in Nat
      /\ chain[r].block \in Nat /\ chain[q].block \in Nat
    <2>1. r \in Positions /\ q \in Positions
        BY DEF TypeOK
    <2>2. Positions \subseteq Nat
        BY DEF TypeOK
    <2> QED
        BY <2>1, <2>2, LogFields
<1>4. p = r /\ chain[r].address = a /\ pc = "send" /\ Asked(r)
    <2>1. channel' = [channel EXCEPT ![chain[r].address] = Append(@, r)] /\ pc = "send"
        BY <1>2 DEF SendLog
    <2>2. chain[r].address = a
        BY <1>1, <2>1 DEF TypeOK
    <2>3. channel'[a] = Append(channel[a], r)
        BY <2>1, <2>2 DEF TypeOK
    <2> QED
        BY <1>1, <2>1, <2>2, <2>3 DEF LogsInv
<1>5. chain[q].block < chain[r].block => q < r
    BY <1>3 DEF ChainOrdered
<1>6. last_processes_block <= chain[r].block /\ from_block <= chain[r].block
    BY <1>3, <1>4, Numbers DEF Asked, PollInv, Polling
<1>7. CASE chain[q].block < last_processes_block
    BY <1>3, <1>4, <1>5, <1>6, <1>7, Numbers
<1>8. CASE chain[q].block <= failedHigh
    <2>1. failedHigh \in Int
        BY DEF TypeOK, Block
    <2> QED
        BY <1>3, <1>4, <1>5, <1>8, <2>1
<1>9. CASE Passed(q)
    <2>1. PICK k \in DOMAIN Addresses : next_address <= k /\ Addresses[k] = a
        BY <1>4 DEF Asked, Chunk
    <2>2. ~\E j \in DOMAIN Addresses : j < next_address /\ Addresses[j] = chain[q].address
        BY <2>1, Numbers
    <2>3. chain[q].block < from_block
        BY <1>9, <2>2 DEF Passed
    <2> QED
        BY <1>3, <1>4, <1>5, <1>6, <2>3, Numbers
<1>10. CASE \A s \in logs : q < s
    BY <1>4, <1>10
<1> QED
    BY <1>7, <1>8, <1>9, <1>10 DEF SentInv

(***************************************************************************)
(* A processor gets the logs of its contract in chain order and once each, *)
(* except for blocks that a failed poll had already asked for.             *)
(***************************************************************************)
THEOREM LogsInOrder == Spec => FreshEventsInOrder
<1> DEFINE OInv == CoverageInv /\ LogsInv /\ SentInv
<1>1. Init => OInv
    BY CoverageInit DEF Init, LogsInv, SentInv
<1>2. TypeOK /\ OInv /\ [Next]_vars => OInv'
    BY CoverageStep, LogsStep, SentStep DEF CoverageInv
<1>3. TypeOK /\ OInv /\ [Next]_vars => [SendsInOrder]_vars
    BY OrderedStep DEF CoverageInv
<1> HIDE DEF OInv
<1> QED
    BY <1>1, <1>2, <1>3, TypeCorrect, PTL DEF Spec, FreshEventsInOrder

-----------------------------------------------------------------------------
(***************************************************************************)
(* On a chain with at least MAX_HISTORY_BLOCKS blocks the subtraction of   *)
(* the first run does not wrap, and the cursor stays near the head.        *)
(***************************************************************************)
THEOREM CursorFollowsHead == History <= MinReport => (Spec => []CursorNotAhead)
<1> USE DEF CursorNotAhead, chainVars, queueVars, pollVars, ghostVars
<1> SUFFICES ASSUME History <= MinReport PROVE Spec => []CursorNotAhead
    OBVIOUS
<1>1. Init => CursorNotAhead
    BY DEF Init, InitLast
<1>2. TypeOK /\ PollInv /\ CursorNotAhead /\ [Next]_vars => CursorNotAhead'
    <2> SUFFICES ASSUME TypeOK, PollInv, FromBlock = None, last_processes_block <= head + 1,
                        [Next]_vars
                 PROVE  last_processes_block' <= head' + 1
        OBVIOUS
    <2>1. ASSUME NEW n \in MinReport .. head, ReportHead(n)
          PROVE  last_processes_block' <= head' + 1
        <3>1. FirstBlock(n) <= head + 1
            BY Numbers DEF FirstBlock, WrappingSub
        <3> QED
            BY <2>1, <3>1 DEF ReportHead
    <2>2. CASE FinishPoll
        BY <2>2, Numbers DEF FinishPoll, PollInv, Polling
    <2>3. CASE PollerNext /\ ~FinishPoll /\ \A n \in MinReport .. head : ~ReportHead(n)
        BY <2>3 DEF PollerNext, Select, StopOnCancel, Wake, HeadError, QueryOk,
           QueryError, SendLog, SkipLog, NextRange, NextChunk
    <2>4. CASE SealBlock
        BY <2>4, Numbers DEF SealBlock, pollerState
    <2>5. CASE (EnvNext /\ ~SealBlock) \/ UNCHANGED vars
        BY <2>5 DEF EnvNext, MineLog, Cancel, Receive, CloseReceiver, pollerState, vars
    <2> QED
        BY <2>1, <2>2, <2>3, <2>4, <2>5 DEF Next, PollerNext
<1>3. Init => CoverageInv
    BY CoverageInit
<1>4. CoverageInv => PollInv
    BY DEF CoverageInv
<1> HIDE DEF CursorNotAhead
<1> QED
    BY <1>1, <1>2, <1>3, <1>4, CoverageStep, TypeCorrect, PTL DEF Spec

=============================================================================
