-------------------------- MODULE PollerFeedProofs --------------------------
(***************************************************************************)
(* Poller implements LogFeed, for every list of contracts, chunk size,     *)
(* range and bound on the environment.                                     *)
(***************************************************************************)
EXTENDS PollerProofs

USE PollerAssumption DEF Positions

\* The inductive invariant of the refinement; a poll asks for two blocks at least.
WidthInv == Polling => last_processes_block < latest_block

FeedInv == TypeOK /\ CoverageInv /\ LogsInv /\ WidthInv

LEMMA WidthStep ==
    ASSUME TypeOK, WidthInv, [Next]_vars
    PROVE  WidthInv'
<1> USE DEF WidthInv, Polling, chainVars, queueVars, pollVars, ghostVars
<1>1. ASSUME NEW n \in MinReport .. head, ReportHead(n) PROVE WidthInv'
    <2>1. n \in Nat /\ FirstBlock(n) \in Nat
        <3>1. n \in 0 .. MaxHead
            BY DEF TypeOK
        <3> QED
            BY <3>1, FirstBlockType DEF TypeOK, Block
    <2>2. last_processes_block' = FirstBlock(n)
        BY <1>1 DEF ReportHead
    <2>3. CASE n <= FirstBlock(n)
        BY <1>1, <2>3 DEF ReportHead, PollSucceeds
    <2>4. CASE ~(n <= FirstBlock(n))
        BY <1>1, <2>1, <2>2, <2>4 DEF ReportHead
    <2> QED
        BY <2>3, <2>4
<1>2. CASE Select \/ StopOnCancel \/ Wake \/ HeadError \/ QueryError \/ FinishPoll
    BY <1>2 DEF Select, StopOnCancel, Wake, HeadError, QueryError, FinishPoll,
       PollFails, PollSucceeds
<1>3. CASE QueryOk \/ NextRange \/ NextChunk \/ \E p \in logs : SendLog(p) \/ SkipLog(p)
    BY <1>3 DEF QueryOk, NextRange, NextChunk, SendLog, SkipLog
<1>4. CASE EnvNext \/ UNCHANGED vars
    BY <1>4 DEF EnvNext, MineLog, SealBlock, Cancel, Receive, CloseReceiver, pollerState, vars
<1> QED
    BY <1>1, <1>2, <1>3, <1>4 DEF Next, PollerNext

LEMMA FeedInvInductive ==
    /\ Init => FeedInv
    /\ FeedInv /\ [Next]_vars => FeedInv'
<1>1. Init => LogsInv /\ WidthInv
    BY DEF Init, LogsInv, WidthInv, Polling
<1>2. Init => FeedInv
    BY <1>1, TypeInit, CoverageInit DEF FeedInv
<1>3. FeedInv /\ [Next]_vars => FeedInv'
    BY TypeStep, CoverageStep, LogsStep, WidthStep DEF FeedInv
<1> QED
    BY <1>2, <1>3

-----------------------------------------------------------------------------
(***************************************************************************)
(* What HandedOver is after each kind of step.                             *)
(***************************************************************************)
LEMMA HandedKept ==
    ASSUME FeedInv, [Next]_vars, UNCHANGED <<pc, last_processes_block, pollVars>>
    PROVE  HandedOver' = HandedOver
<1>0. UNCHANGED <<latest_block, next_address, from_block, logs>> /\ (Polling' <=> Polling)
    BY DEF pollVars, Polling
<1>1. \A p \in Positions : /\ p \in Positions' /\ chain'[p] = chain[p]
                           /\ Passed(p)' <=> Passed(p)
                           /\ Asked(p)' <=> Asked(p)
    BY <1>0, FrameFacts DEF FeedInv
<1>2. ASSUME NEW p \in Positions', p \notin Positions, Polling
      PROVE  ~(chain'[p].block <= latest_block)
    BY <1>2, MinedBlock, Numbers DEF FeedInv, CoverageInv, PollInv
<1> QED
    BY <1>0, <1>1, <1>2 DEF HandedOver

LEMMA NothingHanded == ~Polling => HandedOver = {}
    BY DEF HandedOver

\* A log that is asked for has not been passed, and neither has one below it been missed.
LEMMA AskedInTurn ==
    ASSUME FeedInv, pc = "send", NEW p \in logs, IsNext(p)
    PROVE  /\ p \in Positions /\ p \notin HandedOver
           /\ last_processes_block < head
           /\ last_processes_block <= chain[p].block /\ chain[p].block <= latest_block
           /\ latest_block <= head
           /\ \A q \in Positions :
                 /\ chain[q].address = chain[p].address
                 /\ last_processes_block <= chain[q].block /\ q < p
                 => q \in HandedOver
<1>0. Polling /\ p \in Positions /\ Asked(p)
    BY DEF Polling, FeedInv, TypeOK, LogsInv
<1>1. \A q \in Positions : chain[q].block \in Nat /\ q \in Nat
    BY LogFields DEF FeedInv, TypeOK
<1>2. /\ last_processes_block <= from_block /\ from_block <= latest_block
      /\ latest_block <= head /\ last_processes_block < latest_block
      /\ RangeEnd(from_block) \in Nat /\ RangeEnd(from_block) <= latest_block
    BY <1>0, RangeEndBounds DEF FeedInv, CoverageInv, PollInv, WidthInv
<1>3. /\ last_processes_block \in Nat /\ from_block \in Nat /\ latest_block \in Nat
      /\ head \in Nat /\ next_address \in Nat
    BY Numbers DEF FeedInv
<1>4. /\ chain[p].address \in Chunk(next_address)
      /\ from_block <= chain[p].block /\ chain[p].block <= RangeEnd(from_block)
    BY <1>0 DEF Asked
<1>5. ~Passed(p)
    <2>1. PICK k \in DOMAIN Addresses : next_address <= k /\ Addresses[k] = chain[p].address
        BY <1>4 DEF Chunk
    <2>2. \A j \in DOMAIN Addresses : Addresses[j] = chain[p].address => j = k
        BY <2>1
    <2>3. ~ \E j \in DOMAIN Addresses : j < next_address /\ Addresses[j] = chain[p].address
        <3>1. k \in Nat
            BY Numbers DEF FeedInv
        <3> QED
            BY <1>3, <2>1, <2>2, <3>1
    <2>4. ~(chain[p].block < from_block)
        BY <1>0, <1>1, <1>3, <1>4
    <2> QED
        BY <2>3, <2>4 DEF Passed
<1>6. p \notin HandedOver
    BY <1>0, <1>5 DEF HandedOver
<1>7. ASSUME NEW q \in Positions, chain[q].address = chain[p].address,
             last_processes_block <= chain[q].block, q < p
      PROVE  q \in HandedOver
    <2>1. chain[q].block <= chain[p].block
        BY <1>0, <1>1, <1>7 DEF FeedInv, CoverageInv, ChainOrdered
    <2>2. q \notin logs
        BY <1>0, <1>1, <1>7 DEF IsNext
    <2>3. chain[q].block <= RangeEnd(from_block) /\ chain[q].block <= latest_block
        BY <1>0, <1>1, <1>2, <1>3, <1>4, <2>1
    <2>4. Passed(q) \/ Asked(q)
        BY <1>1, <1>3, <1>4, <1>7, <2>3 DEF Passed, Asked
    <2> QED
        BY <1>0, <1>7, <2>2, <2>3, <2>4 DEF HandedOver
<1>8. /\ last_processes_block < head
      /\ last_processes_block <= chain[p].block /\ chain[p].block <= latest_block
    BY <1>0, <1>1, <1>2, <1>3, <1>4
<1> QED
    BY <1>0, <1>2, <1>6, <1>7, <1>8

LEMMA HandedOne ==
    ASSUME FeedInv, NEW p \in logs, SendLog(p) \/ SkipLog(p)
    PROVE  HandedOver' = HandedOver \cup {p}
<1>1. /\ UNCHANGED <<chain, last_processes_block, latest_block, next_address, from_block, pc>>
      /\ pc = "send" /\ logs' = logs \ {p} /\ IsNext(p)
    BY DEF SendLog, SkipLog, chainVars
<1>2. Polling /\ Polling'
    BY <1>1 DEF Polling
<1>3. Passed(p)' <=> Passed(p)
    BY <1>1 DEF Passed, Chunk
<1>4. \A q \in Positions : (Passed(q)' <=> Passed(q)) /\ (Asked(q)' <=> Asked(q))
    BY <1>1 DEF Passed, Asked, Chunk, RangeEnd
<1>5. /\ p \in Positions /\ Asked(p)
      /\ last_processes_block <= chain[p].block /\ chain[p].block <= latest_block
    BY <1>1, AskedInTurn DEF FeedInv, LogsInv
<1> QED
    BY <1>1, <1>2, <1>4, <1>5 DEF HandedOver

\* A finished answer: what was handed over are the logs of the chunks and
\* sub-ranges up to and with this one.
LEMMA HandedAtEndOfRange ==
    ASSUME FeedInv, pc = "send", logs = {}
    PROVE  HandedOver = {p \in Positions :
               /\ last_processes_block <= chain[p].block /\ chain[p].block <= latest_block
               /\ Passed(p) \/ Asked(p)}
    BY DEF HandedOver, Polling

LEMMA HandedNextRange ==
    ASSUME FeedInv, NextRange
    PROVE  HandedOver' = HandedOver
<1>1. /\ UNCHANGED <<chain, last_processes_block, latest_block, next_address>>
      /\ from_block' = RangeEnd(from_block) + 1
      /\ logs = {} /\ pc = "send" /\ pc' = "query"
    BY DEF NextRange, chainVars
<1>2. RangeEnd(from_block) \in Nat /\ from_block \in Nat /\ from_block <= RangeEnd(from_block)
    BY <1>1, RangeEndBounds, Numbers DEF Polling, FeedInv, CoverageInv
<1>3. ASSUME NEW p \in Positions PROVE Passed(p)' <=> Passed(p) \/ Asked(p)
    <2>1. chain[p].block \in Nat
        BY LogFields DEF FeedInv
    <2> QED
        BY <1>1, <1>2, <2>1 DEF Passed, Asked, Chunk
<1> QED
    BY <1>1, <1>3, HandedAtEndOfRange DEF HandedOver, Polling

LEMMA HandedNextChunk ==
    ASSUME FeedInv, NextChunk
    PROVE  HandedOver' = HandedOver
<1>1. /\ UNCHANGED <<chain, last_processes_block, latest_block>>
      /\ next_address' = next_address + ChunkSize
      /\ from_block' = last_processes_block
      /\ logs = {} /\ pc = "send" /\ pc' = "query"
      /\ RangeEnd(from_block) >= latest_block
    BY DEF NextChunk, chainVars
<1>2. /\ RangeEnd(from_block) = latest_block /\ next_address \in Nat
      /\ ChunkSize \in Nat /\ last_processes_block \in Nat /\ from_block \in Nat
      /\ latest_block \in Nat /\ \A j \in DOMAIN Addresses : j \in Nat
    BY <1>1, RangeEndBounds, Numbers DEF Polling, FeedInv, CoverageInv
<1>3. ASSUME NEW p \in Positions,
             last_processes_block <= chain[p].block, chain[p].block <= latest_block
      PROVE  Passed(p)' <=> Passed(p) \/ Asked(p)
    <2>1. chain[p].block \in Nat /\ ~(chain[p].block < last_processes_block)
        <3>1. chain[p].block \in Nat
            BY LogFields DEF FeedInv
        <3> QED
            BY <1>2, <1>3, <3>1
    <2>2. Passed(p)' <=> \E j \in DOMAIN Addresses :
                            j < next_address + ChunkSize /\ Addresses[j] = chain[p].address
        BY <1>1, <2>1 DEF Passed
    <2>3. Passed(p) \/ Asked(p) <=>
             \/ \E j \in DOMAIN Addresses : j < next_address /\ Addresses[j] = chain[p].address
             \/ chain[p].address \in Chunk(next_address)
        BY <1>2, <1>3, <2>1 DEF Passed, Asked
    <2>4. chain[p].address \in Chunk(next_address) <=>
             \E j \in DOMAIN Addresses : /\ next_address <= j /\ j < next_address + ChunkSize
                                       /\ Addresses[j] = chain[p].address
        BY DEF Chunk
    <2> QED
        BY <1>2, <2>2, <2>3, <2>4
<1> QED
    BY <1>1, <1>3, HandedAtEndOfRange DEF HandedOver, Polling

LEMMA HandedQuery ==
    ASSUME FeedInv, QueryOk
    PROVE  HandedOver' = HandedOver
<1>1. /\ UNCHANGED <<chain, last_processes_block, latest_block, next_address, from_block>>
      /\ pc = "query" /\ pc' = "send"
      /\ logs' = LogsIn(Chunk(next_address), from_block, RangeEnd(from_block))
    BY DEF QueryOk, chainVars
<1>2. \A p \in Positions : (Passed(p)' <=> Passed(p)) /\ (Asked(p)' => p \in logs')
    BY <1>1 DEF Passed, Asked, Chunk, RangeEnd, LogsIn
<1> QED
    BY <1>1, <1>2 DEF HandedOver, Polling

LEMMA HandedAtBegin ==
    ASSUME FeedInv, NEW n \in MinReport .. head, ReportHead(n)
    PROVE  HandedOver = {} /\ HandedOver' = {}
<1>1. HandedOver = {}
    BY NothingHanded DEF ReportHead, Polling
<1>2. n \in Nat /\ FirstBlock(n) \in Nat
    <2>1. n \in 0 .. MaxHead
        BY DEF FeedInv, TypeOK
    <2> QED
        BY <2>1, FirstBlockType DEF FeedInv, TypeOK, Block
<1>3. CASE n <= FirstBlock(n)
    BY <1>3 DEF ReportHead, PollSucceeds, HandedOver, Polling
<1>4. CASE ~(n <= FirstBlock(n))
    <2>1. /\ next_address' = 1 /\ from_block' = FirstBlock(n) /\ pc' = "query"
          /\ last_processes_block' = FirstBlock(n) /\ chain' = chain
        BY <1>4 DEF ReportHead, chainVars
    <2>2. ASSUME NEW p \in Positions, FirstBlock(n) <= chain[p].block PROVE ~Passed(p)'
        <3>1. chain[p].block \in Nat /\ \A j \in DOMAIN Addresses : ~(j < 1)
            BY LogFields, Numbers DEF FeedInv
        <3>2. ~(chain[p].block < from_block')
            BY <1>2, <2>1, <2>2, <3>1
        <3> QED
            BY <2>1, <3>1, <3>2 DEF Passed
    <2>3. HandedOver' = {}
        BY <2>1, <2>2 DEF HandedOver
    <2> QED
        BY <1>1, <2>3
<1> QED
    BY <1>1, <1>3, <1>4

LEMMA AllHanded ==
    ASSUME FeedInv, FinishPoll, NEW p \in Positions,
           last_processes_block <= chain[p].block
    PROVE  chain[p].block <= latest_block <=> p \in HandedOver
<1>1. /\ pc = "send" /\ logs = {} /\ RangeEnd(from_block) >= latest_block
      /\ next_address + ChunkSize > Len(Addresses)
    BY DEF FinishPoll
<1>2. /\ RangeEnd(from_block) = latest_block /\ next_address \in Nat
      /\ ChunkSize \in Nat /\ from_block \in Nat /\ latest_block \in Nat
      /\ DOMAIN Addresses = 1 .. Len(Addresses) /\ Len(Addresses) \in Nat
    BY <1>1, RangeEndBounds, Numbers DEF Polling, FeedInv, CoverageInv
<1>3. chain[p].block \in Nat /\ chain[p].address \in Contracts
    BY LogFields DEF FeedInv
<1>4. PICK j \in DOMAIN Addresses : Addresses[j] = chain[p].address
    BY <1>3 DEF Contracts
<1>5. j < next_address \/ chain[p].address \in Chunk(next_address)
    BY <1>1, <1>2, <1>4 DEF Chunk
<1>6. chain[p].block <= latest_block => Passed(p) \/ Asked(p)
    BY <1>2, <1>3, <1>4, <1>5 DEF Passed, Asked
<1> QED
    BY <1>1, <1>6, HandedAtEndOfRange

-----------------------------------------------------------------------------
(***************************************************************************)
(* The step simulation.                                                    *)
(***************************************************************************)
LEMMA PollerSimulates ==
    ASSUME FeedInv, PollerNext
    PROVE  [Feed!Next]_(Feed!vars)
<1> USE DEF chainVars, queueVars, pollVars, ghostVars
<1>0. [Next]_vars
    BY DEF Next
<1>1. CASE Select \/ StopOnCancel \/ Wake \/ HeadError
    <2>1. ~Polling /\ ~Polling' /\ UNCHANGED <<chain, head, receiving, last_processes_block, sent>>
        BY <1>1 DEF Select, StopOnCancel, Wake, HeadError, PollFails, Polling
    <2>2. HandedOver' = HandedOver
        BY <2>1 DEF HandedOver
    <2> QED
        BY <2>1, <2>2 DEF Feed!vars
<1>2. ASSUME NEW n \in MinReport .. head, ReportHead(n) PROVE [Feed!Next]_(Feed!vars)
    <2>1. HandedOver = {} /\ HandedOver' = {} /\ UNCHANGED <<chain, head, receiving, sent>>
        BY <1>2, HandedAtBegin DEF ReportHead
    <2>2. CASE last_processes_block = 0
        <3>1. last_processes_block' \in Nat
            BY <1>0, TypeStep, Numbers DEF FeedInv, TypeOK, Block
        <3>2. Feed!First
            BY <2>1, <2>2, <3>1 DEF Feed!First
        <3> QED
            BY <3>2 DEF Feed!Next
    <2>3. CASE last_processes_block # 0
        <3>1. UNCHANGED last_processes_block
            BY <1>2, <2>3 DEF ReportHead, FirstBlock
        <3> QED
            BY <2>1, <3>1 DEF Feed!vars
    <2> QED
        BY <2>2, <2>3
<1>3. CASE QueryError
    <2>1. ~Polling' /\ UNCHANGED <<chain, head, receiving, last_processes_block, sent>>
        BY <1>3 DEF QueryError, PollFails, Polling
    <2>2. HandedOver' = {}
        BY <2>1 DEF HandedOver
    <2>3. Feed!Rewind
        BY <2>1, <2>2 DEF Feed!Rewind
    <2> QED
        BY <2>3 DEF Feed!Next
<1>4. CASE QueryOk \/ NextRange \/ NextChunk
    <2>1. HandedOver' = HandedOver
        BY <1>4, HandedQuery, HandedNextRange, HandedNextChunk
    <2>2. UNCHANGED <<chain, head, receiving, last_processes_block, sent>>
        BY <1>4 DEF QueryOk, NextRange, NextChunk
    <2> QED
        BY <2>1, <2>2 DEF Feed!vars
<1>5. ASSUME NEW p \in logs, SendLog(p) PROVE [Feed!Next]_(Feed!vars)
    <2>1. /\ HandedOver' = HandedOver \cup {p} /\ pc = "send" /\ IsNext(p)
          /\ UNCHANGED <<chain, head, receiving, last_processes_block>>
          /\ chain[p].kind # "malformed" /\ receiving[chain[p].address]
          /\ sent' = sent \cup {p}
        BY <1>5, HandedOne DEF SendLog
    <2>2. Feed!InTurn(p) /\ p \in Positions
        BY <2>1, AskedInTurn, Numbers, LogFields DEF Feed!InTurn, FeedInv
    <2>3. Feed!Hand(p)
        BY <2>1, <2>2 DEF Feed!Hand, Feed!Wanted
    <2> QED
        BY <2>2, <2>3 DEF Feed!Next
<1>6. ASSUME NEW p \in logs, SkipLog(p) PROVE [Feed!Next]_(Feed!vars)
    <2>1. /\ HandedOver' = HandedOver \cup {p} /\ pc = "send" /\ IsNext(p)
          /\ UNCHANGED <<chain, head, receiving, last_processes_block, sent>>
          /\ chain[p].kind = "malformed" \/ ~receiving[chain[p].address]
        BY <1>6, HandedOne DEF SkipLog
    <2>2. Feed!InTurn(p) /\ p \in Positions
        BY <2>1, AskedInTurn, Numbers, LogFields DEF Feed!InTurn, FeedInv
    <2>3. Feed!Skip(p)
        BY <2>1, <2>2 DEF Feed!Skip, Feed!Wanted
    <2> QED
        BY <2>2, <2>3 DEF Feed!Next
<1>7. CASE FinishPoll
    <2>1. /\ ~Polling' /\ UNCHANGED <<chain, head, receiving, sent>>
          /\ last_processes_block' = latest_block + 1 /\ Polling
        BY <1>7 DEF FinishPoll, PollSucceeds, Polling
    <2>2. HandedOver' = {}
        BY <2>1 DEF HandedOver
    <2>3. latest_block \in (last_processes_block + 1) .. head
        BY <2>1, Numbers DEF FeedInv, CoverageInv, PollInv, WidthInv
    <2>4. Feed!Commit(latest_block)
        BY <1>7, <2>1, <2>2, AllHanded DEF Feed!Commit
    <2> QED
        BY <2>3, <2>4 DEF Feed!Next
<1> QED
    BY <1>1, <1>2, <1>3, <1>4, <1>5, <1>6, <1>7 DEF PollerNext

LEMMA EnvironmentSimulates ==
    ASSUME FeedInv, EnvNext \/ UNCHANGED vars
    PROVE  [Feed!Next]_(Feed!vars)
<1> USE DEF chainVars, queueVars, pollVars, ghostVars, pollerState
<1>0. HandedOver' = HandedOver /\ UNCHANGED <<last_processes_block, sent>>
    <2>1. UNCHANGED <<pc, last_processes_block, pollVars, sent>>
        BY DEF EnvNext, MineLog, SealBlock, Cancel, Receive, CloseReceiver, vars
    <2> QED
        BY <2>1, HandedKept DEF Next
<1>1. ASSUME NEW a \in Contracts, NEW k \in Kinds, MineLog(a, k)
      PROVE  [Feed!Next]_(Feed!vars)
    <2>1. Feed!Mine(a, k)
        BY <1>0, <1>1 DEF MineLog, Feed!Mine
    <2> QED
        BY <2>1 DEF Feed!Next
<1>2. CASE SealBlock
    BY <1>0, <1>2 DEF SealBlock, Feed!Seal, Feed!Next
<1>3. ASSUME NEW a \in Contracts, CloseReceiver(a) PROVE [Feed!Next]_(Feed!vars)
    <2>1. Feed!Close(a)
        BY <1>0, <1>3 DEF CloseReceiver, Feed!Close
    <2> QED
        BY <2>1 DEF Feed!Next
<1>4. CASE Cancel \/ UNCHANGED vars \/ \E a \in Contracts : Receive(a)
    BY <1>0, <1>4 DEF Cancel, Receive, vars, Feed!vars
<1> QED
    BY <1>1, <1>2, <1>3, <1>4 DEF EnvNext

(***************************************************************************)
(* The poller, with its chunks, sub-ranges, retries and channels, is a     *)
(* feed of logs as LogFeed has it.                                         *)
(***************************************************************************)
THEOREM ImplementsFeed == Spec => KeepsFeed
<1>1. Init => Feed!Init
    <2> SUFFICES ASSUME Init PROVE Feed!Init
        OBVIOUS
    <2>1. HandedOver = {}
        BY DEF Init, HandedOver, Polling
    <2>2. last_processes_block \in Nat /\ head \in Nat
        BY TypeInit, Numbers
    <2> QED
        BY <2>1, <2>2 DEF Init, Feed!Init
<1>2. FeedInv /\ [Next]_vars => [Feed!Next]_(Feed!vars)
    BY PollerSimulates, EnvironmentSimulates DEF Next
<1> QED
    BY <1>1, <1>2, FeedInvInductive, PTL DEF Spec, KeepsFeed, Feed!Spec

=============================================================================
