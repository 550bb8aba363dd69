------------------------------- MODULE Poller -------------------------------
(***************************************************************************)
(* The event poller of crates/scribe/src/events_poller.rs.                 *)
(*                                                                         *)
(* One task wakes up every poll_interval, asks the RPC endpoint for the    *)
(* head of the chain and for the logs of every block it has not covered    *)
(* yet, and sends each decoded log to the channel of the processor that    *)
(* watches the log's contract.  The chain, the RPC endpoint and the        *)
(* processors' ends of the channels are the environment of this module.    *)
(***************************************************************************)
EXTENDS Integers, Sequences

CONSTANTS
    Addresses,      \* the watched contracts, in the order HashMap::keys gives
    ChunkSize,      \* MAX_ADDRESS_PER_REQUEST
    MaxRetry,       \* MAX_RETRY_COUNT
    History,        \* MAX_HISTORY_BLOCKS
    FromBlock,      \* --from-block, or None
    MaxRange,       \* --max-block-range, or None
    Capacity,       \* of a processor's channel
    U64,            \* the modulus of u64 arithmetic
    None,
    Kinds,          \* what a watched contract logs; "malformed" fails to decode
    FirstHead,      \* the head of the chain when the program starts
    MinReport,      \* no node of the endpoint ever reports a lower head
    MaxHead, MaxLogs, MaxFaults   \* bounds on the environment

ASSUME PollerAssumption ==
    /\ Addresses \in Seq({Addresses[i] : i \in DOMAIN Addresses}) /\ Addresses # <<>>
    /\ \A i, j \in DOMAIN Addresses : Addresses[i] = Addresses[j] => i = j
    /\ ChunkSize \in Nat \ {0} /\ Capacity \in Nat \ {0}
    /\ MaxRetry \in Nat /\ U64 \in Nat /\ History \in 0 .. U64 - 1
    /\ None \notin Int
    /\ FromBlock = None \/ FromBlock \in 0 .. U64 - 1
    /\ MaxRange = None \/ MaxRange \in Nat \ {0}
    /\ FirstHead \in Nat /\ MinReport \in 0 .. FirstHead
    /\ MaxHead \in Nat /\ FirstHead <= MaxHead /\ MaxHead + 1 < U64
    /\ MaxLogs \in Nat /\ MaxFaults \in Nat

(***************************************************************************)
(* MaxRange = 0 and ranges that overflow u64 are the subject of module     *)
(* BlockRanges; here a range is added to a block without wrapping.         *)
(***************************************************************************)

VARIABLES
    chain,      \* the logs of the watched contracts, in chain order
    head,       \* the last sealed block
    cancelled,  \* the cancellation token
    channel,    \* per contract, the logs (positions in chain) in its channel
    receiving,  \* per contract, whether its processor still holds rx
    \* the poller
    pc, last_processes_block, retry_count,
    latest_block, next_address, from_block, logs,
    \* history
    start,      \* the block the poller took as its first
    sent,       \* the logs that were put in a channel
    failedHigh, \* the highest block a failed poll had asked for
    streak,     \* failed polls since the last successful one
    faults      \* RPC errors so far

chainVars  == <<chain, head>>
pollVars   == <<latest_block, next_address, from_block, logs>>
queueVars  == <<channel, receiving>>
ghostVars  == <<start, sent, failedHigh, streak, faults>>
vars == <<chainVars, cancelled, queueVars, pc, last_processes_block,
          retry_count, pollVars, ghostVars>>

-----------------------------------------------------------------------------

Contracts == {Addresses[i] : i \in DOMAIN Addresses}

\* The chunk of addresses that starts at position i of the vector.
Chunk(i) == {Addresses[j] : j \in {k \in DOMAIN Addresses : i <= k /\ k < i + ChunkSize}}

\* The last block of the sub-range that starts at block b.
RangeEnd(b) == IF MaxRange = None \/ b + MaxRange - 1 > latest_block
               THEN latest_block
               ELSE b + MaxRange - 1

\* a - b on u64, as the release build computes it.
WrappingSub(a, b) == IF a >= b THEN a - b ELSE a - b + U64

\* Mutant of LogsIn: the last block of the range is left out.
HalfOpenLogsIn(contracts, lo, hi) ==
    {p \in DOMAIN chain : /\ chain[p].address \in contracts
                          /\ lo <= chain[p].block /\ chain[p].block < hi}

\* The answer of get_logs to query_logs, from a node that has block hi.
LogsIn(contracts, lo, hi) ==
    {p \in DOMAIN chain : /\ chain[p].address \in contracts
                          /\ lo <= chain[p].block /\ chain[p].block <= hi}

InitLast == IF FromBlock = None THEN 0 ELSE FromBlock

Init ==
    /\ chain = <<>> /\ head = FirstHead
    /\ cancelled = FALSE
    /\ channel = [a \in Contracts |-> <<>>]
    /\ receiving = [a \in Contracts |-> TRUE]
    /\ pc = "select" /\ last_processes_block = InitLast /\ retry_count = 0
    /\ latest_block = 0 /\ next_address = 1 /\ from_block = 0 /\ logs = {}
    /\ start = InitLast /\ sent = {} /\ failedHigh = -1 /\ streak = 0 /\ faults = 0

-----------------------------------------------------------------------------
\* Mutant of Select: the token is looked at only while the poller sleeps.
SelectIgnoresToken ==
    /\ pc = "select" /\ pc' = "sleep"
    /\ UNCHANGED <<chainVars, cancelled, queueVars, last_processes_block,
                   retry_count, pollVars, ghostVars>>

(***************************************************************************)
(* start(): the select! between the cancellation token and a fresh sleep.  *)
(* A token that is already cancelled when select! starts always wins,      *)
(* because the sleep cannot be over yet; later the two race.               *)
(***************************************************************************)
Select ==
    /\ pc = "select"
    /\ pc' = IF cancelled THEN "stopped" ELSE "sleep"
    /\ UNCHANGED <<chainVars, cancelled, queueVars, last_processes_block,
                   retry_count, pollVars, ghostVars>>

StopOnCancel ==
    /\ pc = "sleep" /\ cancelled
    /\ pc' = "stopped"
    /\ UNCHANGED <<chainVars, cancelled, queueVars, last_processes_block,
                   retry_count, pollVars, ghostVars>>

Wake ==
    /\ pc = "sleep"
    /\ pc' = "head"
    /\ UNCHANGED <<chainVars, cancelled, queueVars, last_processes_block,
                   retry_count, pollVars, ghostVars>>

\* Mutant of PollSucceeds: the retry count is never reset.
PollSucceedsKeepsCount ==
    /\ pc' = "select" /\ streak' = 0 /\ UNCHANGED retry_count

\* poll_for_new_events returned Ok: the retry count is reset.
PollSucceeds ==
    /\ pc' = "select" /\ retry_count' = 0 /\ streak' = 0

\* Mutant of PollFails: one retry too many.
PollFailsOnceMore ==
    /\ faults < MaxFaults
    /\ faults' = faults + 1 /\ streak' = streak + 1
    /\ IF retry_count > MaxRetry
       THEN pc' = "failed" /\ UNCHANGED retry_count
       ELSE pc' = "select" /\ retry_count' = retry_count + 1

\* poll_for_new_events returned Err: one more retry, or give up.
PollFails ==
    /\ faults < MaxFaults
    /\ faults' = faults + 1 /\ streak' = streak + 1
    /\ IF retry_count >= MaxRetry
       THEN pc' = "failed" /\ UNCHANGED retry_count
       ELSE pc' = "select" /\ retry_count' = retry_count + 1

(***************************************************************************)
(* poll_for_new_events: some node of the endpoint answers get_block_number *)
(* with n, which may lag behind the head.                                  *)
(***************************************************************************)
FirstBlock(n) == IF last_processes_block = 0
                 THEN WrappingSub(n, History)
                 ELSE last_processes_block

ReportHead(n) ==
    /\ pc = "head"
    /\ last_processes_block' = FirstBlock(n)
    /\ start' = IF last_processes_block = 0 THEN FirstBlock(n) ELSE start
    /\ IF n <= FirstBlock(n)
       THEN PollSucceeds /\ UNCHANGED pollVars
       ELSE /\ pc' = "query"
            /\ latest_block' = n
            /\ next_address' = 1 /\ from_block' = FirstBlock(n)
            /\ UNCHANGED <<retry_count, streak, logs>>
    /\ UNCHANGED <<chainVars, cancelled, queueVars, sent, failedHigh, faults>>

HeadError ==
    /\ pc = "head"
    /\ PollFails
    /\ UNCHANGED <<chainVars, cancelled, queueVars, last_processes_block,
                   pollVars, start, sent, failedHigh>>

(***************************************************************************)
(* chunk_and_poll_logs: for each chunk of addresses, for each sub-range,   *)
(* query the logs and send them one after the other.                       *)
(***************************************************************************)
QueryOk ==
    /\ pc = "query"
    /\ logs' = LogsIn(Chunk(next_address), from_block, RangeEnd(from_block))
    /\ pc' = "send"
    /\ UNCHANGED <<chainVars, cancelled, queueVars, last_processes_block,
                   retry_count, latest_block, next_address, from_block, ghostVars>>

\* Mutant of QueryError: the poll goes on with the next sub-range.
QueryErrorSkipsRange ==
    /\ pc = "query" /\ faults < MaxFaults
    /\ pc' = "send" /\ logs' = {} /\ faults' = faults + 1
    /\ UNCHANGED <<chainVars, cancelled, queueVars, last_processes_block, retry_count,
                   latest_block, next_address, from_block, start, sent, failedHigh, streak>>

QueryError ==
    /\ pc = "query"
    /\ PollFails
    /\ failedHigh' = IF latest_block > failedHigh THEN latest_block ELSE failedHigh
    /\ UNCHANGED <<chainVars, cancelled, queueVars, last_processes_block,
                   pollVars, start, sent>>

IsNext(p) == p \in logs /\ \A q \in logs : p <= q

\* send_log_for_processing: waits while the channel is full.
SendLog(p) ==
    LET a == chain[p].address IN
    /\ pc = "send" /\ IsNext(p)
    /\ chain[p].kind # "malformed" /\ receiving[a]
    /\ Len(channel[a]) < Capacity
    /\ channel' = [channel EXCEPT ![a] = Append(@, p)]
    /\ logs' = logs \ {p} /\ sent' = sent \cup {p}
    /\ UNCHANGED <<chainVars, cancelled, receiving, pc, last_processes_block,
                   retry_count, latest_block, next_address, from_block,
                   start, failedHigh, streak, faults>>

\* The log does not decode, or its receiver is gone: logged and skipped.
SkipLog(p) ==
    /\ pc = "send" /\ IsNext(p)
    /\ chain[p].kind = "malformed" \/ ~receiving[chain[p].address]
    /\ logs' = logs \ {p}
    /\ UNCHANGED <<chainVars, cancelled, queueVars, pc, last_processes_block,
                   retry_count, latest_block, next_address, from_block, ghostVars>>

NextRange ==
    /\ pc = "send" /\ logs = {} /\ RangeEnd(from_block) < latest_block
    /\ from_block' = RangeEnd(from_block) + 1
    /\ pc' = "query"
    /\ UNCHANGED <<chainVars, cancelled, queueVars, last_processes_block,
                   retry_count, latest_block, next_address, logs, ghostVars>>

NextChunk ==
    /\ pc = "send" /\ logs = {} /\ RangeEnd(from_block) >= latest_block
    /\ next_address + ChunkSize <= Len(Addresses)
    /\ next_address' = next_address + ChunkSize
    /\ from_block' = last_processes_block
    /\ pc' = "query"
    /\ UNCHANGED <<chainVars, cancelled, queueVars, last_processes_block,
                   retry_count, latest_block, logs, ghostVars>>

\* Mutants of FinishPoll: the cursor stays at the last block, or skips one.
FinishPollSameBlock ==
    /\ pc = "send" /\ logs = {} /\ RangeEnd(from_block) >= latest_block
    /\ next_address + ChunkSize > Len(Addresses)
    /\ last_processes_block' = latest_block
    /\ PollSucceeds
    /\ UNCHANGED <<chainVars, cancelled, queueVars, pollVars,
                   start, sent, failedHigh, faults>>

FinishPollSkipsBlock ==
    /\ pc = "send" /\ logs = {} /\ RangeEnd(from_block) >= latest_block
    /\ next_address + ChunkSize > Len(Addresses)
    /\ last_processes_block' = latest_block + 2
    /\ PollSucceeds
    /\ UNCHANGED <<chainVars, cancelled, queueVars, pollVars,
                   start, sent, failedHigh, faults>>

FinishPoll ==
    /\ pc = "send" /\ logs = {} /\ RangeEnd(from_block) >= latest_block
    /\ next_address + ChunkSize > Len(Addresses)
    /\ last_processes_block' = latest_block + 1
    /\ PollSucceeds
    /\ UNCHANGED <<chainVars, cancelled, queueVars, pollVars,
                   start, sent, failedHigh, faults>>

PollerNext ==
    \/ Select \/ StopOnCancel \/ Wake
    \/ \E n \in MinReport .. head : ReportHead(n)
    \/ HeadError \/ QueryOk \/ QueryError
    \/ \E p \in logs : SendLog(p) \/ SkipLog(p)
    \/ NextRange \/ NextChunk \/ FinishPoll

-----------------------------------------------------------------------------
(***************************************************************************)
(* The environment: blocks with logs, processors that take events from     *)
(* their channel or end and drop it, and the cancellation of the program.  *)
(***************************************************************************)
pollerState == <<pc, last_processes_block, retry_count, pollVars, ghostVars>>

MineLog(a, k) ==
    /\ Len(chain) < MaxLogs /\ head < MaxHead
    /\ chain' = Append(chain, [address |-> a, block |-> head + 1, kind |-> k])
    /\ UNCHANGED <<head, cancelled, queueVars, pollerState>>

SealBlock ==
    /\ head < MaxHead
    /\ head' = head + 1
    /\ UNCHANGED <<chain, cancelled, queueVars, pollerState>>

Receive(a) ==
    /\ channel[a] # <<>>
    /\ channel' = [channel EXCEPT ![a] = Tail(@)]
    /\ UNCHANGED <<chainVars, cancelled, receiving, pollerState>>

\* The processor's task ends: on a cancellation, or because it failed.
CloseReceiver(a) ==
    /\ receiving[a]
    /\ receiving' = [receiving EXCEPT ![a] = FALSE]
    /\ channel' = [channel EXCEPT ![a] = <<>>]
    /\ UNCHANGED <<chainVars, cancelled, pollerState>>

Cancel ==
    /\ ~cancelled
    /\ cancelled' = TRUE
    /\ UNCHANGED <<chainVars, queueVars, pollerState>>

EnvNext ==
    \/ \E a \in Contracts : \E k \in Kinds : MineLog(a, k)
    \/ SealBlock \/ Cancel
    \/ \E a \in Contracts : Receive(a) \/ CloseReceiver(a)

Next == PollerNext \/ EnvNext

Spec == Init /\ [][Next]_vars

(***************************************************************************)
(* Fairness.  Tokio runs the poller's task whenever it can go on; timers   *)
(* fire and RPC calls return.  An endpoint that lags does not lag for      *)
(* ever: a poll sees the head infinitely often.  A live processor drains   *)
(* its channel, and drops it after a cancellation.                         *)
(***************************************************************************)
Fairness ==
    /\ WF_vars(PollerNext)
    /\ SF_vars(ReportHead(head))
    /\ \A a \in Contracts : /\ WF_vars(Receive(a))
                            /\ WF_vars(cancelled /\ CloseReceiver(a))

LiveSpec == Spec /\ Fairness

-----------------------------------------------------------------------------
Logs == [address : Contracts, block : Nat, kind : Kinds]
LogIds == 1 .. MaxLogs
Positions == DOMAIN chain
Block == 0 .. U64 - 1

TypeOK ==
    /\ chain \in Seq(Logs) /\ Len(chain) <= MaxLogs
    /\ head \in FirstHead .. MaxHead
    /\ cancelled \in BOOLEAN
    /\ channel \in [Contracts -> Seq(LogIds)]
    /\ receiving \in [Contracts -> BOOLEAN]
    /\ pc \in {"select", "sleep", "head", "query", "send", "stopped", "failed"}
    /\ last_processes_block \in Block /\ retry_count \in 0 .. MaxRetry
    /\ latest_block \in 0 .. MaxHead /\ from_block \in Block
    /\ next_address \in 1 .. Len(Addresses)
    /\ logs \subseteq Positions /\ sent \subseteq Positions
    /\ start \in Block /\ failedHigh \in Block \cup {-1}
    /\ streak \in Nat /\ faults \in 0 .. MaxFaults

\* A log that decodes, of a contract whose processor is alive, was sent.
Handled(p) == \/ p \in sent
              \/ chain[p].kind = "malformed"
              \/ ~receiving[chain[p].address]

(***************************************************************************)
(* The cursor last_processes_block never passes over a log: every log      *)
(* between the first block of the poller and the cursor has been put in    *)
(* its contract's channel, whatever chunks, sub-ranges, RPC errors and     *)
(* lagging answers the polls went through.                                 *)
(***************************************************************************)
NoGap ==
    \A p \in Positions :
        start <= chain[p].block /\ chain[p].block < last_processes_block => Handled(p)

(***************************************************************************)
(* A log is sent again, or after a later log of its contract, only when an *)
(* earlier poll that failed half-way had already asked for its block       *)
(* ("we don't need to get data from same block twice").                    *)
(***************************************************************************)
SendsInOrder ==
    \A a \in Contracts : Len(channel'[a]) > Len(channel[a]) =>
        LET p == channel'[a][Len(channel'[a])] IN
        chain[p].block > failedHigh =>
            \A q \in sent : chain[q].address = a => q < p

FreshEventsInOrder == [][SendsInOrder]_vars

(***************************************************************************)
(* The poller gives up only after MaxRetry + 1 polls failed in a row: one  *)
(* good poll, an empty one included, clears the count.                     *)
(***************************************************************************)
GivesUpAfterStreak ==
    /\ pc = "failed" => streak = MaxRetry + 1
    /\ pc # "failed" => retry_count = streak

(***************************************************************************)
(* The cursor is at most one block ahead of the chain, so that the poller  *)
(* is never deaf to the blocks that follow (poll_for_new_events stores     *)
(* latest_block - MAX_HISTORY_BLOCKS on the first run).                    *)
(***************************************************************************)
CursorNotAhead == FromBlock = None => last_processes_block <= head + 1

Running == pc \notin {"stopped", "failed"} /\ ~cancelled

\* The log p lies behind a block hi that is sealed, and the poller has begun.
Due(p, hi) == /\ p \in Positions
              /\ last_processes_block # 0 /\ chain[p].block >= last_processes_block
              /\ chain[p].block <= hi

(***************************************************************************)
(* Every log that at least one sealed block follows is sent in the end,    *)
(* unless the poller stops.                                                *)
(***************************************************************************)
LogsAreSent ==
    \A p \in LogIds :
        Due(p, head - 1) ~> (~Running \/ (p \in Positions /\ Handled(p)))

(***************************************************************************)
(* "It will poll for new events in the range last_processes_block ..       *)
(* latest_block every poll_interval_seconds seconds": a log of the last    *)
(* sealed block is sent in the end as well.                                *)
(***************************************************************************)
TipIsPolled ==
    \A p \in LogIds :
        Due(p, head) ~> (~Running \/ (p \in Positions /\ Handled(p)))

(***************************************************************************)
(* A cancelled poller stops, even one that waits on a full channel.        *)
(***************************************************************************)
CancelStops == cancelled ~> pc \in {"stopped", "failed"}

-----------------------------------------------------------------------------
(***************************************************************************)
(* The inductive invariants: CoverageInv for NoGap, and with SentInv and   *)
(* LogsInv for FreshEventsInOrder.                                         *)
(***************************************************************************)
Polling == pc \in {"query", "send"}

\* Logs appear in block order, at most one block after the head.
ChainOrdered ==
    \A p \in Positions : /\ chain[p].block <= head + 1
                         /\ \A q \in Positions : p <= q => chain[p].block <= chain[q].block

\* A log that is mined later is not behind the cursor.
CursorInv == /\ start <= last_processes_block
             /\ last_processes_block <= head + 1 \/ last_processes_block = start

\* The poll in progress asks for sealed blocks, from the cursor on.
PollInv == Polling => /\ last_processes_block <= from_block
                      /\ from_block <= latest_block /\ latest_block <= head

\* The chunks and the sub-ranges this poll has been through.
Passed(p) == \/ \E j \in DOMAIN Addresses : j < next_address /\ Addresses[j] = chain[p].address
             \/ chain[p].address \in Chunk(next_address) /\ chain[p].block < from_block

Asked(p) == /\ chain[p].address \in Chunk(next_address)
            /\ from_block <= chain[p].block /\ chain[p].block <= RangeEnd(from_block)

ProgressInv ==
    /\ Polling => \A p \in Positions :
           /\ last_processes_block <= chain[p].block /\ chain[p].block <= latest_block
           /\ Passed(p)
           => Handled(p)
    /\ pc = "send" => \A p \in Positions : Asked(p) => p \in logs \/ Handled(p)

\* A log was sent by a poll that finished, by one that failed, or by this one.
SentInv ==
    \A q \in sent :
        \/ chain[q].block < last_processes_block
        \/ chain[q].block <= failedHigh
        \/ /\ Polling /\ chain[q].block <= latest_block
           /\ \/ Passed(q)
              \/ pc = "send" /\ Asked(q) /\ \A p \in logs : q < p

LogsInv == pc = "send" => \A p \in logs : Asked(p)

CoverageInv == /\ ChainOrdered /\ CursorInv /\ PollInv /\ ProgressInv /\ NoGap

-----------------------------------------------------------------------------
(***************************************************************************)
(* The poller keeps the promise of LogFeed, which the processors live by:  *)
(* per contract the logs come in chain order from the cursor on, a failed  *)
(* poll begins again at the cursor, and the cursor passes nothing that was *)
(* not handed over.                                                        *)
(***************************************************************************)
HandedOver ==
    IF Polling
    THEN {p \in Positions : /\ last_processes_block <= chain[p].block
                            /\ chain[p].block <= latest_block
                            /\ Passed(p) \/ (pc = "send" /\ Asked(p) /\ p \notin logs)}
    ELSE {}

Feed == INSTANCE LogFeed WITH cursor <- last_processes_block, handed <- HandedOver

KeepsFeed == Feed!Spec

=============================================================================
