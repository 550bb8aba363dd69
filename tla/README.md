# A formal model of challenger-rs

`challenger` watches `ScribeOptimistic` contracts on an Ethereum chain. For every `OpPoked`
event it checks the Schnorr signature of the poke and, when the signature is bad and the
challenge period is not over, sends an `opChallenge` transaction. A poke that is missed, or
challenged too late, stands; so the questions this project asks are: is every event seen, is
every invalid poke challenged once and no more, does a shutdown or a failure leave anything
behind.

Paths are relative to the root of the repository. Line numbers are in `PROJECT.json`, under
`map` for every definition.

## 1. Inventory

| Component | Source | State | Operations | Modelled in |
|---|---|---|---|---|
| Event poller | `crates/scribe/src/events_poller.rs` | cursor `last_processes_block`, `retry_count` | `start`, `poll_for_new_events`, `chunk_and_poll_logs`, `query_logs`, `send_log_for_processing` | `Poller`, `LogFeed` |
| Range splitting | same, `chunk_and_poll_logs` | `current`, `ranges` | the `while` loop | `BlockRanges` |
| Events processor | `crates/scribe/src/event_processor.rs` | `challenge_period`, `challenge_process_cancelation_token`, its channel | `start`, `refresh_challenge_period`, `handle_event`, `spawn_challenge`, `cancel_challenge` | `Processor`, `ChallengeIntent` |
| Challenge tasks | same, `spawn_challenge` | one child token each | delay, `contract.challenge`, cancellation | `Processor` |
| Contract client | `crates/scribe/src/contract.rs` | none of its own; nonces and receipts on the chain | `is_log_stale`, `is_signature_valid`, `challenge`, `challenge_with_flashbots`, `challenge_with_public` | `ChallengeTx`; the first two `Challenger` |
| Supervisor | `src/main.rs` | the `JoinSet`, the cancellation token, the channels | parse, make the wallet, the providers and the addresses, spawn, `select!` on ctrl-c and the first task that ends, `join_all` | `Supervisor` |
| Poller's builder | `crates/scribe/src/events_poller.rs` | its fields | `builder`, `with_...`, `build` | `Supervisor` |
| Wallet selection | `src/wallet.rs` | none | `wallet`, `from_private_key`, `get_from_keystore` | `Supervisor` |
| Event decoding | `crates/scribe/src/event.rs` | none | `Event::try_from` | `Challenger`; as the `kind` of a log in `Poller` |
| RPC provider | `crates/scribe/src/provider.rs` | none | `get_block_number`, `get_logs` | as the environment of `Poller` |
| Metrics, errors | `metrics.rs`, `error.rs` | counters | | not modelled |

How they interact:

* `main` makes one processor per address and hands the sending ends of their channels (100
  events each) to the poller. All of them hold clones of one cancellation token.
* Every 30 s the poller asks for the head of the chain and for the logs between its cursor and
  the head, chunk of addresses by chunk, sub-range by sub-range, and sends each log to the channel
  of its contract. It waits while that channel is full.
* A processor takes one event at a time. For `OpPoked` it awaits the staleness and signature
  checks, and spawns a task that sleeps 200 ms and then sends the challenge; for
  `OpPokeChallengedSuccessfully` it cancels the task it spawned last.
* `main` waits for ctrl-c or for the first task to end, cancels the token, and waits for the
  tasks of the `JoinSet` (the challenge tasks are not among them).

What is hard, and which property is about it (the full list, with lines, is `hazards` in
`PROJECT.json`):

* polls that fail half-way, and nodes of one endpoint that lag behind one another: `NoGap`,
  `FreshEventsInOrder`, `LogsAreSent`, `KeepsFeed`;
* the retry count, which must count failures in a row: `GivesUpAfterStreak`;
* block arithmetic in `u64`: `CursorNotAhead`, `Tiles`, `Disjoint`, `Terminates`, `ZeroLimitLoops`;
* bounded channels, and a shutdown while somebody waits on one: `CancelStops`;
* events, timers, RPC answers and cancellation racing in the processor and its tasks:
  `OnlyCurrentTaskLive`, `KeepsIntent`, `ShutdownEndsTasks`, `SuccessEndsChallenge`;
* transactions whose fate is not known after a time-out, lost answers, and the nonces of a common
  signer: `OkMeansSettled`, `NoNeedlessFallback`, `NothingStuck`, `FailuresHaveCause`, `CallEnds`,
  `PokeFallsOrRaced`;
* the way of a poke from its log to its challenge, across a poll that fails, a check of three calls
  during which the chain goes on, a clock that is off: `NoPokeForgotten`, `ChallengesAreJustified`,
  `RepeatNeedsRewind`, `SuccessIsFinal`, `AgeIsJudged`;
* the life of the program, whose parts must all end when one does, and whose challenge tasks belong
  to no set: `ProgramEnds`, `NobodyLeftBehind`, `AddressesWatched`, `OnlyDuplicatesStayDeaf`.

What makes each component correct:

* *Poller*: the cursor moves past a block only when all its logs were delivered; logs are
  delivered in chain order, and again only after a failure; it gives up only after
  `MAX_RETRY_COUNT + 1` failures in a row; it stops when cancelled; it sees every log in the end.
* *Range splitting*: the sub-ranges cover the range exactly, without overlap, each within the
  limit; the loop ends.
* *Processor*: at most one challenge at a time, of the poke last found challengeable; a challenge
  that was cancelled, or belongs to a program that is shut down, does not begin; nothing survives
  a shutdown.
* *Contract client*: one challenge per poke on the chain; success is reported only for a
  transaction that succeeded; a stale poke is not challenged.
* *Supervisor*: every address is watched; if any part ends, all of them end, and the program with
  them; no challenge goes on that the program's token does not reach.
* *The whole*: a poke with a bad signature that is handed over is challenged, unless its check
  fails or finds it stale, or a later event of its contract overtakes it; no other poke is challenged.

## 2. Modules

`Poller`. The task of `Poller::start`, one action per step between two awaits: `Select`,
`StopOnCancel` and `Wake` are its `select!`; `ReportHead(n)` is `poll_for_new_events` up to the
call of `chunk_and_poll_logs`, with the answer `n` of `get_block_number`; `QueryOk`, `SendLog`,
`SkipLog`, `NextRange`, `NextChunk` are the nested loops; `FinishPoll` is the return to
`poll_for_new_events` and `start`; `HeadError` and `QueryError` are the two places an RPC error
can come from (`PollFails` is what `start` does with it). `Wake` stands for any moment of the
sleep: time has no other role. The variables `pc`, `next_address`, `from_block`, `logs`,
`latest_block` are the positions and locals of the nested loops; `from_block` walks the
sub-ranges one by one instead of building the vector first, which `BlockRanges` does. `start`,
`sent`, `failedHigh`, `streak`, `faults` are history: no action reads them, but for `faults`,
which bounds the RPC errors.

The chain is a sequence of logs; a log of block `head + 1` may be added until `SealBlock` seals
that block. `get_block_number` answers any sealed block from `MinReport` on, so a node may be
behind the one asked before. The two answers of one poll are consistent: `get_logs` is answered
by a node that has the blocks of the range (see section 6). A log is an `OpPoked`, which stands
for both events, as the poller treats them alike, or one that does not decode.

`BlockRanges`. The loop that builds the vector of sub-ranges, on words of `U64` values with the
wrap-around of the release build (`Dockerfile` builds with `--release`; a debug build panics
instead). The vector is a set. With `max_block_range = 0` the loop pushes the same range over and
over, which on a set is a step that changes nothing; `ZeroLimitLoops` says that `done` is then never
reached (but for a range that starts at block 0, where the end wraps to 2^64 - 1 and is cut at the head).

`Processor`. The task of `ScribeEventsProcessor::start` and every task it spawned. `event` and
the program counter `checking` are the await of `is_op_poke_challengeable`: its answer is
`Challengeable` or `NotChallengeable` (also an error, which is only logged), whatever happened in
between. The `select!` of `start` takes either branch when both are ready. A token is the index
of the task that holds its child; `IsCancelled` joins the child token with the program's.
A task is in its delay, or in `contract.challenge`, or has ended. `DelayOver` needs a token that
is not cancelled: if the sleep ends in the poll of the task that also sees the cancellation, the
call starts at most up to its first await and is dropped there, before any request is sent.

`ChallengeIntent`. The promise of the comment above `ScribeEventsProcessor`, without tasks and
tokens: one wanted poke at most, replaced by a newer one, withdrawn by a success, used up by
beginning its challenge, none after the program is closed. `Processor` is shown to implement it,
with `want <- Wanted` (the poke of the current task while it is in its delay) and
`closed <- cancelled`.

`ChallengeTx`. The calls of `contract.challenge` of all contracts, which sign with one account.
`pc[c]` is the await a call is at: `fill`, `send_raw`, `watch`, `receipt` are those of
`challenge_with_flashbots`, `nonce`, `send`, `watch_public` those of `challenge_with_public`;
`FallBack` is the `match` of `challenge`, which takes every error to the public mempool. A
transaction is a call, a nonce and the mempool it was sent to; two with one nonce exclude each
other. `Include` puts the transaction with the next nonce on the chain: it succeeds if its poke
still stands, and reverts otherwise; `during` remembers where its call was. What nodes do is taken
from how the code uses them: the gas estimate in `fill` and `send` fails when `opChallenge` would
revert; the public endpoint answers the pending nonce, and refuses a nonce that is used or taken;
the private one answers any nonce between the latest and the pending one (the comment in
`challenge_with_public` tells of the latest), and may forget a transaction. `PrivateError` and
`PublicError` are RPC errors, with the answer to a sender lost or not. `Drop` is the cancellation of
the task. `Settle` is another challenger, or the end of the period. `faulty` and `raced` are
history: the calls that met an RPC error, and those whose nonce another call used.

`LogFeed`. What a processor may rely on of the poller, without chunks, sub-ranges, retries and
channels: per contract, logs come in chain order from the cursor on (`Hand`, `Skip` for a log that
does not decode or whose receiver is gone); a poll that fails begins again at the cursor (`Rewind`);
the cursor moves to `b + 1` only when exactly the logs up to `b` were handed over (`Commit`). `Poller`
is shown to implement it, with `cursor <- last_processes_block` and `handed <- HandedOver`: the logs
of the chunks and sub-ranges the poll in progress has passed.

`Challenger`. One contract end to end. It EXTENDS `Processor`, takes its logs from `LogFeed` by
INSTANCE, with `Deliver` and `Hand` in one step (`SendLog`, the `send` on the channel), and puts
`is_op_poke_challengeable` between `ReceivePoke` and the verdict: `check` is the call it waits for,
`"age"` (the block's time), `"message"` (`constructPokeMessage`) or `"signature"`
(`isAcceptableSchnorrSignatureNow`), and everything else may happen in between. A poke is the position
of its log. Time is counted in blocks; `offset` is how far the local clock is ahead of the chain, or
behind it if negative, and `IsLogStale` subtracts in u64. `Accepts` is the contract, as far as the code
counts on it: one op-poke at a time
until its period is over, and a success only for an invalid one. `fate` (how the last check of a poke
ended) and `rewinds` (polls that failed after they had handed something over) are history; `rewinds`
also bounds the failures. Since `Poller` implements `LogFeed`, and `Challenger` is proved to refine
both `LogFeed` and `Processor`, the three fit together. Left out of the system, and free in
`Processor`: the loss of the sender (`Supervisor` has it) and the result of `contract.challenge`
(the subject of `ChallengeTx`; nothing in the system reads it).

`Supervisor`. `main`, one action per part between two points where it can return or wait: `Parse`,
`ChooseWallet`, `BuildProviders`, `ParseAddresses`, `InstallMetrics`, `SpawnProcessor` (once per
spelling, in the order of `sort`), `SpawnPoller`, `SpawnCollector`, then `CtrlC` or `JoinFirst` out of
the `select!`, `JoinNext` for `join_all`, `Return`. An address is given in a *spelling*; equal
spellings are one, as after `dedup`, and two of one address are two, whose second entry in the map
`handler_channels` replaces the first. `Wallet`, `GetFromKeystore`, `Password`, `FromPrivateKey` are
`src/wallet.rs` as functions of the command line. `Builder`, `With`, `Build` are `PollerBuilder`,
whose default token is nobody's. The tasks are seen from outside: waiting in a call, where they do not
look at the token, or not; ended `ok`, with an `error` or in a `panic`, which may come at any time.
A processor is spawned with the receiving end of a channel, and the map keeps the sending one.
`HasEntry(s)` says that the map leads to processor `s`, and `HasSender(s)` that its sender still exists:
the map moves into the poller's task and is dropped with it, however that task ends. A processor may
then still take what was sent before (`TakePoke`; the model does not count these events, which only
adds behaviours); one without an entry was never sent anything, and spins: a step that changes nothing.
The runtime is gone when `main` returns, and the tasks with it.

`MCPoller`, `MCProcessor`, `MCChallengeTx`, `MCBlockRanges`, `MCChallenger`, `MCSupervisor` give the
constants their values. `PollerProofs`, `PollerFeedProofs`, `ProcessorProofs`, `ChallengeTxProofs`,
`BlockRangesProofs`, `ChallengerProofs`, `ChallengerOrderProofs`, `SupervisorProofs` hold the theorems.

Next to some definitions stands a *mutant* of it, named in a comment: the same step with a
plausible bug. No specification uses them; `PROJECT.json` pairs each with the property that
catches it when it takes the place of the original.

## 3. Runs

| Run | Configuration | Shows |
|---|---|---|
| `poller` | `MCPoller.cfg` | `NoGap`, `FreshEventsInOrder`, `GivesUpAfterStreak`, `CursorNotAhead`, `KeepsFeed` |
| `poller_live` | `MCPollerLive.cfg` | `LogsAreSent`, `CancelStops` |
| `processor` | `MCProcessor.cfg` | `OnlyCurrentTaskLive`, `KeepsIntent`, `ShutdownEndsTasks`, `SuccessEndsChallenge` |
| `tx` | `MCChallengeTx.cfg` | `OkMeansSettled`, `NoNeedlessFallback`, `NothingStuck`, `FailuresHaveCause`, `CallEnds`, `PokeFallsOrRaced` |
| `ranges` | `MCBlockRanges.cfg` | `Tiles`, `Disjoint`, `Terminates`, `ZeroLimitLoops` |
| `challenger` | `MCChallenger.cfg` | `ChallengesAreJustified`, `RepeatNeedsRewind`, `NoPokeForgotten`, `SuccessIsFinal`, `AgeIsJudged` |
| `supervisor` | `MCSupervisor.cfg` | `AddressesWatched`, `OnlyDuplicatesStayDeaf`, `NobodyLeftBehind`, `ProgramEnds` |
| `poller_young_chain` | `MCPollerYoungChain.cfg` | violated: `CursorNotAhead` |
| `poller_stalled_head` | `MCPollerStalledHead.cfg` | violated: `TipIsPolled` |
| `tx_nonce_race` | `MCChallengeTxNonceRace.cfg` | violated: `PokeFalls` |
| `tx_reverted` | `MCChallengeTxReverted.cfg` | violated: `OkMeansChallenged` |
| `supervisor_two_spellings` | `MCSupervisorTwoSpellings.cfg` | violated: `SenderlessStop` |

Bounds, and why they are enough:

* `poller` (1.9 million states): two contracts in two chunks; `MaxRange = 1` so that a poll of two
  blocks has two sub-ranges; three sealed blocks and two logs, so that a log can be in either
  sub-range, one can be mined while the other is sent, and two can be of one contract;
  `Capacity = 1` so that a channel is full after one log; `MaxRetry = 1` and `MaxFaults = 2` so that
  the poller can fail, recover and fail again, or give up; nodes may lag by three blocks, and by one
  below the head at the start. `History = 1` (5 in the code) keeps the blocks few.
* `poller_live` drops malformed logs and lag below the first head, and has one fault, which leaves
  the poller one retry; what is asked of it is what happens in the long run.
* `processor` (15,580 states): three events of two pokes, so that a task can be replaced by one of
  another poke and by one of the same poke sent again, with a success in between; a channel of two.
* `tx` (198,538 states): two calls, of one poke or of two, so that nonces collide, and a poke is
  challenged again after its first call was dropped. A call sends two transactions at most, so
  `MaxNonce = 4` is never reached by a nonce in use: the bound cuts nothing off.
* `ranges` (1,232 states): a word of 16 values, every head up to 9 and limit from 0 to 6, so that the
  last range is cut, fits exactly, or is the only one, and the limit that makes the loop go on for
  ever is among them; no sum overflows, which is the assumption of the theorems too (`NoOverflow`). It
  leaves out a `--max-block-range` near 2^64, which `main` does not refuse and with which line 255 wraps.
* `challenger` (2.3 million states): three logs, so that a poke, the success that answers it and a
  later poke fit, or two pokes and a success; four blocks, so that a period of one ends while a check is
  waiting; one failed poll that hands everything over again, which makes at most six events; a channel
  of two, so that it is full; a clock that agrees with the chain, is a block ahead (which shortens a period of one), or is two blocks
  behind (which wraps for a young poke, and prolongs the period for an older one);
  an owner who changes the period once. A log that does not decode is left to `poller`; `Skip` happens
  here when the processor has ended.
* `supervisor` (34,479 states): every secret key (hexadecimal or not, with 0x or not, padded or not),
  keystore (a file, a directory, missing), password and password file with every other, good and bad
  URLs; then, with one set of credentials, no address, two spellings of one, and two addresses. Three
  processors, the poller and the collector are enough for one to end while another is in each state.
  `supervisor_two_spellings` needs one command line only.

## 4. Fairness

The tokio runtime runs a task that can go on, so the poller and the processor are weakly fair as
a whole or per step; timers fire. Three assumptions are strong. The RPC calls that the poller, the
start and the check wait for return, with an answer or an error: the code sets no time-out for them,
so a call that hangs would hold the poller, and a shutdown with it. The
poller *sees the head* infinitely often if it polls infinitely often (`SF_vars(ReportHead(head))`):
an endpoint all of whose answers lag for ever would hide the last blocks from any client. The
`select!` of the processor picks among ready branches at random, so the cancelled branch, ready at
every turn, is taken at some turn (`SF_vars(StopOnCancel)`). Not assumed in `Processor`: that
`contract.challenge` returns (it may wait 300 s for a transaction, or hang), that blocks are mined, that
anybody cancels.

In `ChallengeTx`, on the other hand, a call goes on (`WF_vars(CallStep(c))`). `watch` has a time-out, but
the estimates, the nonce, the receipt and the sending are RPC calls without one, so here it is assumed
that they return. `CallEnds` and `PokeFallsOrRaced` say what a call does in a world where they do;
that the processor goes on, and can end the task, where they do not is `SuccessEndsChallenge` and
`ShutdownEndsTasks`. A public transaction with the next nonce is mined in the end; nothing is assumed of
the private relay.

For the poller, a processor takes what is in its channel and ends after a cancellation; the second
is what `ShutdownEndsTasks` shows of `Processor`.

In `Supervisor`, `main` goes on when it can (`WF_vars(MainNext)`), and a task that waits in its
`select!` sees the cancellation: weakly fair for the poller, which begins one more poll at most before
it looks at the token again, and for the collector; strongly fair for a processor, whose `select!` may
prefer an event. That calls return is not fairness there but the premise of `ProgramEnds`: no task is
in a call for ever. For the poller this includes its wait on a full channel; that such a wait ends when
the processors do is `CancelStops` of `Poller`. Nobody is assumed to press ctrl-c. The runs
`challenger` and `poller` are about safety and assume nothing.

## 5. What is proved

All theorems hold for every value of the constants that satisfies the named assumptions
`PollerAssumption`, `ProcessorAssumption`, `ChallengeTxAssumption`, `RangesAssumption`,
`ChallengerAssumption`, `SupervisorAssumption`; TLC evaluates those on every run.

`PollerProofs`, any number of contracts, chunk size, range limit, retry limit, capacity:

* `TypeCorrect`: `Spec => []TypeOK`; all block arithmetic stays within u64, which needs
  `MaxHead + 1 < U64` and wrapping on the first run.
* `NoLogIsLost`: `Spec => []NoGap`. `NoGap` says nothing of a poll in progress, so it is not
  inductive. `CoverageInv` adds: the chain is ordered and ends at most one block after the head
  (a log mined later is not behind the cursor), a poll asks for sealed blocks only, and
  `ProgressInv`: every log in the chunks and sub-ranges the poll has *passed* is handled, and every
  log in the one it is at is handled or still in `logs`. `FinishPoll` needs that each address is in
  a chunk that was passed or in the current one.
* `LogsInOrder`: `Spec => FreshEventsInOrder`. `SentInv` says where a log that was sent can be:
  below the cursor, below the reach of a failed poll, passed by this poll, or in the current
  answer before everything that is left of it; `LogsInv` says that what is left was asked for.
  This strengthening is needed because a send compares itself with every send before it.
* `GivesUpOnlyAfterStreak`: `Spec => []GivesUpAfterStreak`.
* `CursorFollowsHead`: `History <= MinReport => (Spec => []CursorNotAhead)`. The hypothesis is
  what the run `poller_young_chain` breaks.

`PollerFeedProofs`:

* `ImplementsFeed`: `Spec => KeepsFeed`, step by step under `FeedInv`, which is `TypeOK`, `CoverageInv`,
  `LogsInv` and `WidthInv` (a poll asks for two blocks at least: `Hand` of `LogFeed` is guarded by
  `cursor < head`). `SendLog` and `SkipLog` hand over the next log of its contract, because what is
  asked for was not passed (`AskedInTurn`); `QueryOk`, `NextRange` and `NextChunk` are stutters;
  `FinishPoll` is `Commit`, which is where the coverage of
  `NoLogIsLost` is needed; `PollFails` and the end of the poller are `Rewind`s.

`ProcessorProofs`, any set of pokes, capacity and bound on the events:

* `TypeCorrect`, `OneChallengeAtATime`: `Spec => []OnlyCurrentTaskLive`, inductive with `TypeOK`.
* `ImplementsIntent`: `Spec => KeepsIntent`, step by step under the refinement mapping.
  `DelayOver(t)` is a `Begin` of the abstract specification because, by `OnlyCurrentTaskLive`, a
  task whose delay ends uncancelled is the one the mapping looks at.

`ChallengeTxProofs`, any set of calls and pokes, with or without a private endpoint:

* `TypeCorrect`; its lemma `StepIsMove` says once what every step of a call may do.
* `ReturnedHashMeansSettled`: `Spec => []OkMeansSettled`, with `SettledInv`: the poke of every
  mined transaction fell, by it or before it.
* `InTimeMeansNoFallback`: `Spec => []NoNeedlessFallback`. `CallInv` relates what a call has sent
  to where it is: nothing before `send_raw`; the private transaction it watches is the one it sent;
  a public one only at the end (`OwnedInv`). It holds of calls without RPC errors only: an answer
  that is lost takes the hash with it.
* `NoTransactionIsStuck`: `Spec => []NothingStuck`. A nonce is fetched in one step and used in
  another, so `NonceInv` says that the nonce a call was told stays good, or is used up, until it sends:
  the lemma `FollowsAfterBlock` is why a block, private transactions in it included, opens no gap.
* `NoFailureWithoutCause`: `Spec => []FailuresHaveCause`, the safety half of `PokeFallsOrRaced`. A
  failed call without an RPC error, and whose nonce nobody took, has its transaction in the public
  mempool or its poke fell; and by `NothingStuck` that transaction waits for others of that mempool only.
  `CauseInv` says it from the moment the transaction is sent: it leaves the mempool for the chain, or
  because its nonce was used, by the same call (whose poke then fell) or by another (which is `raced`).

`BlockRangesProofs`, any width of the word, a limit of zero included:

* `TypeCorrect`: every value stays within the word; sums may wrap.
* `RangesTile`, `RangesAreDisjoint`: `NoOverflow => (Spec => []Tiles)`, and `[]Disjoint`. `LoopInv`
  tells the two loops apart by their inputs: `Progress` (the ranges so far tile the blocks before
  `current`), or `Stuck`. `NoOverflow` is about the heads and limits: it excludes a head near 2^64, which no chain
  has, and a limit near 2^64, which a user may give; the instance of the run satisfies it. The lemma `EndIsPlain` shows that the loop then computes the
  `RangeEnd` of `Poller`, which is what allows `Poller` to do without wrapping.
* `TurnsAdvance`: `NoOverflow => (Spec => [][...]_vars)`, the half of `Terminates` that is not fairness:
  unless the loop is stuck, each turn brings `current` closer to the block after the head.
* `ZeroLimitNeverEnds`: `Spec => ZeroLimitLoops`, with `Stuck`, and without `NoOverflow`. It is a property
  of the form `[]`, so its proof needs no fairness.

`ChallengerProofs`, any number of logs, blocks and failed polls, any capacity, offset and periods:

* `KeepsProcessor`: `System => Spec`, and `KeepsLogFeed`: `System => Feed!Spec`. By the first, the
  theorems of `ProcessorProofs` hold of the system (its type invariant is used so); the second puts it
  on the specification that the poller implements. `SystemKeepsIntent`: with the first,
  `System => KeepsIntent` and `[]OnlyCurrentTaskLive`.
* `ChainCorrect`, `RestCorrect`, `SystemTypeCorrect`: types, and that a check is under way exactly while
  the processor waits for one.
* `OnlyInvalidPokesChallenged`: `System => []ChallengesAreJustified`, with `WaitingArePokes` (what is in
  the channel or being checked is a poke of the chain) and `TasksAreJustified` (every task, and every
  begun challenge, is of an invalid one).
* `NoPokeIsForgotten`: `System => []NoPokeForgotten`. The property says where an invalid poke below the
  cursor can be, but not why it stays there. `FeedInv` orders chain and hand-over: a log is handed over
  after those before it, and what was handed over was sent or did not decode. `PassedAreSent`: an invalid
  poke the feed has passed was sent. `LastIsFront`: the *last* event that was sent, if it is an invalid
  poke, is the last in the channel; or the channel is empty and it is being checked; or both are
  idle and it was answered. A later event may disturb it, and then it is `Overtaken`; nothing else does,
  as only the success or a later poke cancels a task.
* `AgesAreJudged`: `System => AgeIsJudged`, from `PeriodKnown` (while the processor runs its period is
  the one it fetched) and the cases of the wrapping subtraction. The offset of the clock is any integer,
  to either side, that keeps the clock below 2^64.

`ChallengerOrderProofs`, of the same system:

* `RepeatsNeedRewinds`: `System => []RepeatNeedsRewind`. That a poke was challenged at most `1 + rewinds`
  times is not inductive: it says nothing of the copies of the poke that are still on their way. The
  budget `CopiesArePaid` counts them all: the places of the poke in the channel, the check of it that is under
  way, its tasks in their delay and the challenges of it that began are together at most the failed polls,
  and one if this poll has passed it. Handing over raises both sides by one, a failed
  poll pays in `rewinds` for the pass it undoes, and everything else moves a copy or drops it. The half about the order is `OrderInv`,
  of a system without failed polls: logs not yet passed are later than the channel, the channel is in order
  and later than the event in hand, and that later than every task.
* `SuccessesAreFinal`: `System => SuccessIsFinal`, an action property. `FinalInv` says, while no poll
  failed, of every success that was sent: whatever may still begin a challenge of an earlier poke (the current task in its delay, the
  event being checked, a poke in the channel) has that success, or another, behind it in the channel.
  So once the channel is without it nothing is left to begin. It needs `OnlyCurrentTaskLive` of the
  processor: a success cancels one task, which has to be the only one.

`SupervisorProofs`, any set of command lines and spellings:

* `TypeCorrect`, `EveryAddressIsWatched`: `Spec => []AddressesWatched`, `NobodyIsLeftBehind`:
  `Spec => []NobodyLeftBehind`, from one inductive invariant, `IInv`, by the places `main` can be at:
  nothing exists before the first spawn; up to the `select!` the `JoinSet` holds exactly the tasks that
  were spawned, and while it is joined every task that is still active, with the token cancelled
  (`SetComplete`); every address given so far has a channel to a processor of that address (`Channels`,
  `AllGiven`); `Aftermath` is what `main` leaves behind for each way to return.
* `OnlyDuplicatesAreLeftDeaf`: `Spec => []OnlyDuplicatesStayDeaf`, the converse of the run
  `supervisor_two_spellings`. A processor loses its sender in two ways. Either the poller ended: then its
  end is still in the `JoinSet`, where `main` finds it, or the token is cancelled (`SetComplete`). Or the
  entry of its address was replaced: `LastHasEntry` uses that the spellings are spawned in the order of
  `sort`, so that an entry of the map is of the last one.

Only model-checked: the liveness properties `LogsAreSent`, `CancelStops`, `ShutdownEndsTasks`,
`SuccessEndsChallenge`, `CallEnds`, `PokeFallsOrRaced`, `ProgramEnds` and `Terminates`, which need
fairness and `ENABLED`, beyond the prover. Of two of them the part that is not fairness is proved:
`FailuresHaveCause` with `NothingStuck`, and `TurnsAdvance`. Every invariant and every action property that
a run finds to hold is a theorem too.

## 6. Assumptions and abstractions

* The chain only grows. After a reorganisation the code does not go back, and nothing in it could
  be checked.
* The answer of `get_logs` covers the range it was asked for. Behind a load balancer a node may not
  have the head another node reported, and return fewer logs; the code cannot tell.
* Logs of an answer come in chain order, as the JSON-RPC nodes give them.
* The order of `addresses` is that of `HashMap::keys`: any fixed sequence.
* `max_block_range` is at least 1 and no range overflows in `Poller`; `BlockRanges` is about those.
* A failing processor drops its channel (`CloseReceiver`); why it fails is not the poller's matter.
* A transaction in the public mempool is not dropped or repriced; the account has the funds. A mined
  one reverts only if its poke does not stand: that it may run out of gas is left out, as the gas is
  what a node estimated for it.
* The receipt of a transaction that was mined is found when it is asked for: the node does not lag there.
* The signature of a poke is good or bad for ever. The contract judges it at the time of the call
  (`isAcceptableSchnorrSignatureNow`), and a change of the contract's signers in between is left out.
* Calls of one poke do not overlap: a processor cancels the task before it spawns the next
  (`OnlyCurrentTaskLive`), and the delay gives the old one time to be dropped.
* The challenge period is fetched once, as the code does; the owner may change it later
  (`OwnerChangesPeriod`), which changes what the contract accepts and not what the processor thinks.
* `AgeIsJudged` takes the time at which the check looks at its clock as that of the step: the block's
  time is known by then and does not change.
* What becomes of a poke after the program's end, or its processor's, is left out of `Challenger`.
* Keys and passwords are right or wrong, files are there or not; decryption is not looked into. What
  `src/wallet.rs` does with them is in `Supervisor` because every way `main` can return is, and no
  property of it is stated: it is a choice among a few arguments, and a property would repeat it. A key
  with spaces around it is accepted with `0x` and refused without, as only the former is trimmed.
* The allocation of memory does not fail.

## 7. What the code does not do as it says

* On a chain with fewer than five blocks `latest_block - MAX_HISTORY_BLOCKS` wraps, in spite of
  the comment that the subtraction is safe, and the poller waits for block 2^64 - k
  (`poller_young_chain`).
* `last_processes_block` is, after a poll, the first block *not* processed, and is compared as the
  last one processed. A head equal to it is turned away, so that each new block right after the
  cursor waits for one more block (`poller_stalled_head`). In `LogsAreSent` the log is therefore
  one that a sealed block follows.
* `--from-block 0` means "near the head": `FirstBlock` of `Poller`.
* A processor whose channel is closed says that it stops, and spins. In the program this takes a sender
  dropped while the processor runs: the poller's end, until the token is cancelled; or two spellings
  of one address, which the removal of duplicates compares as strings, and whose second sender replaces
  the first in the map (`supervisor_two_spellings`).
* With a local clock behind the time of the poke's block, the age of the poke wraps and it is taken for
  stale (`challenger`: `AgeIsJudged` needs the exception `Age(event) + offset < 0`).
* The calls of two contracts may fetch the same pending nonce; one is refused, and its poke is not
  challenged again (`tx_nonce_race`). With a private endpoint the collision costs a time-out instead,
  as the fallback asks for a new nonce, unless both fall back together.
* `challenge` returns, and the task counts, the hash of a transaction that reverted
  (`tx_reverted`); `OkMeansSettled` is what a returned hash does mean.
* `--max-block-range 0` makes the poller push ranges until it is out of memory (`ranges`:
  `ZeroLimitLoops`).

## 8. Plan

Done, in this order: `Poller`; `Processor` refined to `ChallengeIntent`; `BlockRanges`;
`ChallengeTx`; their theorems; `LogFeed` and the refinement of `Poller` to it; `Challenger`, with the
staleness test and the check of a signature as the calls they are; `Supervisor`, with the wallet and the
builder; the theorems of the last three.

Open: that a call of `ChallengeTx` is what
`Processor` begins (their composition multiplies the states of two large runs, and what the one needs of
the other is `OnlyCurrentTaskLive` and the cancellation, which both have).

### Not modelled

* *Metrics* (`metrics.rs`): no decision reads a counter or the gauge. That `main` binds the listener or
  panics, and the task that collects, are in `Supervisor`.
* *Error types and bindings* (`error.rs`, `lib.rs`, the `sol!` declarations): declarations; which call
  fails and who handles it is in the modules of the callers.
* *The RPC client* (`provider.rs` and the client built in `main`): `alloy`'s transport, fillers and
  backoff layer. What they may do is in the environments: a call fails, lags, answers late or never.
* *ABI decoding and log filters*: `alloy`'s; a log decodes or does not.
* *Reorganisations*, and a node whose `get_logs` lags behind its `get_block_number`: the code does not
  notice either, so that no property of it would hold (section 6).
