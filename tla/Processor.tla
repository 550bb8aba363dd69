------------------------------ MODULE Processor ------------------------------
(***************************************************************************)
(* ScribeEventsProcessor of crates/scribe/src/event_processor.rs: the task *)
(* that takes the events of one contract from its channel, and the tasks   *)
(* it spawns to challenge a poke after a delay.                            *)
(*                                                                         *)
(* The poller's end of the channel, the calls of trait ScribeContract and  *)
(* the cancellation of the program are the environment.                    *)
(***************************************************************************)
EXTENDS Integers, Sequences

CONSTANTS
    Pokes,      \* the OpPoked events of the contract
    None,
    Period,     \* what get_challenge_period returns
    Capacity,   \* of the channel
    MaxEvents   \* bound on the events the poller sends, redelivered ones included

ASSUME ProcessorAssumption ==
    /\ None \notin Pokes /\ None \notin Int
    /\ Period \in Nat /\ Capacity \in Nat \ {0} /\ MaxEvents \in Nat

VARIABLES
    queue,      \* the channel: a poke, or None for OpPokeChallengedSuccessfully
    senderOpen, \* somebody still holds the channel's sender
    cancelled,  \* the program's cancellation token
    \* the processor
    pc, event, challenge_period, challenge_process_cancelation_token,
    \* the spawned tasks, in the order they were spawned
    tasks,
    \* history
    delivered,  \* events the poller has sent
    begun       \* per poke, how often contract.challenge was called

token == challenge_process_cancelation_token

processorVars == <<pc, event, challenge_period, challenge_process_cancelation_token>>
vars == <<queue, senderOpen, cancelled, processorVars, tasks, delivered, begun>>

-----------------------------------------------------------------------------

Ended == {"stopped", "failed"}

\* Mutant of IsCancelled: a token that is not a child of the program's.
IsCancelledOnlyItself(t) == tasks[t].cancelled

\* A child token is cancelled with the program's token, or on its own.
IsCancelled(t) == tasks[t].cancelled \/ cancelled

Live(t) == tasks[t].phase \in {"delay", "challenging"}

Init ==
    /\ queue = <<>> /\ senderOpen = TRUE /\ cancelled = FALSE
    /\ pc = "starting" /\ event = None
    /\ challenge_period = None
    /\ challenge_process_cancelation_token = None
    /\ tasks = <<>> /\ delivered = 0 /\ begun = [p \in Pokes |-> 0]

(***************************************************************************)
(* start(): the challenge period is fetched once, and a failure ends the   *)
(* processor, which drops its end of the channel.                          *)
(***************************************************************************)
RefreshChallengePeriod ==
    /\ pc = "starting"
    /\ challenge_period' = Period /\ pc' = "select"
    /\ UNCHANGED <<queue, senderOpen, cancelled, event, tasks, delivered, begun,
                   challenge_process_cancelation_token>>

RefreshFails ==
    /\ pc = "starting"
    /\ pc' = "failed" /\ queue' = <<>>
    /\ UNCHANGED <<senderOpen, cancelled, event, challenge_period, tasks, delivered, begun,
                   challenge_process_cancelation_token>>

\* The select! of start() picks either of its branches when both are ready.
StopOnCancel ==
    /\ pc = "select" /\ cancelled
    /\ pc' = "stopped" /\ queue' = <<>>
    /\ UNCHANGED <<senderOpen, cancelled, event, challenge_period, tasks, delivered, begun,
                   challenge_process_cancelation_token>>

\* recv() on a channel without senders: a warning, and the loop goes on.
ReceiveNone ==
    /\ pc = "select" /\ queue = <<>> /\ ~senderOpen
    /\ UNCHANGED vars

\* cancel_challenge cancels the token it holds, if any.
CancelledTasks == IF token = None
                  THEN tasks
                  ELSE [tasks EXCEPT ![token].cancelled = TRUE]

\* Mutant of ReceiveChallenged: the token is forgotten, not cancelled.
ReceiveChallengedForgets ==
    /\ pc = "select" /\ queue # <<>> /\ Head(queue) = None
    /\ queue' = Tail(queue)
    /\ challenge_process_cancelation_token' = None
    /\ UNCHANGED <<senderOpen, cancelled, pc, event, challenge_period, tasks, delivered, begun>>

\* OpPokeChallengedSuccessfully
ReceiveChallenged ==
    /\ pc = "select" /\ queue # <<>> /\ Head(queue) = None
    /\ queue' = Tail(queue)
    /\ tasks' = CancelledTasks
    /\ challenge_process_cancelation_token' = None
    /\ UNCHANGED <<senderOpen, cancelled, pc, event, challenge_period, delivered, begun>>

\* OpPoked: the processor waits for is_op_poke_challengeable.
ReceivePoke ==
    /\ pc = "select" /\ queue # <<>> /\ Head(queue) # None
    /\ challenge_period # None
    /\ event' = Head(queue) /\ queue' = Tail(queue)
    /\ pc' = "checking"
    /\ UNCHANGED <<senderOpen, cancelled, challenge_period, tasks, delivered, begun,
                   challenge_process_cancelation_token>>

\* spawn_challenge
NewTask == [poke |-> event, phase |-> "delay", cancelled |-> FALSE]

\* Mutant of Challengeable: the previous challenge is not cancelled.
ChallengeableKeepsOld ==
    /\ pc = "checking"
    /\ tasks' = Append(tasks, NewTask)
    /\ challenge_process_cancelation_token' = Len(tasks) + 1
    /\ pc' = "select" /\ event' = None
    /\ UNCHANGED <<queue, senderOpen, cancelled, challenge_period, delivered, begun>>

Challengeable ==
    /\ pc = "checking"
    /\ tasks' = Append(CancelledTasks, NewTask)
    /\ challenge_process_cancelation_token' = Len(tasks) + 1
    /\ pc' = "select" /\ event' = None
    /\ UNCHANGED <<queue, senderOpen, cancelled, challenge_period, delivered, begun>>

\* Mutant of NotChallengeable: the event is not given up.
NotChallengeableKeepsEvent ==
    /\ pc = "checking"
    /\ pc' = "select"
    /\ UNCHANGED <<queue, senderOpen, cancelled, event, challenge_period, tasks, delivered,
                   begun, challenge_process_cancelation_token>>

\* The poke is valid or stale, or the check failed, which is only logged.
NotChallengeable ==
    /\ pc = "checking"
    /\ pc' = "select" /\ event' = None
    /\ UNCHANGED <<queue, senderOpen, cancelled, challenge_period, tasks, delivered, begun,
                   challenge_process_cancelation_token>>

-----------------------------------------------------------------------------
(***************************************************************************)
(* A spawned task: select! between its child token and the sleep followed  *)
(* by contract.challenge.  A call that starts in the poll that sees the    *)
(* cancellation is dropped at its first await, before it sends anything,   *)
(* so a cancelled task does not begin.  A result that is ready in the poll *)
(* that sees the cancellation may win.                                     *)
(***************************************************************************)
taskVars == <<queue, senderOpen, cancelled, processorVars, delivered>>

DelayOver(t) ==
    /\ tasks[t].phase = "delay" /\ ~IsCancelled(t)
    /\ tasks' = [tasks EXCEPT ![t].phase = "challenging"]
    /\ begun' = [begun EXCEPT ![tasks[t].poke] = @ + 1]
    /\ UNCHANGED taskVars

ChallengeReturns(t) ==
    /\ tasks[t].phase = "challenging"
    /\ \E result \in {"challenged", "failed"} :
          tasks' = [tasks EXCEPT ![t].phase = result]
    /\ UNCHANGED <<taskVars, begun>>

\* Mutant of CancelTask: only the sleep is cancellable, not the call after it.
CancelTaskInDelay(t) ==
    /\ tasks[t].phase = "delay" /\ IsCancelled(t)
    /\ tasks' = [tasks EXCEPT ![t].phase = "cancelled"]
    /\ UNCHANGED <<taskVars, begun>>

CancelTask(t) ==
    /\ Live(t) /\ IsCancelled(t)
    /\ tasks' = [tasks EXCEPT ![t].phase = "cancelled"]
    /\ UNCHANGED <<taskVars, begun>>

TaskNext(t) == DelayOver(t) \/ ChallengeReturns(t) \/ CancelTask(t)

-----------------------------------------------------------------------------
Deliver(e) ==
    /\ senderOpen /\ pc \notin Ended
    /\ Len(queue) < Capacity /\ delivered < MaxEvents
    /\ queue' = Append(queue, e) /\ delivered' = delivered + 1
    /\ UNCHANGED <<senderOpen, cancelled, processorVars, tasks, begun>>

CloseSender ==
    /\ senderOpen
    /\ senderOpen' = FALSE
    /\ UNCHANGED <<queue, cancelled, processorVars, tasks, delivered, begun>>

Cancel ==
    /\ ~cancelled
    /\ cancelled' = TRUE
    /\ UNCHANGED <<queue, senderOpen, processorVars, tasks, delivered, begun>>

Next ==
    \/ RefreshChallengePeriod \/ RefreshFails \/ StopOnCancel \/ ReceiveNone
    \/ ReceiveChallenged \/ ReceivePoke \/ Challengeable \/ NotChallengeable
    \/ \E t \in DOMAIN tasks : TaskNext(t)
    \/ \E e \in Pokes \cup {None} : Deliver(e)
    \/ CloseSender \/ Cancel

Spec == Init /\ [][Next]_vars

(***************************************************************************)
(* Fairness.  Tokio runs every task that is ready and timers fire; the RPC *)
(* calls of the start and of the check return.  select! picks its branches *)
(* at random, so the cancelled branch is not passed over for ever.         *)
(* contract.challenge is not assumed to return.                            *)
(***************************************************************************)
Fairness ==
    /\ WF_vars(RefreshChallengePeriod \/ RefreshFails)
    /\ WF_vars(ReceiveChallenged \/ ReceivePoke)
    /\ WF_vars(Challengeable \/ NotChallengeable)
    /\ SF_vars(StopOnCancel)
    /\ \A t \in 1 .. MaxEvents :
          WF_vars(t \in DOMAIN tasks /\ (DelayOver(t) \/ CancelTask(t)))

LiveSpec == Spec /\ Fairness

-----------------------------------------------------------------------------
TaskRecord == [poke : Pokes, cancelled : BOOLEAN,
               phase : {"delay", "challenging", "challenged", "failed", "cancelled"}]

TypeOK ==
    /\ queue \in Seq(Pokes \cup {None}) /\ Len(queue) <= Capacity
    /\ senderOpen \in BOOLEAN /\ cancelled \in BOOLEAN
    /\ pc \in {"starting", "select", "checking"} \cup Ended
    /\ event \in Pokes \cup {None} /\ (event # None <=> pc = "checking")
    /\ challenge_period \in {None, Period}
    /\ challenge_process_cancelation_token \in DOMAIN tasks \cup {None}
    /\ tasks \in Seq(TaskRecord)
    /\ delivered \in 0 .. MaxEvents /\ begun \in [Pokes -> Nat]

(***************************************************************************)
(* At most one challenge of the contract is under way: every task that has *)
(* not ended and is not cancelled is the one whose token the processor     *)
(* holds, so a newer poke or a successful challenge can still stop it.     *)
(***************************************************************************)
OnlyCurrentTaskLive ==
    \A t \in DOMAIN tasks : Live(t) /\ ~IsCancelled(t) => t = token

(***************************************************************************)
(* The processor keeps the promise of ChallengeIntent.                     *)
(***************************************************************************)
Wanted == IF /\ token # None
             /\ tasks[token].phase = "delay" /\ ~IsCancelled(token)
          THEN tasks[token].poke
          ELSE None

Intent == INSTANCE ChallengeIntent WITH want <- Wanted, closed <- cancelled

KeepsIntent == Intent!Spec

(***************************************************************************)
(* A cancellation ends the processor and every challenge it spawned, a     *)
(* challenge that hangs in an RPC call included.                           *)
(***************************************************************************)
ShutdownEndsTasks ==
    cancelled ~> (pc \in Ended /\ \A t \in DOMAIN tasks : ~Live(t))

(***************************************************************************)
(* Once OpPokeChallengedSuccessfully is in the channel, every challenge    *)
(* spawned before it ends, even one that hangs in an RPC call: the         *)
(* processor does not wait for the challenges it spawned.                  *)
(***************************************************************************)
SuccessEndsChallenge ==
    \A t \in 1 .. MaxEvents :
        (t \in DOMAIN tasks /\ \E i \in DOMAIN queue : queue[i] = None)
            ~> (t \in DOMAIN tasks /\ ~Live(t))

=============================================================================
