--------------------------- MODULE ProcessorProofs ---------------------------
(***************************************************************************)
(* Proofs about Processor, for every set of pokes, channel capacity and    *)
(* number of events.                                                       *)
(***************************************************************************)
EXTENDS Processor, TLAPS

USE ProcessorAssumption

(***************************************************************************)
(* What cancel_challenge does to the tasks.                                *)
(***************************************************************************)
LEMMA CancelledTasksFacts ==
    ASSUME TypeOK
    PROVE  /\ CancelledTasks \in Seq(TaskRecord)
           /\ Len(CancelledTasks) = Len(tasks)
           /\ \A t \in DOMAIN tasks :
                 /\ CancelledTasks[t].poke = tasks[t].poke
                 /\ CancelledTasks[t].phase = tasks[t].phase
                 /\ CancelledTasks[t].cancelled <=> (tasks[t].cancelled \/ t = token)
<1>1. CASE token = None
    <2>1. CancelledTasks = tasks /\ tasks \in Seq(TaskRecord)
        BY <1>1 DEF TypeOK, CancelledTasks
    <2>2. \A t \in DOMAIN tasks : t # token
        BY <1>1, <2>1
    <2> QED
        BY <2>1, <2>2
<1>2. CASE token # None
    <2>1. token \in DOMAIN tasks /\ tasks \in Seq(TaskRecord)
        BY <1>2 DEF TypeOK, token
    <2>2. [tasks[token] EXCEPT !.cancelled = TRUE] \in TaskRecord
        <3>1. tasks[token] \in TaskRecord
            BY <2>1
        <3> QED
            BY <3>1 DEF TaskRecord
    <2>3. CancelledTasks = [tasks EXCEPT ![token] = [tasks[token] EXCEPT !.cancelled = TRUE]]
        BY <1>2 DEF CancelledTasks
    <2>4. CancelledTasks \in Seq(TaskRecord) /\ Len(CancelledTasks) = Len(tasks)
        BY <2>1, <2>2, <2>3
    <2>5. ASSUME NEW t \in DOMAIN tasks
          PROVE  /\ CancelledTasks[t].poke = tasks[t].poke
                 /\ CancelledTasks[t].phase = tasks[t].phase
                 /\ CancelledTasks[t].cancelled <=> (tasks[t].cancelled \/ t = token)
        <3>1. tasks[t] \in TaskRecord
            BY <2>1
        <3> QED
            BY <2>1, <2>3, <3>1 DEF TaskRecord
    <2> QED
        BY <2>4, <2>5
<1> QED
    BY <1>1, <1>2

\* spawn_challenge appends a task with a fresh token to the cancelled ones.
LEMMA SpawnedFacts ==
    ASSUME TypeOK, Challengeable
    PROVE  /\ tasks' \in Seq(TaskRecord)
           /\ DOMAIN tasks' = DOMAIN tasks \cup {Len(tasks) + 1}
           /\ \A t \in DOMAIN tasks : tasks'[t] = CancelledTasks[t] /\ t # Len(tasks) + 1
           /\ tasks'[Len(tasks) + 1] = NewTask
           /\ token' = Len(tasks) + 1
<1>1. NewTask \in TaskRecord
    BY DEF TypeOK, Challengeable, NewTask, TaskRecord
<1>2. tasks' = Append(CancelledTasks, NewTask) /\ token' = Len(tasks) + 1
    BY DEF Challengeable, token
<1>3. tasks \in Seq(TaskRecord)
    BY DEF TypeOK
<1> QED
    BY <1>1, <1>2, <1>3, CancelledTasksFacts

(***************************************************************************)
(* The type invariant.                                                     *)
(***************************************************************************)
LEMMA TypeInit == Init => TypeOK
<1> SUFFICES ASSUME Init PROVE TypeOK
    OBVIOUS
<1>1. queue \in Seq(Pokes \cup {None}) /\ Len(queue) <= Capacity /\ tasks \in Seq(TaskRecord)
    BY DEF Init
<1>2. begun \in [Pokes -> Nat] /\ senderOpen \in BOOLEAN
    BY DEF Init
<1>3. cancelled \in BOOLEAN
    BY DEF Init
<1> QED
    BY <1>1, <1>2, <1>3 DEF Init, TypeOK

LEMMA TypeStep == TypeOK /\ [Next]_vars => TypeOK'
<1> SUFFICES ASSUME TypeOK, [Next]_vars PROVE TypeOK'
    OBVIOUS
<1> USE DEF TypeOK, Ended, processorVars
<1>1. CASE RefreshChallengePeriod
    BY <1>1 DEF RefreshChallengePeriod
<1>10. CASE RefreshFails \/ StopOnCancel
    <2>1. queue' \in Seq(Pokes \cup {None}) /\ Len(queue') <= Capacity
        <3>1. queue' = <<>>
            BY <1>10 DEF RefreshFails, StopOnCancel
        <3> QED
            BY <3>1
    <2> QED
        BY <1>10, <2>1 DEF RefreshFails, StopOnCancel
<1>2. CASE ReceiveNone \/ UNCHANGED vars
    BY <1>2 DEF ReceiveNone, vars
<1>3. CASE ReceiveChallenged
    <2>1. tasks' \in Seq(TaskRecord) /\ token' = None
        BY <1>3, CancelledTasksFacts DEF ReceiveChallenged, token
    <2> QED
        BY <1>3, <2>1 DEF ReceiveChallenged, token
<1>4. CASE ReceivePoke
    BY <1>4 DEF ReceivePoke
<1>5. CASE Challengeable
    <2>1. tasks' \in Seq(TaskRecord) /\ challenge_process_cancelation_token' \in DOMAIN tasks'
        BY <1>5, SpawnedFacts DEF token
    <2> QED
        BY <1>5, <2>1 DEF Challengeable
<1>6. CASE NotChallengeable
    BY <1>6 DEF NotChallengeable
<1>7. ASSUME NEW t \in DOMAIN tasks, TaskNext(t) PROVE TypeOK'
    <2>1. tasks[t] \in TaskRecord
        OBVIOUS
    <2>2. tasks' \in Seq(TaskRecord) /\ DOMAIN tasks' = DOMAIN tasks
        <3>1. PICK ph \in {"challenging", "challenged", "failed", "cancelled"} :
                  tasks' = [tasks EXCEPT ![t].phase = ph]
            BY <1>7 DEF TaskNext, DelayOver, ChallengeReturns, CancelTask
        <3>2. [tasks[t] EXCEPT !.phase = ph] \in TaskRecord
            BY <2>1 DEF TaskRecord
        <3>3. tasks' = [tasks EXCEPT ![t] = [tasks[t] EXCEPT !.phase = ph]]
            BY <3>1
        <3> QED
            BY <3>2, <3>3
    <2>3. begun' \in [Pokes -> Nat]
        <3>1. tasks[t].poke \in Pokes /\ begun \in [Pokes -> Nat]
            BY <2>1 DEF TaskRecord
        <3>2. begun' = begun \/ begun' = [begun EXCEPT ![tasks[t].poke] = @ + 1]
            BY <1>7 DEF TaskNext, DelayOver, ChallengeReturns, CancelTask
        <3> HIDE DEF TypeOK
        <3> QED
            BY <3>1, <3>2
    <2> QED
        BY <1>7, <2>2, <2>3 DEF TaskNext, DelayOver, ChallengeReturns, CancelTask, taskVars
<1>8. ASSUME NEW e \in Pokes \cup {None}, Deliver(e) PROVE TypeOK'
    BY <1>8 DEF Deliver
<1>9. CASE CloseSender \/ Cancel
    BY <1>9 DEF CloseSender, Cancel
<1> QED
    BY <1>1, <1>2, <1>3, <1>4, <1>5, <1>6, <1>7, <1>8, <1>9, <1>10 DEF Next

\* Type correctness of the processor and its tasks.
THEOREM TypeCorrect == Spec => []TypeOK
  BY TypeInit, TypeStep, PTL DEF Spec

-----------------------------------------------------------------------------
(***************************************************************************)
(* A step of a task leaves the other tasks alone, and no task comes to     *)
(* life again.                                                             *)
(***************************************************************************)
LEMMA TaskStepFacts ==
    ASSUME TypeOK, NEW s \in DOMAIN tasks, TaskNext(s)
    PROVE  /\ DOMAIN tasks' = DOMAIN tasks
           /\ UNCHANGED <<challenge_process_cancelation_token, cancelled>>
           /\ \A t \in DOMAIN tasks : /\ tasks'[t].poke = tasks[t].poke
                                      /\ tasks'[t].cancelled = tasks[t].cancelled
                                      /\ t # s => tasks'[t] = tasks[t]
                                      /\ Live(t)' => Live(t)
<1>1. PICK ph \in {"challenging", "challenged", "failed", "cancelled"} :
          tasks' = [tasks EXCEPT ![s].phase = ph]
    BY DEF TaskNext, DelayOver, ChallengeReturns, CancelTask
<1>2. tasks \in Seq(TaskRecord) /\ Live(s)
    BY DEF TypeOK, TaskNext, DelayOver, ChallengeReturns, CancelTask, Live
<1>3. UNCHANGED <<challenge_process_cancelation_token, cancelled>>
    BY DEF TaskNext, DelayOver, ChallengeReturns, CancelTask, taskVars, processorVars
<1>4. DOMAIN tasks' = DOMAIN tasks
    BY <1>1, <1>2
<1>5. ASSUME NEW t \in DOMAIN tasks
      PROVE  /\ tasks'[t].poke = tasks[t].poke
             /\ tasks'[t].cancelled = tasks[t].cancelled
             /\ t # s => tasks'[t] = tasks[t]
    <2>1. tasks[t] \in TaskRecord
        BY <1>2
    <2> QED
        BY <1>1, <1>2, <2>1 DEF TaskRecord
<1>6. \A t \in DOMAIN tasks : Live(t)' => Live(t)
    BY <1>2, <1>5 DEF Live
<1> QED
    BY <1>3, <1>4, <1>5, <1>6

LEMMA OnlyCurrentStep ==
    ASSUME TypeOK, OnlyCurrentTaskLive, [Next]_vars
    PROVE  OnlyCurrentTaskLive'
<1>1. CASE UNCHANGED <<tasks, challenge_process_cancelation_token, cancelled>>
    BY <1>1 DEF OnlyCurrentTaskLive, Live, IsCancelled, token
<1>2. CASE ReceiveChallenged
    <2>1. tasks' = CancelledTasks /\ cancelled' = cancelled
        BY <1>2 DEF ReceiveChallenged
    <2>2. DOMAIN tasks' = DOMAIN tasks
        BY <2>1, CancelledTasksFacts DEF TypeOK
    <2>3. ASSUME NEW t \in DOMAIN tasks, Live(t)', ~IsCancelled(t)' PROVE FALSE
        BY <2>1, <2>3, CancelledTasksFacts DEF OnlyCurrentTaskLive, Live, IsCancelled
    <2> QED
        BY <2>2, <2>3 DEF OnlyCurrentTaskLive
<1>3. CASE Challengeable
    <2>1. cancelled' = cancelled
        BY <1>3 DEF Challengeable
    <2>2. ASSUME NEW t \in DOMAIN tasks, Live(t)', ~IsCancelled(t)' PROVE FALSE
        <3>1. tasks'[t] = CancelledTasks[t]
            BY <1>3, SpawnedFacts
        <3> QED
            BY <2>1, <2>2, <3>1, CancelledTasksFacts DEF OnlyCurrentTaskLive, Live, IsCancelled
    <2> QED
        BY <1>3, <2>2, SpawnedFacts DEF OnlyCurrentTaskLive
<1>4. ASSUME NEW s \in DOMAIN tasks, TaskNext(s) PROVE OnlyCurrentTaskLive'
    BY <1>4, TaskStepFacts DEF OnlyCurrentTaskLive, IsCancelled, token
<1>5. CASE Cancel
    BY <1>5 DEF Cancel, OnlyCurrentTaskLive, IsCancelled
<1>6. CASE RefreshChallengePeriod \/ RefreshFails \/ StopOnCancel \/ ReceiveNone
           \/ ReceivePoke \/ NotChallengeable \/ CloseSender \/ UNCHANGED vars
           \/ \E e \in Pokes \cup {None} : Deliver(e)
    <2>1. UNCHANGED <<tasks, challenge_process_cancelation_token, cancelled>>
        BY <1>6 DEF RefreshChallengePeriod, RefreshFails, StopOnCancel, ReceiveNone,
           ReceivePoke, NotChallengeable, CloseSender, Deliver, vars, processorVars
    <2> QED
        BY <1>1, <2>1
<1> QED
    BY <1>2, <1>3, <1>4, <1>5, <1>6 DEF Next

(***************************************************************************)
(* At most one challenge of the contract is under way.                     *)
(***************************************************************************)
THEOREM OneChallengeAtATime == Spec => []OnlyCurrentTaskLive
<1>1. Init => OnlyCurrentTaskLive
    BY DEF Init, OnlyCurrentTaskLive
<1> QED
    BY <1>1, OnlyCurrentStep, TypeCorrect, PTL DEF Spec

-----------------------------------------------------------------------------
(***************************************************************************)
(* Every step of the processor, its tasks and its environment is a step of *)
(* ChallengeIntent, or leaves Wanted, cancelled and begun as they are.     *)
(***************************************************************************)
LEMMA IntentStep ==
    ASSUME TypeOK, OnlyCurrentTaskLive, [Next]_vars
    PROVE  [Intent!Next]_<<Wanted, cancelled, begun>>
<1> USE DEF Intent!Next
<1>1. CASE UNCHANGED <<tasks, challenge_process_cancelation_token, cancelled, begun>>
    BY <1>1 DEF Wanted, IsCancelled, token
<1>2. CASE ReceiveChallenged
    BY <1>2 DEF ReceiveChallenged, Wanted, token, Intent!Withdraw
<1>3. CASE Challengeable
    <2>1. /\ tasks'[token'] = NewTask /\ token' # None
          /\ event \in Pokes /\ cancelled' = cancelled /\ begun' = begun
        BY <1>3, SpawnedFacts DEF Challengeable, TypeOK
    <2>2. CASE cancelled
        BY <2>1, <2>2 DEF Wanted, IsCancelled
    <2>3. CASE ~cancelled
        <3>1. Wanted' = event
            BY <2>1, <2>3 DEF Wanted, IsCancelled, NewTask
        <3> QED
            BY <2>1, <2>3, <3>1 DEF Intent!Want
    <2> QED
        BY <2>2, <2>3
<1>4. ASSUME NEW t \in DOMAIN tasks, DelayOver(t)
      PROVE  [Intent!Next]_<<Wanted, cancelled, begun>>
    <2>1. tasks[t] \in TaskRecord /\ t # None
        BY DEF TypeOK
    <2>2. t = token
        BY <1>4 DEF DelayOver, OnlyCurrentTaskLive, Live
    <2>3. Wanted = tasks[t].poke /\ tasks[t].poke \in Pokes
        BY <1>4, <2>1, <2>2 DEF DelayOver, Wanted, TaskRecord
    <2>4. tasks'[t].phase = "challenging"
        BY <1>4, <2>1 DEF DelayOver, TaskRecord
    <2>5. Wanted' = None
        BY <1>4, <2>2, <2>4 DEF DelayOver, Wanted, taskVars, processorVars, token
    <2> QED
        BY <1>4, <2>3, <2>5 DEF DelayOver, taskVars, Intent!Begin
<1>5. ASSUME NEW t \in DOMAIN tasks, ChallengeReturns(t) \/ CancelTask(t)
      PROVE  UNCHANGED <<Wanted, cancelled, begun>>
    <2>1. TaskNext(t)
        BY <1>5 DEF TaskNext
    <2>2. begun' = begun
        BY <1>5 DEF ChallengeReturns, CancelTask
    <2>3. tasks[t] \in TaskRecord
        BY DEF TypeOK
    <2>4. tasks[t].phase # "delay" \/ IsCancelled(t)
        BY <1>5 DEF ChallengeReturns, CancelTask
    <2>5. tasks'[t].phase # "delay"
        BY <1>5, <2>3 DEF ChallengeReturns, CancelTask, TaskRecord
    <2>6. CASE t = token
        BY <2>1, <2>2, <2>4, <2>5, <2>6, TaskStepFacts DEF Wanted, token
    <2>7. CASE t # token
        <3>1. token' = token /\ cancelled' = cancelled
            BY <2>1, TaskStepFacts DEF token
        <3>2. token # None => tasks'[token] = tasks[token]
            BY <2>1, <2>7, TaskStepFacts DEF TypeOK, token
        <3> QED
            BY <2>2, <3>1, <3>2 DEF Wanted, IsCancelled
    <2> QED
        BY <2>6, <2>7
<1>6. CASE Cancel
    BY <1>6 DEF Cancel, Wanted, IsCancelled, Intent!Close
<1>7. CASE RefreshChallengePeriod \/ RefreshFails \/ StopOnCancel \/ ReceiveNone
           \/ ReceivePoke \/ NotChallengeable \/ CloseSender \/ UNCHANGED vars
           \/ \E e \in Pokes \cup {None} : Deliver(e)
    <2>1. UNCHANGED <<tasks, challenge_process_cancelation_token, cancelled, begun>>
        BY <1>7 DEF RefreshChallengePeriod, RefreshFails, StopOnCancel, ReceiveNone,
           ReceivePoke, NotChallengeable, CloseSender, Deliver, vars, processorVars
    <2> QED
        BY <1>1, <2>1
<1> QED
    BY <1>2, <1>3, <1>4, <1>5, <1>6, <1>7 DEF Next, TaskNext

(***************************************************************************)
(* A challenge begins only for the last poke found challengeable, once for *)
(* every time it was found so, and neither after somebody's successful     *)
(* challenge was handled nor after the program was cancelled.              *)
(***************************************************************************)
THEOREM ImplementsIntent == Spec => KeepsIntent
<1>1. Init => Intent!Init
    BY DEF Init, Intent!Init, Wanted, token
<1> QED
    BY <1>1, IntentStep, TypeCorrect, OneChallengeAtATime, PTL
    DEF Spec, KeepsIntent, Intent!Spec

=============================================================================
