----------------------- MODULE ChallengerOrderProofs -----------------------
(***************************************************************************)
(* Proofs about the order of Challenger, for every number of logs, blocks  *)
(* and failed polls: how often a poke can come back after a poll that      *)
(* failed half-way, and that without one nothing overtakes anything on its *)
(* way from the chain to its challenge.                                    *)
(***************************************************************************)
EXTENDS ChallengerProofs, FiniteSetTheorems

USE ChallengerAssumption, ProcessorAssumption

(***************************************************************************)
(* What a step does to the channel, the event at hand and the tasks.       *)
(***************************************************************************)
Move ==
    \/ UNCHANGED <<queue, event, tasks, begun>>
    \/ \E p \in DOMAIN chain : SendLog(p)
    \/ ReceivePoke \/ ReceiveChallenged
    \/ RefreshFails \/ StopOnCancel
    \/ \E verdict \in Verdicts : Ends(verdict)
    \/ \E t \in DOMAIN tasks : DelayOver(t) \/ CancelTask(t)

LEMMA Moves ==
    ASSUME [SystemNext]_systemVars
    PROVE  Move
<1>1. CASE ProcessorStep
    BY <1>1 DEF ProcessorStep, RefreshChallengePeriod, Cancel, processorVars, Move
<1>2. CASE CheckPoke
    BY <1>2 DEF CheckPoke, Move
<1>3. CASE CheckNext
    BY <1>3, CheckCases DEF WaitFor, vars, processorVars, Move
<1>4. CASE OwnerChangesPeriod \/ UNCHANGED systemVars \/ PollFails \/ FinishPoll \/ SealBlock
           \/ (\E k \in Kinds : MineLog(k)) \/ \E p \in DOMAIN chain : SkipLog(p)
    <2>1. UNCHANGED vars
        BY <1>4 DEF OwnerChangesPeriod, systemVars, PollFails, FinishPoll, SealBlock,
           MineLog, SkipLog
    <2> QED
        BY <2>1 DEF vars, processorVars, Move
<1>5. CASE \E p \in DOMAIN chain : SendLog(p)
    BY <1>5 DEF Move
<1> QED
    BY <1>1, <1>2, <1>3, <1>4, <1>5, FeedStepCases DEF OtherStep

LEMMA RewindsStep ==
    ASSUME WorldOK, [SystemNext]_systemVars
    PROVE  /\ rewinds \in Nat /\ rewinds' \in {rewinds, rewinds + 1}
           /\ rewinds' # rewinds => PollFails
<1>1. rewinds \in Nat
    BY DEF WorldOK
<1>2. CASE OtherStep
    BY <1>1, <1>2, OtherStepKeepsFeed
<1>3. CASE PollFails
    BY <1>1, <1>3 DEF PollFails
<1>4. CASE FinishPoll \/ SealBlock \/ (\E k \in Kinds : MineLog(k))
           \/ \E p \in DOMAIN chain : SendLog(p) \/ SkipLog(p)
    BY <1>1, <1>4 DEF FinishPoll, SealBlock, MineLog, SendLog, SkipLog
<1> QED
    BY <1>2, <1>3, <1>4, FeedStepCases

\* Only a poll that fails goes back behind a log.
LEMMA PassedKept ==
    ASSUME ChainOK, FeedInv, [SystemNext]_systemVars, NEW p \in DOMAIN chain, Passed(p)
    PROVE  Passed(p)' \/ PollFails
<1>0. cursor \in Nat /\ head \in Nat /\ chain[p].block \in Nat
    BY ChainFacts DEF ChainOK
<1>1. CASE OtherStep
    BY <1>1, OtherStepKeepsFeed DEF Passed
<1>2. ASSUME NEW k \in Kinds, MineLog(k) PROVE Passed(p)'
    BY <1>2, MinedFacts DEF Passed
<1>3. ASSUME NEW q \in DOMAIN chain, SendLog(q) \/ SkipLog(q) PROVE Passed(p)'
    <2>1. UNCHANGED <<chain, cursor>> /\ handed' = handed \cup {q}
        BY <1>3 DEF SendLog, SkipLog, Feed!Hand, Feed!Skip
    <2> QED
        BY <2>1 DEF Passed
<1>4. CASE SealBlock
    BY <1>4 DEF SealBlock, Feed!Seal, Passed
<1>5. CASE FinishPoll
    <2>1. PICK b \in (cursor + 1) .. head : Feed!Commit(b)
        BY <1>5 DEF FinishPoll
    <2>2. chain' = chain /\ cursor' = b + 1 /\ b \in Nat /\ b > cursor
        BY <1>0, <2>1 DEF Feed!Commit
    <2>3. chain[p].block <= b
        <3>1. CASE p \in handed
            BY <2>1, <3>1 DEF FeedInv, Feed!Commit
        <3>2. CASE chain[p].block < cursor
            BY <1>0, <2>2, <3>2
        <3> QED
            BY <3>1, <3>2 DEF Passed
    <2>4. chain'[p].block < cursor'
        BY <1>0, <2>2, <2>3
    <2> QED
        BY <2>4 DEF Passed
<1> QED
    BY <1>1, <1>2, <1>3, <1>4, <1>5, FeedStepCases

LEMMA SentWasNotPassed ==
    ASSUME ChainOK, NEW q \in DOMAIN chain, SendLog(q)
    PROVE  ~Passed(q) /\ Passed(q)' /\ chain' = chain /\ sent' = sent \cup {q}
<1>1. /\ q \notin handed /\ cursor <= chain[q].block /\ handed' = handed \cup {q}
      /\ chain' = chain /\ sent' = sent \cup {q}
    BY DEF SendLog, Feed!Hand, Feed!InTurn
<1>2. cursor \in Nat /\ chain[q].block \in Nat
    BY ChainFacts DEF ChainOK
<1> QED
    BY <1>1, <1>2 DEF Passed

-----------------------------------------------------------------------------
(***************************************************************************)
(* Where a sequence has an element.                                        *)
(***************************************************************************)
Places(seq, x) == {i \in DOMAIN seq : seq[i] = x}

Bit(holds) == IF holds THEN 1 ELSE 0

LEMMA PlacesFinite ==
    ASSUME NEW S, NEW seq \in Seq(S), NEW x
    PROVE  /\ IsFiniteSet(Places(seq, x)) /\ Cardinality(Places(seq, x)) \in Nat
           /\ Places(seq, x) \subseteq Int
<1>1. DOMAIN seq = 1 .. Len(seq) /\ Len(seq) \in Nat
    OBVIOUS
<1>2. IsFiniteSet(DOMAIN seq)
    <2>1. IsFiniteSet(1 .. Len(seq))
        BY <1>1, FS_Interval, 1 \in Int, Len(seq) \in Int
    <2> QED
        BY <1>1, <2>1
<1>3. Places(seq, x) \subseteq DOMAIN seq
    BY DEF Places
<1> QED
    BY <1>1, <1>2, <1>3, FS_Subset, FS_CardinalityType

LEMMA PlacesAppend ==
    ASSUME NEW S, NEW seq \in Seq(S), NEW e \in S, NEW x
    PROVE  Cardinality(Places(Append(seq, e), x)) = Cardinality(Places(seq, x)) + Bit(e = x)
<1> DEFINE n == Len(seq) + 1
           P == Places(seq, x)
<1>1. /\ DOMAIN Append(seq, e) = DOMAIN seq \cup {n} /\ n \notin DOMAIN seq
      /\ Append(seq, e)[n] = e /\ \A i \in DOMAIN seq : Append(seq, e)[i] = seq[i]
    BY AppendProperties
<1>2. IsFiniteSet(P) /\ Cardinality(P) \in Nat
    BY PlacesFinite
<1> HIDE DEF n
<1>3. CASE e = x
    <2>1. Places(Append(seq, e), x) = P \cup {n} /\ n \notin P
        BY <1>1, <1>3 DEF Places
    <2>2. Cardinality(P \cup {n}) = Cardinality(P) + 1
        BY <1>2, <2>1, FS_AddElement
    <2> QED
        BY <1>3, <2>1, <2>2 DEF Bit
<1>4. CASE e # x
    <2>1. Places(Append(seq, e), x) = P
        BY <1>1, <1>4 DEF Places
    <2> QED
        BY <1>2, <1>4, <2>1 DEF Bit
<1> QED
    BY <1>3, <1>4

LEMMA PlacesTail ==
    ASSUME NEW S, NEW seq \in Seq(S), seq # <<>>, NEW x
    PROVE  Cardinality(Places(Tail(seq), x)) + Bit(seq[1] = x) <= Cardinality(Places(seq, x))
<1> DEFINE P == Places(seq, x)
           T == Places(Tail(seq), x)
           f == [i \in T |-> i + 1]
<1>1. /\ Tail(seq) \in Seq(S) /\ 1 \in DOMAIN seq
      /\ \A i \in DOMAIN Tail(seq) : /\ i \in Int /\ i >= 1 /\ i + 1 \in DOMAIN seq
                                     /\ Tail(seq)[i] = seq[i + 1]
    OBVIOUS
<1>2. /\ IsFiniteSet(P) /\ Cardinality(P) \in Nat
      /\ IsFiniteSet(T) /\ Cardinality(T) \in Nat /\ T \subseteq Int
    BY <1>1, PlacesFinite
<1>3. \A i \in T : i + 1 \in P \ {1}
    BY <1>1 DEF Places
<1>4. f \in Injection(T, P \ {1})
    <2>1. \A i, j \in T : i + 1 = j + 1 => i = j
        BY <1>2
    <2> HIDE DEF T, P
    <2> QED
        BY <1>3, <2>1 DEF Injection, IsInjective
<1>5. /\ IsFiniteSet(P \ {1})
      /\ Cardinality(P \ {1}) = IF 1 \in P THEN Cardinality(P) - 1 ELSE Cardinality(P)
    BY <1>2, FS_RemoveElement
<1>6. Cardinality(T) <= Cardinality(P \ {1})
    BY <1>4, <1>5, FS_Injection
<1>7. 1 \in P <=> seq[1] = x
    BY <1>1 DEF Places
<1> QED
    BY <1>2, <1>5, <1>6, <1>7 DEF Bit

-----------------------------------------------------------------------------
(***************************************************************************)
(* The copies of a poke that are on their way, or were challenged.  Each   *)
(* one is paid for: one by the log that was passed, one by each poll that  *)
(* failed half-way.                                                        *)
(***************************************************************************)
Delayed(p) == {t \in DOMAIN tasks : tasks[t].poke = p /\ tasks[t].phase = "delay"}

Copies(p) ==
    Cardinality(Places(queue, p)) + Bit(event = p) + Cardinality(Delayed(p)) + begun[p]

HasPassed(p) == p \in DOMAIN chain /\ Passed(p)

CopiesArePaid == \A p \in Pokes : Copies(p) <= rewinds + Bit(HasPassed(p))

LEMMA DelayedFinite ==
    ASSUME TypeOK, NEW p
    PROVE  IsFiniteSet(Delayed(p)) /\ Cardinality(Delayed(p)) \in Nat
<1>1. DOMAIN tasks = 1 .. Len(tasks) /\ Len(tasks) \in Nat
    BY DEF TypeOK
<1>2. IsFiniteSet(DOMAIN tasks)
    <2>1. IsFiniteSet(1 .. Len(tasks))
        BY <1>1, FS_Interval, 1 \in Int, Len(tasks) \in Int
    <2> QED
        BY <1>1, <2>1
<1>3. Delayed(p) \subseteq DOMAIN tasks
    BY DEF Delayed
<1> QED
    BY <1>2, <1>3, FS_Subset, FS_CardinalityType

LEMMA SameDelayed ==
    ASSUME TypeOK, NEW p, tasks' = CancelledTasks
    PROVE  Delayed(p)' = Delayed(p)
<1>1. DOMAIN tasks' = DOMAIN tasks
    BY CancelledTasksFacts DEF TypeOK
<1> QED
    BY <1>1, CancelledTasksFacts DEF Delayed

LEMMA SpawnedDelayed ==
    ASSUME TypeOK, NEW p, Challengeable
    PROVE  Cardinality(Delayed(p)') = Cardinality(Delayed(p)) + Bit(event = p)
<1> DEFINE n == Len(tasks) + 1
<1>1. /\ DOMAIN tasks' = DOMAIN tasks \cup {n} /\ n \notin DOMAIN tasks
      /\ \A t \in DOMAIN tasks : /\ tasks'[t].poke = tasks[t].poke
                                 /\ tasks'[t].phase = tasks[t].phase
      /\ tasks'[n].poke = event /\ tasks'[n].phase = "delay"
    BY SpawnedFacts, CancelledTasksFacts DEF NewTask
<1> HIDE DEF n
<1>2. IsFiniteSet(Delayed(p)) /\ Cardinality(Delayed(p)) \in Nat
    BY DelayedFinite
<1>3. CASE event = p
    <2>1. Delayed(p)' = Delayed(p) \cup {n} /\ n \notin Delayed(p)
        BY <1>1, <1>3 DEF Delayed
    <2>2. Cardinality(Delayed(p) \cup {n}) = Cardinality(Delayed(p)) + 1
        BY <1>2, <2>1, FS_AddElement
    <2> QED
        BY <1>3, <2>1, <2>2 DEF Bit
<1>4. CASE event # p
    <2>1. Delayed(p)' = Delayed(p)
        BY <1>1, <1>4 DEF Delayed
    <2> QED
        BY <1>2, <1>4, <2>1 DEF Bit
<1> QED
    BY <1>3, <1>4

\* A task that begins its challenge, or is cancelled, leaves the delay.
LEMMA TaskStepDelayed ==
    ASSUME TypeOK, NEW p \in Pokes, NEW s \in DOMAIN tasks, DelayOver(s) \/ CancelTask(s)
    PROVE  Cardinality(Delayed(p)') + begun'[p] <= Cardinality(Delayed(p)) + begun[p]
<1>1. tasks \in Seq(TaskRecord) /\ begun \in [Pokes -> Nat] /\ begun[p] \in Nat
    BY DEF TypeOK
<1>2. /\ DOMAIN tasks' = DOMAIN tasks
      /\ \A t \in DOMAIN tasks : /\ tasks'[t].poke = tasks[t].poke
                                 /\ t # s => tasks'[t] = tasks[t]
      /\ tasks'[s].phase # "delay"
    <2>1. tasks[s] \in TaskRecord
        BY <1>1
    <2>2. tasks'[s].phase # "delay"
        BY <1>1, <2>1 DEF DelayOver, CancelTask, TaskRecord
    <2> QED
        BY <2>2, TaskStepFacts DEF TaskNext
<1>3. Delayed(p)' = Delayed(p) \ {s}
    BY <1>2 DEF Delayed
<1>4. /\ IsFiniteSet(Delayed(p)) /\ Cardinality(Delayed(p)) \in Nat
      /\ Cardinality(Delayed(p) \ {s}) = IF s \in Delayed(p) THEN Cardinality(Delayed(p)) - 1
                                         ELSE Cardinality(Delayed(p))
    BY DelayedFinite, FS_RemoveElement
<1>5. CASE DelayOver(s)
    <2>1. begun' = [begun EXCEPT ![tasks[s].poke] = @ + 1] /\ tasks[s].phase = "delay"
        BY <1>5 DEF DelayOver
    <2>2. CASE tasks[s].poke = p
        <3>1. s \in Delayed(p) /\ begun'[p] = begun[p] + 1
            BY <1>1, <2>1, <2>2 DEF Delayed
        <3> QED
            BY <1>1, <1>3, <1>4, <3>1
    <2>3. CASE tasks[s].poke # p
        <3>1. begun'[p] = begun[p]
            BY <1>1, <2>1, <2>3
        <3> QED
            BY <1>1, <1>3, <1>4, <3>1
    <2> QED
        BY <2>2, <2>3
<1>6. CASE CancelTask(s)
    <2>1. begun' = begun
        BY <1>6 DEF CancelTask
    <2> QED
        BY <1>1, <1>3, <1>4, <2>1
<1> QED
    BY <1>5, <1>6

CountsOK == \A p \in Pokes : Cardinality(Delayed(p)) \in Nat

LEMMA DelayedCount == TypeOK => CountsOK
    BY DelayedFinite DEF CountsOK

LEMMA DelayedCountNext == TypeOK' => CountsOK'
    BY DelayedCount, PTL

LEMMA CopiesParts ==
    ASSUME TypeOK, [Next]_vars, NEW p \in Pokes
    PROVE  /\ Copies(p) = Cardinality(Places(queue, p)) + Bit(event = p)
                          + Cardinality(Delayed(p)) + begun[p]
           /\ Copies(p)' = Cardinality(Places(queue', p)) + Bit(event' = p)
                           + Cardinality(Delayed(p)') + begun'[p]
           /\ Cardinality(Places(queue, p)) \in Nat /\ Cardinality(Places(queue', p)) \in Nat
           /\ Bit(event = p) \in Nat /\ Bit(event' = p) \in Nat
           /\ Cardinality(Delayed(p)) \in Nat /\ Cardinality(Delayed(p)') \in Nat
           /\ begun[p] \in Nat /\ begun'[p] \in Nat
<1>1. TypeOK'
    BY TypeStep
<1>2. /\ queue \in Seq(Pokes \cup {None}) /\ queue' \in Seq(Pokes \cup {None})
      /\ begun[p] \in Nat /\ begun'[p] \in Nat
    BY <1>1 DEF TypeOK
<1>3. Cardinality(Delayed(p)) \in Nat /\ Cardinality(Delayed(p)') \in Nat
    BY <1>1, DelayedCount, DelayedCountNext DEF CountsOK
<1>4. Cardinality(Places(queue, p)) \in Nat /\ Cardinality(Places(queue', p)) \in Nat
    BY <1>2, PlacesFinite
<1>5. Copies(p)' = Cardinality(Places(queue', p)) + Bit(event' = p)
                   + Cardinality(Delayed(p)') + begun'[p]
    BY DEF Copies
<1> QED
    BY <1>2, <1>3, <1>4, <1>5 DEF Copies, Bit

LEMMA CopiesMove ==
    ASSUME TypeOK, ChainOK, [SystemNext]_systemVars, NEW p \in Pokes
    PROVE  \/ Copies(p)' <= Copies(p)
           \/ p \in DOMAIN chain /\ SendLog(p) /\ Copies(p)' <= Copies(p) + 1
<1> DEFINE queued == Cardinality(Places(queue, p))
           queuedNext == Cardinality(Places(queue', p))
           atHand == Bit(event = p)
           atHandNext == Bit(event' = p)
           delayed == Cardinality(Delayed(p))
           delayedNext == Cardinality(Delayed(p)')
<1>0. /\ queue \in Seq(Pokes \cup {None}) /\ p # None
    BY DEF TypeOK
<1>7. /\ Copies(p) = queued + atHand + delayed + begun[p]
      /\ Copies(p)' = queuedNext + atHandNext + delayedNext + begun'[p]
      /\ queued \in Nat /\ queuedNext \in Nat /\ atHand \in Nat /\ atHandNext \in Nat
      /\ delayed \in Nat /\ delayedNext \in Nat /\ begun[p] \in Nat /\ begun'[p] \in Nat
    BY IsProcessorStep, CopiesParts
<1>1. CASE UNCHANGED <<queue, event, tasks, begun>>
    <2>1. queuedNext = queued /\ atHandNext = atHand /\ begun'[p] = begun[p]
        BY <1>1
    <2>2. delayedNext = delayed
        BY <1>1 DEF Delayed
    <2> HIDE DEF queued, queuedNext, atHand, atHandNext, delayed, delayedNext
    <2> QED
        BY <1>7, <2>1, <2>2
<1>2. ASSUME NEW q \in DOMAIN chain, SendLog(q)
      PROVE  \/ Copies(p)' <= Copies(p)
             \/ p \in DOMAIN chain /\ SendLog(p) /\ Copies(p)' <= Copies(p) + 1
    <2>1. queue' = Append(queue, TryFrom(q)) /\ UNCHANGED <<event, tasks, begun>>
        BY <1>2 DEF SendLog, Deliver, processorVars
    <2>2. TryFrom(q) \in Pokes \cup {None} /\ (TryFrom(q) = p => q = p)
        BY <1>0, ChainFacts DEF TryFrom
    <2>3. queuedNext = queued + Bit(TryFrom(q) = p)
        BY <1>0, <2>1, <2>2, PlacesAppend
    <2>4. delayedNext = delayed
        BY <2>1 DEF Delayed
    <2>5. atHandNext = atHand /\ begun'[p] = begun[p]
        BY <2>1
    <2> HIDE DEF queued, queuedNext, atHand, atHandNext, delayed, delayedNext
    <2>6. Copies(p)' = Copies(p) + Bit(TryFrom(q) = p)
        BY <1>7, <2>3, <2>4, <2>5 DEF Bit
    <2> QED
        BY <1>2, <1>7, <2>2, <2>6 DEF Bit
<1>3. CASE ReceivePoke \/ ReceiveChallenged
    <2>1. queue # <<>> /\ queue' = Tail(queue) /\ begun' = begun
        BY <1>3 DEF ReceivePoke, ReceiveChallenged
    <2>2. queuedNext + Bit(queue[1] = p) <= queued
        BY <1>0, <2>1, PlacesTail
    <2>3. atHandNext <= atHand + Bit(queue[1] = p) /\ Bit(queue[1] = p) \in Nat
        BY <1>0, <1>3, <2>1 DEF ReceivePoke, ReceiveChallenged, Bit
    <2>4. Delayed(p)' = Delayed(p)
        <3>1. CASE ReceivePoke
            BY <3>1 DEF ReceivePoke, Delayed
        <3>2. CASE ReceiveChallenged
            BY <3>2, SameDelayed DEF ReceiveChallenged
        <3> QED
            BY <1>3, <3>1, <3>2
    <2>5. delayedNext = delayed /\ begun'[p] = begun[p]
        BY <2>1, <2>4
    <2> HIDE DEF queued, queuedNext, atHand, atHandNext, delayed, delayedNext
    <2> QED
        BY <1>7, <2>2, <2>3, <2>5
<1>4. CASE RefreshFails \/ StopOnCancel
    <2>1. queue' = <<>> /\ UNCHANGED <<event, tasks, begun>>
        BY <1>4 DEF RefreshFails, StopOnCancel
    <2>2. queuedNext = 0
        <3>1. Places(queue', p) = {}
            BY <2>1 DEF Places
        <3> QED
            BY <3>1, FS_EmptySet
    <2>3. delayedNext = delayed
        BY <2>1 DEF Delayed
    <2>4. atHandNext = atHand /\ begun'[p] = begun[p]
        BY <2>1
    <2> HIDE DEF queued, queuedNext, atHand, atHandNext, delayed, delayedNext
    <2> QED
        BY <1>7, <2>2, <2>3, <2>4
<1>5. ASSUME NEW verdict \in Verdicts, Ends(verdict) PROVE Copies(p)' <= Copies(p)
    <2>1. queuedNext = queued /\ begun'[p] = begun[p] /\ atHandNext = 0
        BY <1>0, <1>5, EndsFacts DEF Bit
    <2>2. CASE verdict = "challengeable"
        <3>1. delayedNext = delayed + atHand
            BY <1>5, <2>2, EndsFacts, SpawnedDelayed
        <3> HIDE DEF queued, queuedNext, atHand, atHandNext, delayed, delayedNext
        <3> QED
            BY <1>7, <2>1, <3>1
    <2>3. CASE verdict # "challengeable"
        <3>1. tasks' = tasks
            BY <1>5, <2>3, EndsFacts
        <3>2. delayedNext = delayed
            BY <3>1 DEF Delayed
        <3> HIDE DEF queued, queuedNext, atHand, atHandNext, delayed, delayedNext
        <3> QED
            BY <1>7, <2>1, <3>2
    <2> QED
        BY <2>2, <2>3
<1>6. ASSUME NEW s \in DOMAIN tasks, DelayOver(s) \/ CancelTask(s)
      PROVE  Copies(p)' <= Copies(p)
    <2>1. queuedNext = queued /\ atHandNext = atHand
        BY <1>6 DEF DelayOver, CancelTask, taskVars, processorVars
    <2>2. delayedNext + begun'[p] <= delayed + begun[p]
        BY <1>6, TaskStepDelayed
    <2> HIDE DEF queued, queuedNext, atHand, atHandNext, delayed, delayedNext
    <2> QED
        BY <1>7, <2>1, <2>2
<1> QED
    BY <1>1, <1>2, <1>3, <1>4, <1>5, <1>6, Moves DEF Move

\* What pays for the copies of a poke never becomes less, and more when its log is sent.
LEMMA BudgetMove ==
    ASSUME ChainOK, FeedInv, WorldOK, [SystemNext]_systemVars, NEW p \in Pokes
    PROVE  /\ rewinds \in Nat /\ rewinds' \in Nat
           /\ rewinds + Bit(HasPassed(p)) <= rewinds' + Bit(HasPassed(p)')
           /\ p \in DOMAIN chain /\ SendLog(p) =>
                 rewinds + Bit(HasPassed(p)) + 1 <= rewinds' + Bit(HasPassed(p)')
<1>1. rewinds \in Nat /\ rewinds' \in {rewinds, rewinds + 1}
    BY RewindsStep
<1>2. rewinds' = rewinds + 1 \/ (rewinds' = rewinds /\ (HasPassed(p) => HasPassed(p)'))
    <2>1. CASE PollFails
        BY <2>1 DEF PollFails
    <2>2. CASE ~PollFails
        BY <2>2, RewindsStep, PassedKept, PokesStay DEF HasPassed
    <2> QED
        BY <2>1, <2>2
<1>3. ASSUME p \in DOMAIN chain, SendLog(p)
      PROVE  ~HasPassed(p) /\ HasPassed(p)' /\ rewinds' = rewinds
    BY <1>3, SentWasNotPassed DEF HasPassed, SendLog
<1> QED
    BY <1>1, <1>2, <1>3 DEF Bit

LEMMA CopiesStep ==
    ASSUME ChainOK, TypeOK, WorldOK, FeedInv, CopiesArePaid, [SystemNext]_systemVars
    PROVE  CopiesArePaid'
<1> SUFFICES ASSUME NEW p \in Pokes
             PROVE  Copies(p)' <= rewinds' + Bit(HasPassed(p)')
    BY DEF CopiesArePaid
<1>1. Copies(p) <= rewinds + Bit(HasPassed(p))
    BY DEF CopiesArePaid
<1>2. Copies(p) \in Nat /\ Copies(p)' \in Nat
    <2> DEFINE a == Cardinality(Places(queue, p))
               b == Bit(event = p)
               c == Cardinality(Delayed(p))
               d == Cardinality(Places(queue', p))
               e == Bit(event' = p)
               f == Cardinality(Delayed(p)')
    <2>1. /\ Copies(p) = a + b + c + begun[p] /\ Copies(p)' = d + e + f + begun'[p]
          /\ a \in Nat /\ b \in Nat /\ c \in Nat /\ begun[p] \in Nat
          /\ d \in Nat /\ e \in Nat /\ f \in Nat /\ begun'[p] \in Nat
        BY IsProcessorStep, CopiesParts
    <2> HIDE DEF a, b, c, d, e, f
    <2>2. Copies(p) \in Nat
        BY <2>1
    <2>3. Copies(p)' \in Nat
        BY <2>1
    <2> QED
        BY <2>2, <2>3
<1>3. Bit(HasPassed(p)) \in Nat /\ Bit(HasPassed(p)') \in Nat
    BY DEF Bit
<1> QED
    BY <1>1, <1>2, <1>3, CopiesMove, BudgetMove

LEMMA CopiesInit == SystemInit => CopiesArePaid
<1> SUFFICES ASSUME SystemInit, NEW p \in Pokes
             PROVE  Copies(p) <= rewinds + Bit(HasPassed(p))
    BY DEF CopiesArePaid
<1>1. Places(queue, p) = {} /\ Delayed(p) = {} /\ begun[p] = 0 /\ event # p /\ rewinds = 0
    BY DEF SystemInit, Init, Places, Delayed
<1>2. Copies(p) = 0
    BY <1>1, FS_EmptySet DEF Copies, Bit
<1> QED
    BY <1>1, <1>2 DEF Bit

LEMMA BegunIsPaid ==
    ASSUME TypeOK, WorldOK, CopiesArePaid
    PROVE  \A p \in Pokes : begun[p] <= 1 + rewinds
<1> SUFFICES ASSUME NEW p \in Pokes PROVE begun[p] <= 1 + rewinds
    OBVIOUS
<1> DEFINE queued == Cardinality(Places(queue, p))
           delayed == Cardinality(Delayed(p))
           atHand == Bit(event = p)
           passed == Bit(HasPassed(p))
<1>1. /\ queued \in Nat /\ delayed \in Nat /\ begun[p] \in Nat /\ rewinds \in Nat
      /\ atHand \in Nat /\ passed \in {0, 1}
    BY DelayedFinite, PlacesFinite DEF TypeOK, WorldOK, Bit
<1>2. queued + atHand + delayed + begun[p] <= rewinds + passed
    BY DEF CopiesArePaid, Copies
<1> HIDE DEF queued, delayed, atHand, passed
<1> QED
    BY <1>1, <1>2

-----------------------------------------------------------------------------
(***************************************************************************)
(* As long as no poll failed half-way, the pokes are in the order of the   *)
(* chain all the way: in the channel, at hand, in the tasks.               *)
(***************************************************************************)
TasksInOrder == \A t, u \in DOMAIN tasks : t < u => tasks[t].poke < tasks[u].poke

QueueInOrder ==
    \A i, j \in DOMAIN queue :
        i < j /\ queue[i] # None /\ queue[j] # None => queue[i] < queue[j]

WaitingIsLater ==
    /\ \A t \in DOMAIN tasks, i \in DOMAIN queue : queue[i] # None => tasks[t].poke < queue[i]
    /\ \A t \in DOMAIN tasks : event # None => tasks[t].poke < event
    /\ \A i \in DOMAIN queue : event # None /\ queue[i] # None => event < queue[i]

SentBefore ==
    /\ \A t \in DOMAIN tasks : tasks[t].poke \in sent
    /\ event # None => event \in sent
    /\ \A i \in DOMAIN queue : queue[i] # None => queue[i] \in sent

SentArePassed == \A p \in sent : Passed(p)

InOrder == TasksInOrder /\ QueueInOrder /\ WaitingIsLater /\ SentBefore /\ SentArePassed

OrderInv == rewinds = 0 => InOrder

\* What is sent is later than all that was sent.
LEMMA SentIsLater ==
    ASSUME ChainOK, FeedInv, SentArePassed, NEW q \in DOMAIN chain, SendLog(q)
    PROVE  \A p \in sent : p < q
<1> SUFFICES ASSUME NEW p \in sent PROVE p < q
    OBVIOUS
<1>1. p \in DOMAIN chain /\ p \in Nat /\ q \in Nat /\ Passed(p) /\ ~Passed(q)
    BY ChainFacts, SentWasNotPassed DEF ChainOK, SentArePassed
<1>2. /\ chain[p].block \in Nat /\ chain[q].block \in Nat /\ cursor \in Nat
      /\ q \notin handed /\ cursor <= chain[q].block
    BY <1>1, ChainFacts DEF ChainOK, SendLog, Feed!Hand, Feed!InTurn
<1>3. ~(q < p)
    <2> SUFFICES ASSUME q < p PROVE FALSE
        OBVIOUS
    <2>1. chain[q].block <= chain[p].block
        BY <1>1 DEF FeedInv
    <2>2. p \notin handed
        BY <1>2 DEF FeedInv
    <2> QED
        BY <1>1, <1>2, <2>1, <2>2 DEF Passed
<1> QED
    BY <1>1, <1>3

LEMMA SentArePassedStep ==
    ASSUME ChainOK, FeedInv, WorldOK, SentArePassed, [SystemNext]_systemVars, rewinds' = 0
    PROVE  SentArePassed'
<1>1. rewinds = 0 /\ ~PollFails
    BY RewindsStep DEF PollFails
<1>2. ASSUME NEW p \in sent PROVE Passed(p)'
    <2>1. p \in DOMAIN chain /\ Passed(p)
        BY DEF ChainOK, SentArePassed
    <2> QED
        BY <1>1, <2>1, PassedKept
<1>3. ASSUME NEW q \in DOMAIN chain, SendLog(q) PROVE Passed(q)'
    BY <1>3, SentWasNotPassed
<1> QED
    BY <1>2, <1>3, SentCases DEF SentArePassed

LEMMA OrderStep ==
    ASSUME ChainOK, TypeOK, WorldOK, FeedInv, OrderInv, [SystemNext]_systemVars
    PROVE  OrderInv'
<1> SUFFICES ASSUME rewinds' = 0 PROVE InOrder'
    BY DEF OrderInv
<1>0. rewinds = 0 /\ InOrder
    BY RewindsStep DEF PollFails, OrderInv
<1>1. SentArePassed' /\ sent \subseteq sent'
    BY <1>0, SentArePassedStep, SentCases DEF InOrder
<1> SUFFICES TasksInOrder' /\ QueueInOrder' /\ WaitingIsLater' /\ SentBefore'
    BY <1>1 DEF InOrder
<1> USE <1>0 DEF InOrder
<1>9. /\ queue \in Seq(Pokes \cup {None}) /\ tasks \in Seq(TaskRecord)
      /\ DOMAIN tasks = 1 .. Len(tasks) /\ Len(tasks) \in Nat /\ sent \subseteq Nat
      /\ Pokes \subseteq Nat
      /\ \A t \in DOMAIN tasks : tasks[t].poke \in Pokes
    <2>1. queue \in Seq(Pokes \cup {None}) /\ tasks \in Seq(TaskRecord)
        BY DEF TypeOK
    <2>2. \A t \in DOMAIN tasks : tasks[t].poke \in Pokes
        <3>1. \A t \in DOMAIN tasks : tasks[t] \in TaskRecord
            BY <2>1
        <3> QED
            BY <3>1 DEF TaskRecord
    <2>3. sent \subseteq Nat
        BY ChainFacts DEF ChainOK
    <2> QED
        BY <2>1, <2>2, <2>3
<1>2. CASE UNCHANGED <<queue, event, tasks, begun>>
    BY <1>1, <1>2 DEF TasksInOrder, QueueInOrder, WaitingIsLater, SentBefore
<1>3. ASSUME NEW q \in DOMAIN chain, SendLog(q)
      PROVE  TasksInOrder' /\ QueueInOrder' /\ WaitingIsLater' /\ SentBefore'
    <2>1. queue' = Append(queue, TryFrom(q)) /\ UNCHANGED <<event, tasks>>
        BY <1>3 DEF SendLog, Deliver, processorVars
    <2>2. /\ TryFrom(q) # None => TryFrom(q) = q
          /\ q \in sent' /\ \A p \in sent : p < q
          /\ TryFrom(q) \in Pokes \cup {None}
        BY <1>3, SentIsLater, SentWasNotPassed, ChainFacts DEF TryFrom
    <2> DEFINE n == Len(queue) + 1
    <2>3. /\ DOMAIN queue' = DOMAIN queue \cup {n} /\ queue'[n] = TryFrom(q) /\ n \in Nat
          /\ \A i \in DOMAIN queue : queue'[i] = queue[i] /\ i < n /\ i \in Nat
        BY <1>9, <2>1, <2>2, AppendProperties
    <2> HIDE DEF n
    <2>4. TasksInOrder'
        BY <2>1 DEF TasksInOrder
    <2>5. QueueInOrder'
        BY <2>2, <2>3 DEF QueueInOrder, SentBefore
    <2>6. WaitingIsLater'
        BY <2>1, <2>2, <2>3 DEF WaitingIsLater, SentBefore
    <2>7. SentBefore'
        BY <1>1, <2>1, <2>2, <2>3 DEF SentBefore
    <2> QED
        BY <2>4, <2>5, <2>6, <2>7
<1>4. CASE ReceivePoke
    <2>1. /\ queue # <<>> /\ queue' = Tail(queue) /\ tasks' = tasks
          /\ event' = queue[1] /\ 1 \in DOMAIN queue /\ queue[1] # None
        BY <1>4, <1>9 DEF ReceivePoke
    <2>2. \A i \in DOMAIN queue' : /\ i \in Nat /\ 1 < i + 1 /\ i + 1 \in DOMAIN queue
                                   /\ queue'[i] = queue[i + 1]
        BY <1>9, <2>1
    <2>3. QueueInOrder'
        BY <2>2 DEF QueueInOrder
    <2>4. WaitingIsLater'
        BY <2>1, <2>2 DEF WaitingIsLater, QueueInOrder
    <2> QED
        BY <1>1, <2>1, <2>2, <2>3, <2>4 DEF TasksInOrder, SentBefore
<1>5. CASE ReceiveChallenged
    <2>1. queue # <<>> /\ queue' = Tail(queue) /\ event' = event /\ tasks' = CancelledTasks
        BY <1>5 DEF ReceiveChallenged
    <2>2. \A i \in DOMAIN queue' : /\ i \in Nat /\ i + 1 \in DOMAIN queue
                                   /\ queue'[i] = queue[i + 1]
        BY <1>9, <2>1
    <2>3. DOMAIN tasks' = DOMAIN tasks /\ \A t \in DOMAIN tasks : tasks'[t].poke = tasks[t].poke
        BY <1>9, <2>1, CancelledTasksFacts
    <2>4. QueueInOrder'
        BY <2>2 DEF QueueInOrder
    <2>5. WaitingIsLater' /\ TasksInOrder'
        BY <2>1, <2>2, <2>3 DEF WaitingIsLater, TasksInOrder
    <2> QED
        BY <1>1, <2>1, <2>2, <2>3, <2>4, <2>5 DEF SentBefore
<1>6. CASE RefreshFails \/ StopOnCancel
    <2>1. queue' = <<>> /\ UNCHANGED <<event, tasks>>
        BY <1>6 DEF RefreshFails, StopOnCancel
    <2> QED
        BY <1>1, <2>1 DEF TasksInOrder, QueueInOrder, WaitingIsLater, SentBefore
<1>7. ASSUME NEW verdict \in Verdicts, Ends(verdict)
      PROVE  TasksInOrder' /\ QueueInOrder' /\ WaitingIsLater' /\ SentBefore'
    <2>1. queue' = queue /\ event' = None /\ event \in Pokes /\ event # None
        BY <1>7, EndsFacts
    <2>2. CASE tasks' = tasks
        BY <1>1, <2>1, <2>2 DEF TasksInOrder, QueueInOrder, WaitingIsLater, SentBefore
    <2>3. CASE Challengeable
        <3> DEFINE n == Len(tasks) + 1
        <3>1. /\ DOMAIN tasks' = DOMAIN tasks \cup {n} /\ tasks'[n].poke = event /\ n \in Nat
              /\ \A t \in DOMAIN tasks : t < n /\ t \in Nat /\ tasks'[t].poke = tasks[t].poke
            <4>1. /\ DOMAIN tasks' = DOMAIN tasks \cup {n} /\ tasks'[n] = NewTask
                  /\ \A t \in DOMAIN tasks : tasks'[t] = CancelledTasks[t]
                BY <2>3, SpawnedFacts
            <4>2. \A t \in DOMAIN tasks : CancelledTasks[t].poke = tasks[t].poke
                BY CancelledTasksFacts
            <4>3. n \in Nat /\ \A t \in DOMAIN tasks : t < n /\ t \in Nat
                BY <1>9
            <4>4. NewTask.poke = event
                BY DEF NewTask
            <4> HIDE DEF n
            <4> QED
                BY <4>1, <4>2, <4>3, <4>4
        <3> HIDE DEF n
        <3>2. TasksInOrder'
            BY <2>1, <3>1 DEF TasksInOrder, WaitingIsLater
        <3>3. WaitingIsLater'
            BY <2>1, <3>1 DEF WaitingIsLater
        <3>4. QueueInOrder'
            BY <2>1 DEF QueueInOrder
        <3>5. SentBefore'
            BY <1>1, <2>1, <3>1 DEF SentBefore
        <3> QED
            BY <3>2, <3>3, <3>4, <3>5
    <2> QED
        BY <1>7, <2>2, <2>3, EndsFacts
<1>8. ASSUME NEW s \in DOMAIN tasks, DelayOver(s) \/ CancelTask(s)
      PROVE  TasksInOrder' /\ QueueInOrder' /\ WaitingIsLater' /\ SentBefore'
    <2>1. /\ UNCHANGED <<queue, event>> /\ DOMAIN tasks' = DOMAIN tasks
          /\ \A t \in DOMAIN tasks : tasks'[t].poke = tasks[t].poke
        BY <1>8, TaskStepFacts DEF TaskNext, DelayOver, CancelTask, taskVars, processorVars
    <2> QED
        BY <1>1, <2>1 DEF TasksInOrder, QueueInOrder, WaitingIsLater, SentBefore
<1> QED
    BY <1>2, <1>3, <1>4, <1>5, <1>6, <1>7, <1>8, Moves DEF Move

(***************************************************************************)
(* A poke is challenged at most once more for each poll that failed after  *)
(* it had handed something over, and, without such a failure, never after  *)
(* a later poke of the contract.                                           *)
(***************************************************************************)
THEOREM RepeatsNeedRewinds == System => []RepeatNeedsRewind
<1>1. SystemInit => FeedInv /\ OrderInv
    BY DEF SystemInit, Init, FeedInv, OrderInv, InOrder, TasksInOrder, QueueInOrder,
       WaitingIsLater, SentBefore, SentArePassed
<1>2. TypeOK /\ WorldOK /\ CopiesArePaid /\ OrderInv => RepeatNeedsRewind
    BY BegunIsPaid DEF OrderInv, InOrder, TasksInOrder, RepeatNeedsRewind
<1> QED
    BY <1>1, <1>2, CopiesInit, CopiesStep, OrderStep, FeedInvStep, ChainCorrect, ProcessorTyped,
       RestCorrect, PTL DEF System

-----------------------------------------------------------------------------
(***************************************************************************)
(* As long as no poll failed half-way, whatever may still lead to the      *)
(* challenge of a poke that a success was sent after has this success, or  *)
(* another, behind it in the channel.                                      *)
(***************************************************************************)
SuccessBehind(i) == \E j \in DOMAIN queue : j > i /\ queue[j] = None

MayStillBegin(p) ==
    \E t \in DOMAIN tasks : tasks[t].poke = p /\ tasks[t].phase = "delay" /\ ~IsCancelled(t)

StoppedAhead(s) ==
    /\ \A i \in DOMAIN queue : queue[i] # None /\ queue[i] < s => SuccessBehind(i)
    /\ event # None /\ event < s => SuccessBehind(0)
    /\ \A p \in Pokes : p < s /\ MayStillBegin(p) => SuccessBehind(0)

FinalInv ==
    rewinds = 0 => \A s \in sent : chain[s].kind = "challenged" => StoppedAhead(s)

NothingSpawned == pc = "starting" => DOMAIN tasks = {}

LEMMA NothingSpawnedStep ==
    ASSUME TypeOK, NothingSpawned, [Next]_vars
    PROVE  NothingSpawned'
<1>1. CASE UNCHANGED vars
    BY <1>1 DEF vars, processorVars, NothingSpawned
<1>2. CASE \E t \in DOMAIN tasks : TaskNext(t)
    BY <1>2 DEF TaskNext, DelayOver, ChallengeReturns, CancelTask, taskVars, processorVars,
       NothingSpawned
<1>3. CASE ~\E t \in DOMAIN tasks : TaskNext(t)
    BY <1>3 DEF Next, RefreshChallengePeriod, RefreshFails, StopOnCancel, ReceiveNone, vars,
       ReceiveChallenged, ReceivePoke, Challengeable, NotChallengeable, Deliver, CloseSender,
       Cancel, processorVars, NothingSpawned
<1> QED
    BY <1>1, <1>2, <1>3

LEMMA CancelledStays ==
    ASSUME [Next]_vars, cancelled
    PROVE  cancelled'
<1>1. CASE UNCHANGED vars
    BY <1>1 DEF vars
<1>2. CASE Next
    BY <1>2 DEF Next, RefreshChallengePeriod, RefreshFails, StopOnCancel, ReceiveNone, vars,
       ReceiveChallenged, ReceivePoke, Challengeable, NotChallengeable, TaskNext, DelayOver,
       ChallengeReturns, CancelTask, taskVars, Deliver, CloseSender, Cancel
<1> QED
    BY <1>1, <1>2

\* A challenge that may begin after a step might before it, or its poke was just judged.
LEMMA MayBeginMove ==
    ASSUME ChainOK, TypeOK, OnlyCurrentTaskLive, NothingSpawned, [SystemNext]_systemVars,
           NEW p \in Pokes, MayStillBegin(p)'
    PROVE  /\ ~ReceiveChallenged /\ ~RefreshFails /\ ~StopOnCancel
           /\ MayStillBegin(p) \/ (event = p /\ \E verdict \in Verdicts : Ends(verdict))
<1>1. PICK t \in DOMAIN tasks' : /\ tasks'[t].poke = p /\ tasks'[t].phase = "delay"
                                 /\ ~tasks'[t].cancelled /\ ~cancelled'
    BY DEF MayStillBegin, IsCancelled
<1>2. ~cancelled
    BY <1>1, IsProcessorStep, CancelledStays
<1>3. ASSUME t \in DOMAIN tasks, tasks[t].poke = p, tasks[t].phase = "delay",
             ~tasks[t].cancelled
      PROVE  MayStillBegin(p)
    BY <1>2, <1>3 DEF MayStillBegin, IsCancelled
<1>4. ~ReceiveChallenged
    <2> SUFFICES ASSUME ReceiveChallenged PROVE FALSE
        OBVIOUS
    <2>1. tasks' = CancelledTasks /\ DOMAIN CancelledTasks = DOMAIN tasks
        BY CancelledTasksFacts DEF TypeOK, ReceiveChallenged
    <2>2. t \in DOMAIN tasks /\ tasks[t].phase = "delay" /\ ~tasks[t].cancelled /\ t # token
        BY <1>1, <2>1, CancelledTasksFacts
    <2> QED
        BY <1>2, <2>2 DEF OnlyCurrentTaskLive, Live, IsCancelled
<1>5. ~RefreshFails
    BY <1>1 DEF RefreshFails, NothingSpawned
<1>6. ~StopOnCancel
    BY <1>2 DEF StopOnCancel
<1>7. CASE tasks' = tasks
    BY <1>1, <1>3, <1>4, <1>5, <1>6, <1>7
<1>8. ASSUME NEW verdict \in Verdicts, Ends(verdict), tasks' # tasks
      PROVE  MayStillBegin(p) \/ event = p
    <2>1. Challengeable
        BY <1>8, EndsFacts
    <2>2. CASE t \in DOMAIN tasks
        <3>1. /\ tasks[t].poke = p /\ tasks[t].phase = "delay"
              /\ tasks[t].cancelled => tasks'[t].cancelled
            BY <1>1, <2>1, <2>2, SpawnedFacts, CancelledTasksFacts
        <3> QED
            BY <1>1, <1>3, <2>2, <3>1
    <2>3. CASE t = Len(tasks) + 1
        BY <1>1, <2>1, <2>3, SpawnedFacts DEF NewTask
    <2> QED
        BY <2>1, <2>2, <2>3, SpawnedFacts
<1>9. ASSUME NEW s \in DOMAIN tasks, DelayOver(s) \/ CancelTask(s)
      PROVE  MayStillBegin(p)
    <2>1. /\ t \in DOMAIN tasks /\ tasks[t].poke = p /\ ~tasks[t].cancelled
          /\ t # s => tasks'[t] = tasks[t]
        BY <1>1, <1>9, TaskStepFacts DEF TaskNext
    <2>2. t # s
        <3>1. tasks \in Seq(TaskRecord) /\ tasks[s] \in TaskRecord
            BY DEF TypeOK
        <3>2. tasks'[s].phase # "delay"
            BY <1>9, <3>1 DEF DelayOver, CancelTask, TaskRecord
        <3> QED
            BY <1>1, <3>2
    <2> QED
        BY <1>1, <1>3, <2>1, <2>2
<1> QED
    BY <1>4, <1>5, <1>6, <1>7, <1>8, <1>9, Moves DEF Move, SendLog, Deliver, ReceivePoke

LEMMA FinalStep ==
    ASSUME ChainOK, TypeOK, WorldOK, FeedInv, OrderInv, OnlyCurrentTaskLive, NothingSpawned,
           FinalInv, [SystemNext]_systemVars
    PROVE  FinalInv'
<1> SUFFICES ASSUME rewinds' = 0, NEW s \in sent', chain'[s].kind = "challenged"
             PROVE  StoppedAhead(s)'
    BY DEF FinalInv
<1>0. /\ rewinds = 0 /\ SentArePassed /\ queue \in Seq(Pokes \cup {None})
      /\ Pokes \subseteq Nat
    BY RewindsStep DEF PollFails, OrderInv, InOrder, TypeOK
<1>1. s \in DOMAIN chain /\ chain'[s] = chain[s]
    <2>1. s \in DOMAIN chain
        BY SentCases DEF ChainOK
    <2> QED
        BY <2>1, PokesStay
<1>2. ASSUME NEW q \in DOMAIN chain, SendLog(q) PROVE StoppedAhead(s)'
    <2>1. queue' = Append(queue, TryFrom(q)) /\ UNCHANGED <<event, tasks, cancelled>>
        BY <1>2 DEF SendLog, Deliver, processorVars
    <2>2. TryFrom(q) \in Pokes \cup {None} /\ s \in sent \cup {q}
        BY <1>2, SentWasNotPassed, ChainFacts DEF TryFrom
    <2> DEFINE n == Len(queue) + 1
    <2>3. /\ DOMAIN queue' = DOMAIN queue \cup {n} /\ queue'[n] = TryFrom(q) /\ n \in Nat
          /\ n > 0
          /\ \A i \in DOMAIN queue : queue'[i] = queue[i] /\ i < n /\ i \in Nat
        BY <1>0, <2>1, <2>2, AppendProperties
    <2> HIDE DEF n
    <2>4. CASE chain[q].kind = "challenged"
        <3>1. queue'[n] = None
            BY <2>3, <2>4 DEF TryFrom
        <3>2. /\ \A i \in DOMAIN queue' : queue'[i] # None => SuccessBehind(i)'
              /\ SuccessBehind(0)'
            BY <2>3, <3>1 DEF SuccessBehind
        <3> QED
            BY <3>2 DEF StoppedAhead
    <2>5. CASE chain[q].kind # "challenged"
        <3>1. queue'[n] = q /\ s \in sent /\ StoppedAhead(s)
            BY <1>0, <1>1, <2>2, <2>3, <2>5 DEF TryFrom, FinalInv
        <3>2. ~(q < s)
            <4>1. s < q
                BY <1>0, <1>2, <3>1, SentIsLater
            <4> QED
                BY <1>1, <4>1, ChainFacts
        <3>3. \A i \in Nat : SuccessBehind(i) => SuccessBehind(i)'
            BY <2>3 DEF SuccessBehind
        <3>4. \A p \in Pokes : MayStillBegin(p)' => MayStillBegin(p)
            BY <2>1 DEF MayStillBegin, IsCancelled
        <3> QED
            BY <2>1, <2>3, <3>1, <3>2, <3>3, <3>4 DEF StoppedAhead
    <2> QED
        BY <2>4, <2>5
<1>3. CASE sent' = sent /\ ~\E q \in DOMAIN chain : SendLog(q)
    <2>0. StoppedAhead(s)
        BY <1>0, <1>1, <1>3 DEF FinalInv
    <2>1. CASE UNCHANGED <<queue, event>>
        <3>1. ASSUME NEW p \in Pokes, p < s, MayStillBegin(p)' PROVE SuccessBehind(0)
            <4>1. MayStillBegin(p) \/ event = p
                BY <3>1, MayBeginMove
            <4> QED
                BY <2>0, <3>1, <4>1 DEF StoppedAhead, TypeOK
        <3> QED
            BY <2>0, <2>1, <3>1 DEF StoppedAhead, SuccessBehind
    <2>2. CASE ReceivePoke \/ ReceiveChallenged
        <3>1. queue # <<>> /\ queue' = Tail(queue) /\ 1 \in DOMAIN queue
            BY <1>0, <2>2 DEF ReceivePoke, ReceiveChallenged
        <3>2. \A i \in DOMAIN queue' : /\ i \in Nat /\ i + 1 \in DOMAIN queue
                                       /\ queue'[i] = queue[i + 1]
            BY <1>0, <3>1
        <3>3. \A j \in DOMAIN queue : /\ j \in Nat /\ j >= 1
                                      /\ j > 1 => /\ j - 1 \in DOMAIN queue' /\ j - 1 >= 1
                                                  /\ queue'[j - 1] = queue[j]
            BY <1>0, <3>1
        <3>4. \A i \in Nat : SuccessBehind(i + 1) => SuccessBehind(i)'
            BY <3>3 DEF SuccessBehind
        <3>5. \A i \in DOMAIN queue' : queue'[i] # None /\ queue'[i] < s => SuccessBehind(i)'
            BY <2>0, <3>2, <3>4 DEF StoppedAhead
        <3>6. CASE ReceivePoke
            <4>1. event' = queue[1] /\ queue[1] # None /\ tasks' = tasks /\ cancelled' = cancelled
                BY <1>0, <3>6 DEF ReceivePoke
            <4>2. SuccessBehind(0) => SuccessBehind(1)
                BY <3>3, <4>1 DEF SuccessBehind
            <4>3. event' < s => SuccessBehind(0)'
                BY <2>0, <3>1, <3>4, <4>1 DEF StoppedAhead
            <4>4. \A p \in Pokes : p < s /\ MayStillBegin(p)' => SuccessBehind(0)'
                <5>1. \A p \in Pokes : MayStillBegin(p)' => MayStillBegin(p)
                    BY <4>1 DEF MayStillBegin, IsCancelled
                <5> QED
                    BY <2>0, <3>4, <4>2, <5>1 DEF StoppedAhead
            <4> QED
                BY <3>5, <4>3, <4>4 DEF StoppedAhead
        <3>7. CASE ReceiveChallenged
            <4>1. event' = None
                BY <3>7 DEF ReceiveChallenged, TypeOK
            <4>2. \A p \in Pokes : ~MayStillBegin(p)'
                BY <3>7, MayBeginMove
            <4> QED
                BY <3>5, <4>1, <4>2 DEF StoppedAhead
        <3> QED
            BY <2>2, <3>6, <3>7
    <2>3. CASE RefreshFails \/ StopOnCancel
        <3>1. queue' = <<>> /\ event' = None
            BY <2>3 DEF RefreshFails, StopOnCancel, TypeOK
        <3>2. \A p \in Pokes : ~MayStillBegin(p)'
            BY <2>3, MayBeginMove
        <3> QED
            BY <3>1, <3>2 DEF StoppedAhead
    <2>4. ASSUME NEW verdict \in Verdicts, Ends(verdict) PROVE StoppedAhead(s)'
        <3>1. queue' = queue /\ event' = None /\ event # None
            BY <2>4, EndsFacts DEF TypeOK
        <3>2. ASSUME NEW p \in Pokes, p < s, MayStillBegin(p)' PROVE SuccessBehind(0)
            BY <2>0, <3>1, <3>2, MayBeginMove DEF StoppedAhead
        <3> QED
            BY <2>0, <3>1, <3>2 DEF StoppedAhead, SuccessBehind
    <2>5. ASSUME NEW t \in DOMAIN tasks, DelayOver(t) \/ CancelTask(t) PROVE StoppedAhead(s)'
        BY <2>1, <2>5 DEF DelayOver, CancelTask, taskVars, processorVars
    <2> QED
        BY <1>3, <2>1, <2>2, <2>3, <2>4, <2>5, Moves DEF Move
<1> QED
    BY <1>2, <1>3, SentCases, SentWasNotPassed

(***************************************************************************)
(* Without a poll that failed half-way, no challenge of a poke begins      *)
(* after the processor has taken a later success of the contract from its  *)
(* channel: whatever delays, checks and cancellations there were.          *)
(***************************************************************************)
THEOREM SuccessesAreFinal == System => SuccessIsFinal
<1>1. SystemInit => FeedInv /\ OrderInv /\ NothingSpawned /\ FinalInv
    BY DEF SystemInit, Init, FeedInv, OrderInv, InOrder, TasksInOrder, QueueInOrder,
       WaitingIsLater, SentBefore, SentArePassed, NothingSpawned, FinalInv
<1> DEFINE Final == \A p \in Pokes : begun'[p] > begun[p] /\ rewinds = 0 => ~TakenSuccessAfter(p)
<1>2. ASSUME TypeOK, ChainOK, FinalInv, [SystemNext]_systemVars
      PROVE  [Final]_systemVars
    <2> SUFFICES ASSUME NEW p \in Pokes, begun'[p] > begun[p], rewinds = 0,
                        TakenSuccessAfter(p)
                 PROVE  FALSE
        OBVIOUS
    <2>1. begun'[p] # begun[p]
        BY <1>2 DEF TypeOK
    <2>2. PICK t \in DOMAIN tasks : DelayOver(t)
        BY <1>2, <2>1, Moves, EndsFacts DEF Move, SendLog, Deliver, ReceivePoke, ReceiveChallenged,
           RefreshFails, StopOnCancel, CancelTask
    <2>3. tasks[t].poke = p /\ MayStillBegin(p)
        BY <1>2, <2>1, <2>2 DEF DelayOver, TypeOK, MayStillBegin
    <2>4. PICK s \in sent : s > p /\ chain[s].kind = "challenged"
        BY DEF TakenSuccessAfter
    <2>5. p < s
        BY <1>2, <2>4, ChainFacts DEF ChainOK
    <2>6. SuccessBehind(0)
        BY <1>2, <2>3, <2>4, <2>5 DEF FinalInv, StoppedAhead
    <2> QED
        BY <2>6 DEF TakenSuccessAfter, SuccessBehind
<1>3. System => []OnlyCurrentTaskLive
    BY KeepsProcessor, OneChallengeAtATime, PTL
<1> QED
    BY <1>1, <1>2, <1>3, IsProcessorStep, NothingSpawnedStep, OrderStep, FinalStep, FeedInvStep,
       ChainCorrect, ProcessorTyped, RestCorrect, PTL DEF System, SuccessIsFinal

=============================================================================
