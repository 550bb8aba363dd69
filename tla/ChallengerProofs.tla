-------------------------- MODULE ChallengerProofs --------------------------
(***************************************************************************)
(* Proofs about Challenger, for every number of logs and blocks, channel   *)
(* capacity, clock offset and challenge period.                            *)
(***************************************************************************)
EXTENDS Challenger, ProcessorProofs, SequenceTheorems

USE ChallengerAssumption, ProcessorAssumption

ChainOK ==
    /\ chain \in Seq(Log) /\ Len(chain) <= MaxLogs
    /\ head \in Nat /\ cursor \in Nat
    /\ handed \subseteq DOMAIN chain /\ sent \subseteq DOMAIN chain

LEMMA ChainFacts ==
    ASSUME ChainOK
    PROVE  /\ DOMAIN chain \subseteq Pokes /\ DOMAIN chain = 1 .. Len(chain)
           /\ None \notin DOMAIN chain
           /\ \A p \in DOMAIN chain : /\ p \in Nat /\ chain[p] \in Log
                                      /\ chain[p].block \in Nat /\ chain[p].kind \in Kinds
                                      /\ chain[p].address = Contract
<1>1. DOMAIN chain = 1 .. Len(chain) /\ Len(chain) \in Nat
    BY DEF ChainOK
<1>2. DOMAIN chain \subseteq Pokes
    BY <1>1 DEF ChainOK
<1>3. \A p \in DOMAIN chain : chain[p] \in Log
    BY DEF ChainOK
<1>4. \A p \in DOMAIN chain : /\ chain[p].block \in Nat /\ chain[p].kind \in Kinds
                              /\ chain[p].address = Contract
    BY <1>3 DEF Log
<1> QED
    BY <1>1, <1>2, <1>3, <1>4

-----------------------------------------------------------------------------
(***************************************************************************)
(* Every step is a step of Processor, or leaves it alone.                  *)
(***************************************************************************)
LEMMA IsProcessorStep ==
    ASSUME ChainOK, [SystemNext]_systemVars
    PROVE  [Next]_vars
<1>1. ASSUME NEW p \in DOMAIN chain, SendLog(p) PROVE Next
    <2>1. TryFrom(p) \in Pokes \cup {None}
        BY ChainFacts DEF TryFrom
    <2> QED
        BY <1>1, <2>1 DEF SendLog, Next
<1>2. ASSUME NEW verdict, EndCheck(verdict) PROVE Next
    BY <1>2 DEF EndCheck, Next
<1>3. CASE CheckNext
    BY <1>2, <1>3 DEF CheckNext, JudgeAge, MessageConstructed, JudgeSignature, CheckFails, WaitFor
<1>4. CASE ProcessorStep
    BY <1>4 DEF ProcessorStep, Next, TaskNext
<1>5. CASE CheckPoke
    BY <1>5 DEF CheckPoke, Next
<1>6. CASE FeedNext
    BY <1>1, <1>6 DEF FeedNext, SkipLog, PollFails, FinishPoll
<1>7. CASE SealBlock \/ OwnerChangesPeriod \/ UNCHANGED systemVars
           \/ \E k \in Kinds : MineLog(k)
    BY <1>7 DEF SealBlock, OwnerChangesPeriod, MineLog, systemVars
<1> QED
    BY <1>3, <1>4, <1>5, <1>6, <1>7 DEF SystemNext

(***************************************************************************)
(* Every step is a step of LogFeed, or leaves it alone.                    *)
(***************************************************************************)
LEMMA IsFeedStep ==
    ASSUME ChainOK, [SystemNext]_systemVars
    PROVE  [Feed!Next]_(Feed!vars)
<1>1. ASSUME UNCHANGED <<chain, head, cursor, handed, sent>>,
             UNCHANGED pc \/ (pc \notin Ended /\ pc' \notin Ended)
      PROVE  UNCHANGED Feed!vars
    BY <1>1 DEF Feed!vars
<1>2. ASSUME NEW verdict, EndCheck(verdict) PROVE UNCHANGED Feed!vars
    <2>1. pc \notin Ended /\ pc' \notin Ended /\ UNCHANGED <<chain, head, cursor, handed, sent>>
        BY <1>2 DEF EndCheck, Challengeable, NotChallengeable, feedVars, Ended
    <2> QED
        BY <1>1, <2>1
<1>3. CASE CheckNext
    <2>1. ASSUME NEW call, WaitFor(call) PROVE UNCHANGED Feed!vars
        BY <1>1, <2>1 DEF WaitFor, feedVars, vars, processorVars
    <2> QED
        BY <1>2, <1>3, <2>1 DEF CheckNext, JudgeAge, MessageConstructed, JudgeSignature, CheckFails
<1>4. CASE CheckPoke
    <2>1. pc \notin Ended /\ pc' \notin Ended /\ UNCHANGED <<chain, head, cursor, handed, sent>>
        BY <1>4 DEF CheckPoke, ReceivePoke, feedVars, Ended
    <2> QED
        BY <1>1, <2>1
<1>5. CASE ProcessorStep
    <2>0. UNCHANGED <<chain, head, cursor, handed, sent>>
        BY <1>5 DEF ProcessorStep, feedVars
    <2>1. CASE RefreshFails \/ StopOnCancel
        <3>1. pc' \in Ended
            BY <2>1 DEF RefreshFails, StopOnCancel, Ended
        <3>2. Feed!Close(Contract)
            BY <2>0, <3>1 DEF Feed!Close
        <3> QED
            BY <3>2 DEF Feed!Next
    <2>2. CASE RefreshChallengePeriod
        BY <1>1, <2>0, <2>2 DEF RefreshChallengePeriod, Ended
    <2>3. CASE ReceiveChallenged \/ Cancel \/ \E t \in DOMAIN tasks : DelayOver(t) \/ CancelTask(t)
        BY <1>1, <2>0, <2>3 DEF ReceiveChallenged, Cancel, DelayOver, CancelTask, taskVars, processorVars
    <2> QED
        BY <1>5, <2>1, <2>2, <2>3 DEF ProcessorStep
<1>6. CASE FeedNext
    <2>1. ASSUME NEW p \in DOMAIN chain, SendLog(p) \/ SkipLog(p) PROVE Feed!Next
        BY <2>1 DEF SendLog, SkipLog, Feed!Next
    <2>2. CASE PollFails
        BY <2>2 DEF PollFails, Feed!Next
    <2>3. CASE FinishPoll
        BY <2>3 DEF FinishPoll, Feed!Next
    <2> QED
        BY <1>6, <2>1, <2>2, <2>3 DEF FeedNext
<1>7. ASSUME NEW k \in Kinds, MineLog(k) PROVE Feed!Next
    BY <1>7 DEF MineLog, Feed!Next
<1>8. CASE SealBlock
    BY <1>8 DEF SealBlock, Feed!Next
<1>9. CASE OwnerChangesPeriod \/ UNCHANGED systemVars
    BY <1>1, <1>9 DEF OwnerChangesPeriod, systemVars, feedVars, vars, processorVars
<1> QED
    BY <1>3, <1>4, <1>5, <1>6, <1>7, <1>8, <1>9 DEF SystemNext

-----------------------------------------------------------------------------
(***************************************************************************)
(* The chain only grows, and the steps but the feed's and the chain's own  *)
(* leave both alone.                                                       *)
(***************************************************************************)
OtherStep == CheckPoke \/ CheckNext \/ ProcessorStep \/ OwnerChangesPeriod \/ UNCHANGED systemVars

LEMMA OtherStepKeepsFeed ==
    ASSUME OtherStep
    PROVE  UNCHANGED <<chain, head, cursor, handed, sent, rewinds>>
<1>1. ASSUME NEW verdict, EndCheck(verdict) PROVE UNCHANGED feedVars
    BY <1>1 DEF EndCheck
<1> QED
    BY <1>1 DEF OtherStep, CheckPoke, CheckNext, JudgeAge, MessageConstructed, JudgeSignature,
       CheckFails, WaitFor, ProcessorStep, OwnerChangesPeriod, systemVars, feedVars

LEMMA FeedStepCases ==
    ASSUME [SystemNext]_systemVars
    PROVE  \/ OtherStep
           \/ \E p \in DOMAIN chain : SendLog(p) \/ SkipLog(p)
           \/ PollFails \/ FinishPoll \/ SealBlock
           \/ \E k \in Kinds : MineLog(k)
    BY DEF SystemNext, OtherStep, FeedNext

LEMMA MinedFacts ==
    ASSUME ChainOK, NEW k \in Kinds, MineLog(k)
    PROVE  /\ chain' \in Seq(Log) /\ Len(chain') = Len(chain) + 1 /\ Len(chain') <= MaxLogs
           /\ DOMAIN chain' = DOMAIN chain \cup {Len(chain) + 1}
           /\ \A p \in DOMAIN chain : chain'[p] = chain[p] /\ p < Len(chain) + 1
           /\ chain'[Len(chain) + 1].block = head + 1
           /\ UNCHANGED <<head, cursor, handed, sent, vars>>
<1> DEFINE new == [address |-> Contract, block |-> head + 1, kind |-> k]
<1>1. chain' = Append(chain, new) /\ UNCHANGED <<head, cursor, handed, sent, vars>>
    BY DEF MineLog, Feed!Mine
<1>2. new \in Log /\ new.block = head + 1
    BY DEF ChainOK, Log
<1>3. Len(chain) < MaxLogs /\ chain \in Seq(Log) /\ MaxLogs \in Nat
    BY DEF MineLog, ChainOK
<1> HIDE DEF new
<1> QED
    BY <1>1, <1>2, <1>3

LEMMA ChainStep ==
    ASSUME ChainOK, [SystemNext]_systemVars
    PROVE  ChainOK'
<1>1. CASE OtherStep
    BY <1>1, OtherStepKeepsFeed DEF ChainOK
<1>2. ASSUME NEW k \in Kinds, MineLog(k) PROVE ChainOK'
    BY <1>2, MinedFacts DEF ChainOK
<1>3. ASSUME NEW p \in DOMAIN chain, SendLog(p) \/ SkipLog(p) PROVE ChainOK'
    BY <1>3 DEF SendLog, SkipLog, Feed!Hand, Feed!Skip, ChainOK
<1>4. CASE PollFails \/ FinishPoll \/ SealBlock
    BY <1>4 DEF PollFails, FinishPoll, SealBlock, Feed!Rewind, Feed!Commit, Feed!Seal, ChainOK
<1> QED
    BY <1>1, <1>2, <1>3, <1>4, FeedStepCases

LEMMA ChainInit == SystemInit => ChainOK
    BY DEF SystemInit, ChainOK

\* The chain of the system is ordered, and the feed hands over sealed logs of it only.
THEOREM ChainCorrect == System => []ChainOK
    BY ChainInit, ChainStep, PTL DEF System

(***************************************************************************)
(* The system refines its processor: what is proved of Processor holds of  *)
(* it here, among logs, checks and a chain.                                *)
(***************************************************************************)
THEOREM KeepsProcessor == System => Spec
<1>1. SystemInit => Init
    BY DEF SystemInit
<1> QED
    BY <1>1, IsProcessorStep, ChainCorrect, PTL DEF System, Spec

(***************************************************************************)
(* With real checks of real pokes the processor keeps its promise: at most *)
(* one challenge wanted, replaced, withdrawn or used up, none after the    *)
(* shutdown; and every live challenge is the one that can be cancelled.    *)
(***************************************************************************)
THEOREM SystemKeepsIntent == System => KeepsIntent /\ []OnlyCurrentTaskLive
  BY KeepsProcessor, ImplementsIntent, OneChallengeAtATime

(***************************************************************************)
(* The system refines LogFeed, which the poller implements (KeepsFeed of   *)
(* Poller): the logs reach this processor as the poller hands them over.   *)
(***************************************************************************)
THEOREM KeepsLogFeed == System => Feed!Spec
<1>1. ASSUME SystemInit PROVE Feed!Init
    <2>1. pc \notin Ended
        BY <1>1 DEF SystemInit, Init, Ended
    <2>2. (pc \notin Ended) = TRUE
        BY <2>1
    <2>3. [a \in {Contract} |-> pc \notin Ended] = [a \in {Contract} |-> TRUE]
        BY <2>2
    <2> QED
        BY <1>1, <2>3 DEF SystemInit, Feed!Init
<1> QED
    BY <1>1, IsFeedStep, ChainCorrect, PTL DEF System, Feed!Spec

LEMMA ProcessorTyped == System => []TypeOK
    BY KeepsProcessor, TypeCorrect, PTL

-----------------------------------------------------------------------------
(***************************************************************************)
(* The check of a poke waits for its next call, or ends with a verdict.    *)
(***************************************************************************)
Verdicts == {"stale", "valid", "failed", "challengeable"}

Ends(verdict) ==
    /\ EndCheck(verdict)
    /\ verdict = "valid" => chain[event].kind = "valid"
    /\ verdict = "challengeable" => chain[event].kind # "valid"

LEMMA CheckCases ==
    ASSUME CheckNext
    PROVE  /\ check # None
           /\ \/ \E call \in {"message", "signature"} : WaitFor(call)
              \/ \E verdict \in Verdicts : Ends(verdict)
<1>1. check # None
    BY DEF CheckNext, JudgeAge, MessageConstructed, JudgeSignature, CheckFails
<1>2. CASE JudgeAge \/ MessageConstructed
    BY <1>2 DEF JudgeAge, MessageConstructed, Ends, Verdicts
<1>3. CASE CheckFails
    BY <1>3 DEF CheckFails, Ends, Verdicts
<1>4. CASE JudgeSignature
    <2>1. CASE chain[event].kind = "valid"
        BY <1>4, <2>1 DEF JudgeSignature, Ends, Verdicts
    <2>2. CASE chain[event].kind # "valid"
        BY <1>4, <2>2 DEF JudgeSignature, Ends, Verdicts
    <2> QED
        BY <2>1, <2>2
<1> QED
    BY <1>1, <1>2, <1>3, <1>4 DEF CheckNext

LEMMA EndsFacts ==
    ASSUME TypeOK, NEW verdict \in Verdicts, Ends(verdict)
    PROVE  /\ pc = "checking" /\ pc' = "select" /\ event \in Pokes /\ event' = None
           /\ check' = None /\ fate' = [fate EXCEPT ![event] = verdict]
           /\ UNCHANGED <<worldVars, queue, cancelled, begun>>
           /\ verdict = "challengeable" => Challengeable
           /\ verdict # "challengeable" => NotChallengeable /\ UNCHANGED tasks
    BY DEF Ends, EndCheck, Challengeable, NotChallengeable, TypeOK

(***************************************************************************)
(* The type invariant of the system.                                       *)
(***************************************************************************)
WorldOK ==
    /\ head \in 1 .. MaxHead
    /\ period \in Periods \cup {Period} /\ offset \in Offsets
    /\ rewinds \in 0 .. MaxRewinds

CheckOK ==
    /\ check \in {None, "age", "message", "signature"}
    /\ check # None <=> pc = "checking"
    /\ fate \in [Pokes -> {None, "stale", "valid", "failed", "challengeable"}]

LEMMA SystemTypeParts == SystemTypeOK <=> TypeOK /\ ChainOK /\ WorldOK /\ CheckOK
    BY DEF SystemTypeOK, ChainOK, WorldOK, CheckOK

LEMMA WorldStep ==
    ASSUME WorldOK, [SystemNext]_systemVars
    PROVE  WorldOK'
<1>1. CASE OtherStep
    <2>1. UNCHANGED <<head, rewinds>>
        BY <1>1, OtherStepKeepsFeed
    <2>2. CASE OwnerChangesPeriod
        BY <2>1, <2>2 DEF OwnerChangesPeriod, WorldOK
    <2>3. CASE CheckNext
        BY <2>1, <2>3 DEF CheckNext, JudgeAge, MessageConstructed, JudgeSignature, CheckFails,
           EndCheck, WaitFor, worldVars, WorldOK
    <2>4. CASE CheckPoke \/ ProcessorStep \/ UNCHANGED systemVars
        BY <2>1, <2>4 DEF CheckPoke, ProcessorStep, systemVars, worldVars, WorldOK
    <2> QED
        BY <1>1, <2>2, <2>3, <2>4 DEF OtherStep
<1>2. ASSUME NEW p \in DOMAIN chain, SendLog(p) \/ SkipLog(p) PROVE WorldOK'
    BY <1>2 DEF SendLog, SkipLog, Feed!Hand, Feed!Skip, worldVars, WorldOK
<1>3. CASE PollFails
    BY <1>3 DEF PollFails, Feed!Rewind, worldVars, WorldOK
<1>4. CASE FinishPoll
    BY <1>4 DEF FinishPoll, Feed!Commit, worldVars, WorldOK
<1>5. CASE SealBlock
    BY <1>5 DEF SealBlock, Feed!Seal, worldVars, WorldOK
<1>6. ASSUME NEW k \in Kinds, MineLog(k) PROVE WorldOK'
    BY <1>6 DEF MineLog, Feed!Mine, worldVars, WorldOK
<1> QED
    BY <1>1, <1>2, <1>3, <1>4, <1>5, <1>6, FeedStepCases

LEMMA CheckStep ==
    ASSUME CheckOK, TypeOK, [SystemNext]_systemVars
    PROVE  CheckOK'
<1>1. CASE UNCHANGED <<checkVars, pc>>
    BY <1>1 DEF checkVars, CheckOK
<1>2. CASE CheckPoke
    <2>1. check' = "age" /\ pc' = "checking" /\ fate' = fate
        BY <1>2 DEF CheckPoke, ReceivePoke
    <2> QED
        BY <2>1 DEF CheckOK
<1>3. CASE CheckNext
    <2>1. ASSUME NEW call \in {"message", "signature"}, WaitFor(call) PROVE CheckOK'
        <3>1. check' = call /\ pc' = pc /\ fate' = fate
            BY <2>1 DEF WaitFor, vars, processorVars
        <3> QED
            BY <1>3, <3>1, CheckCases DEF CheckOK
    <2>2. ASSUME NEW verdict \in Verdicts, Ends(verdict) PROVE CheckOK'
        BY <2>2, EndsFacts DEF CheckOK, Verdicts
    <2> QED
        BY <1>3, <2>1, <2>2, CheckCases
<1>4. CASE ProcessorStep
    <2>1. UNCHANGED checkVars
        BY <1>4 DEF ProcessorStep
    <2>2. (pc' # "checking" /\ pc # "checking") \/ pc' = pc
        BY <1>4 DEF ProcessorStep, RefreshChallengePeriod, RefreshFails, StopOnCancel,
           ReceiveChallenged, DelayOver, CancelTask, Cancel, taskVars, processorVars
    <2> QED
        BY <2>1, <2>2 DEF checkVars, CheckOK
<1>5. ASSUME NEW p \in DOMAIN chain, SendLog(p) \/ SkipLog(p) PROVE CheckOK'
    BY <1>1, <1>5 DEF SendLog, SkipLog, Deliver, vars, processorVars
<1>6. CASE PollFails \/ FinishPoll \/ SealBlock \/ OwnerChangesPeriod \/ UNCHANGED systemVars
    BY <1>1, <1>6 DEF PollFails, FinishPoll, SealBlock, OwnerChangesPeriod, systemVars,
       vars, processorVars
<1>7. ASSUME NEW k \in Kinds, MineLog(k) PROVE CheckOK'
    BY <1>1, <1>7 DEF MineLog, vars, processorVars
<1> QED
    BY <1>2, <1>3, <1>4, <1>5, <1>6, <1>7, FeedStepCases DEF OtherStep

LEMMA RestInit == SystemInit => WorldOK /\ CheckOK
    BY DEF SystemInit, Init, WorldOK, CheckOK

\* The verdicts, the checks under way and the clock have their types.
THEOREM RestCorrect == System => [](WorldOK /\ CheckOK)
    BY RestInit, WorldStep, CheckStep, ProcessorTyped, PTL DEF System

\* Type correctness of the whole: a check is under way exactly while the processor waits for one.
THEOREM SystemTypeCorrect == System => []SystemTypeOK
    BY RestCorrect, ProcessorTyped, ChainCorrect, SystemTypeParts, PTL

-----------------------------------------------------------------------------
(***************************************************************************)
(* On the way from its log to its challenge a poke is checked: what waits  *)
(* in the channel or is checked is an OpPoked of the chain, what a task    *)
(* was spawned for is one with a bad signature.                            *)
(***************************************************************************)
IsPoke(p) == p \in DOMAIN chain /\ chain[p].kind \in {"valid", "invalid"}
IsInvalid(p) == p \in DOMAIN chain /\ chain[p].kind = "invalid"

WaitingArePokes ==
    /\ \A i \in DOMAIN queue : queue[i] # None => IsPoke(queue[i])
    /\ event # None => IsPoke(event)

TasksAreJustified ==
    /\ \A t \in DOMAIN tasks : IsInvalid(tasks[t].poke)
    /\ \A p \in Pokes : begun[p] > 0 => IsInvalid(p)

LEMMA PokesStay ==
    ASSUME ChainOK, [SystemNext]_systemVars
    PROVE  \A p \in DOMAIN chain : p \in DOMAIN chain' /\ chain'[p] = chain[p]
<1>1. CASE chain' = chain
    BY <1>1
<1>2. ASSUME NEW k \in Kinds, MineLog(k)
      PROVE  \A p \in DOMAIN chain : p \in DOMAIN chain' /\ chain'[p] = chain[p]
    BY <1>2, MinedFacts
<1>3. CASE OtherStep
    BY <1>1, <1>3, OtherStepKeepsFeed
<1>4. CASE PollFails \/ FinishPoll \/ SealBlock \/ \E q \in DOMAIN chain : SendLog(q) \/ SkipLog(q)
    BY <1>1, <1>4 DEF PollFails, FinishPoll, SealBlock, SendLog, SkipLog, Feed!Rewind,
       Feed!Commit, Feed!Seal, Feed!Hand, Feed!Skip
<1> QED
    BY <1>2, <1>3, <1>4, FeedStepCases

\* What a step does to the channel and to the event at hand.
QueueMove ==
    \/ UNCHANGED <<queue, event>>
    \/ \E p \in DOMAIN chain : SendLog(p)
    \/ ReceivePoke \/ ReceiveChallenged
    \/ queue' = <<>> /\ pc' \in Ended /\ UNCHANGED event
    \/ \E verdict \in Verdicts : Ends(verdict)

LEMMA QueueMoves ==
    ASSUME [SystemNext]_systemVars
    PROVE  QueueMove
<1>1. CASE ProcessorStep
    BY <1>1 DEF ProcessorStep, RefreshChallengePeriod, RefreshFails, StopOnCancel,
       DelayOver, CancelTask, Cancel, taskVars, processorVars, Ended, QueueMove
<1>2. CASE CheckPoke
    BY <1>2 DEF CheckPoke, QueueMove
<1>3. CASE CheckNext
    BY <1>3, CheckCases DEF WaitFor, vars, processorVars, QueueMove
<1>4. CASE OwnerChangesPeriod \/ UNCHANGED systemVars \/ PollFails \/ FinishPoll \/ SealBlock
           \/ (\E k \in Kinds : MineLog(k)) \/ \E p \in DOMAIN chain : SkipLog(p)
    <2>1. UNCHANGED vars
        BY <1>4 DEF OwnerChangesPeriod, systemVars, PollFails, FinishPoll, SealBlock,
           MineLog, SkipLog
    <2> QED
        BY <2>1 DEF vars, processorVars, QueueMove
<1>5. CASE \E p \in DOMAIN chain : SendLog(p)
    BY <1>5 DEF QueueMove
<1> QED
    BY <1>1, <1>2, <1>3, <1>4, <1>5, FeedStepCases DEF OtherStep

\* What is sent from the chain is one of its pokes.
LEMMA SentArePokes ==
    ASSUME ChainOK, NEW p \in DOMAIN chain, SendLog(p)
    PROVE  /\ TryFrom(p) # None => TryFrom(p) = p /\ IsPoke(p)
           /\ queue' = Append(queue, TryFrom(p)) /\ event' = event
<1>1. chain[p].kind \in Kinds /\ chain[p].kind # "malformed"
    BY ChainFacts DEF SendLog, Feed!Hand, Feed!Wanted
<1> QED
    BY <1>1 DEF SendLog, Deliver, processorVars, TryFrom, IsPoke

LEMMA WaitingStep ==
    ASSUME ChainOK, TypeOK, WaitingArePokes, [SystemNext]_systemVars
    PROVE  WaitingArePokes'
<1>0. queue \in Seq(Pokes \cup {None})
    BY DEF TypeOK
<1>1. SUFFICES /\ \A i \in DOMAIN queue' : queue'[i] # None => IsPoke(queue'[i])
               /\ event' # None => IsPoke(event')
    BY <1>1, PokesStay DEF WaitingArePokes, IsPoke
<1>2. CASE UNCHANGED <<queue, event>>
    BY <1>2 DEF WaitingArePokes
<1>3. ASSUME NEW p \in DOMAIN chain, SendLog(p)
      PROVE  /\ \A i \in DOMAIN queue' : queue'[i] # None => IsPoke(queue'[i])
             /\ event' # None => IsPoke(event')
    <2>1. ASSUME NEW i \in DOMAIN queue'
          PROVE  (i \in DOMAIN queue /\ queue'[i] = queue[i]) \/ queue'[i] = TryFrom(p)
        BY <1>0, <1>3, <2>1, SentArePokes
    <2> QED
        BY <1>3, <2>1, SentArePokes DEF WaitingArePokes
<1>4. CASE ReceivePoke \/ ReceiveChallenged
    <2>1. queue # <<>> /\ queue' = Tail(queue)
        BY <1>4 DEF ReceivePoke, ReceiveChallenged
    <2>2. ASSUME NEW i \in DOMAIN queue' PROVE i + 1 \in DOMAIN queue /\ queue'[i] = queue[i + 1]
        BY <1>0, <2>1
    <2>3. event' = event \/ (event' = queue[1] /\ 1 \in DOMAIN queue)
        BY <1>0, <1>4, <2>1 DEF ReceivePoke, ReceiveChallenged
    <2> QED
        BY <2>2, <2>3 DEF WaitingArePokes
<1>5. CASE queue' = <<>> /\ UNCHANGED event
    BY <1>5 DEF WaitingArePokes
<1>6. ASSUME NEW verdict \in Verdicts, Ends(verdict)
      PROVE  /\ \A i \in DOMAIN queue' : queue'[i] # None => IsPoke(queue'[i])
             /\ event' # None => IsPoke(event')
    BY <1>6, EndsFacts DEF WaitingArePokes
<1> QED
    BY <1>2, <1>3, <1>4, <1>5, <1>6, QueueMoves DEF QueueMove

\* What a step does to the tasks.
TaskMove ==
    \/ UNCHANGED <<tasks, begun>>
    \/ tasks' = CancelledTasks /\ ReceiveChallenged
    \/ Ends("challengeable")
    \/ \E t \in DOMAIN tasks : DelayOver(t) \/ CancelTask(t)

LEMMA TaskMoves ==
    ASSUME [SystemNext]_systemVars, TypeOK
    PROVE  TaskMove
<1>1. CASE ProcessorStep
    BY <1>1 DEF ProcessorStep, RefreshChallengePeriod, RefreshFails, StopOnCancel,
       ReceiveChallenged, Cancel, TaskMove
<1>2. CASE CheckPoke
    BY <1>2 DEF CheckPoke, ReceivePoke, TaskMove
<1>3. CASE CheckNext
    <2>1. ASSUME NEW verdict \in Verdicts, Ends(verdict) PROVE TaskMove
        BY <2>1, EndsFacts DEF TaskMove
    <2> QED
        BY <1>3, <2>1, CheckCases DEF WaitFor, vars, TaskMove
<1>4. CASE OwnerChangesPeriod \/ UNCHANGED systemVars \/ PollFails \/ FinishPoll \/ SealBlock
           \/ (\E k \in Kinds : MineLog(k)) \/ \E p \in DOMAIN chain : SkipLog(p)
    <2>1. UNCHANGED vars
        BY <1>4 DEF OwnerChangesPeriod, systemVars, PollFails, FinishPoll, SealBlock,
           MineLog, SkipLog
    <2> QED
        BY <2>1 DEF vars, TaskMove
<1>5. CASE \E p \in DOMAIN chain : SendLog(p)
    BY <1>5 DEF SendLog, Deliver, TaskMove
<1> QED
    BY <1>1, <1>2, <1>3, <1>4, <1>5, FeedStepCases DEF OtherStep

LEMMA TasksStep ==
    ASSUME ChainOK, TypeOK, WaitingArePokes, TasksAreJustified, [SystemNext]_systemVars
    PROVE  TasksAreJustified'
<1>0. tasks \in Seq(TaskRecord) /\ begun \in [Pokes -> Nat]
    BY DEF TypeOK
<1>1. SUFFICES /\ \A t \in DOMAIN tasks' : IsInvalid(tasks'[t].poke)
               /\ \A p \in Pokes : begun'[p] > 0 => IsInvalid(p)
    BY <1>1, PokesStay DEF TasksAreJustified, IsInvalid
<1>2. CASE UNCHANGED <<tasks, begun>>
    BY <1>2 DEF TasksAreJustified
<1>3. CASE tasks' = CancelledTasks /\ ReceiveChallenged
    <2>1. begun' = begun /\ DOMAIN tasks' = DOMAIN tasks
        BY <1>0, <1>3, CancelledTasksFacts DEF ReceiveChallenged
    <2> QED
        BY <1>3, <2>1, CancelledTasksFacts DEF TasksAreJustified
<1>4. CASE Ends("challengeable")
    <2>1. Challengeable /\ begun' = begun /\ event \in Pokes /\ chain[event].kind # "valid"
        BY <1>4, EndsFacts DEF Verdicts, Ends
    <2>2. IsInvalid(event)
        BY <2>1 DEF WaitingArePokes, IsPoke, IsInvalid
    <2>3. ASSUME NEW t \in DOMAIN tasks' PROVE IsInvalid(tasks'[t].poke)
        <3>1. CASE t \in DOMAIN tasks
            BY <2>1, <3>1, SpawnedFacts, CancelledTasksFacts DEF TasksAreJustified
        <3>2. CASE t = Len(tasks) + 1
            BY <2>1, <2>2, <3>2, SpawnedFacts DEF NewTask
        <3> QED
            BY <2>1, <3>1, <3>2, SpawnedFacts
    <2> QED
        BY <2>1, <2>3 DEF TasksAreJustified
<1>5. ASSUME NEW s \in DOMAIN tasks, DelayOver(s) \/ CancelTask(s)
      PROVE  /\ \A t \in DOMAIN tasks' : IsInvalid(tasks'[t].poke)
             /\ \A p \in Pokes : begun'[p] > 0 => IsInvalid(p)
    <2>1. \A t \in DOMAIN tasks' : IsInvalid(tasks'[t].poke)
        BY <1>5, TaskStepFacts DEF TaskNext, TasksAreJustified
    <2>2. begun' = begun \/ begun' = [begun EXCEPT ![tasks[s].poke] = @ + 1]
        BY <1>5 DEF DelayOver, CancelTask
    <2>3. IsInvalid(tasks[s].poke)
        BY DEF TasksAreJustified
    <2>4. ASSUME NEW p \in Pokes, begun'[p] > 0 PROVE IsInvalid(p)
        <3>1. begun[p] > 0 \/ p = tasks[s].poke
            BY <1>0, <2>2, <2>4
        <3> QED
            BY <2>3, <3>1 DEF TasksAreJustified
    <2> QED
        BY <2>1, <2>4
<1> QED
    BY <1>2, <1>3, <1>4, <1>5, TaskMoves DEF TaskMove

\* Only a poke whose signature is bad is challenged, whatever was handed over again or failed.
THEOREM OnlyInvalidPokesChallenged == System => []ChallengesAreJustified
<1>1. SystemInit => WaitingArePokes /\ TasksAreJustified
    BY DEF SystemInit, Init, WaitingArePokes, TasksAreJustified
<1>2. TasksAreJustified => ChallengesAreJustified
    BY DEF TasksAreJustified, IsInvalid, ChallengesAreJustified
<1> QED
    BY <1>1, <1>2, WaitingStep, TasksStep, ChainCorrect, ProcessorTyped, PTL DEF System

-----------------------------------------------------------------------------
(***************************************************************************)
(* Where the feed is: the logs are mined in the order of their blocks, and *)
(* a poll is done with the logs from the cursor up to some log.            *)
(***************************************************************************)
FeedInv ==
    /\ cursor <= head + 1
    /\ \A p \in DOMAIN chain :
          /\ chain[p].block <= head + 1
          /\ \A q \in DOMAIN chain : q < p => chain[q].block <= chain[p].block
    /\ \A p \in handed :
          /\ cursor <= chain[p].block
          /\ \A q \in DOMAIN chain : cursor <= chain[q].block /\ q < p => q \in handed

LEMMA FeedInvStep ==
    ASSUME ChainOK, FeedInv, [SystemNext]_systemVars
    PROVE  FeedInv'
<1>0. cursor \in Nat /\ head \in Nat
    BY DEF ChainOK
<1>1. CASE OtherStep
    BY <1>1, OtherStepKeepsFeed DEF FeedInv
<1>2. ASSUME NEW k \in Kinds, MineLog(k) PROVE FeedInv'
    <2> DEFINE n == Len(chain) + 1
    <2>1. /\ DOMAIN chain' = DOMAIN chain \cup {n} /\ chain'[n].block = head + 1
          /\ \A p \in DOMAIN chain : chain'[p] = chain[p] /\ p < n
          /\ UNCHANGED <<head, cursor, handed>>
        BY <1>2, MinedFacts
    <2>2. handed \subseteq DOMAIN chain /\ n \in Nat
        BY ChainFacts DEF ChainOK
    <2>3. ASSUME NEW p \in handed, NEW q \in DOMAIN chain', cursor <= chain'[q].block, q < p
          PROVE  q \in handed
        <3>1. p \in DOMAIN chain /\ p < n /\ p \in Nat
            BY <2>1, <2>2, ChainFacts
        <3>2. q # n
            BY <2>2, <2>3, <3>1
        <3>3. q \in DOMAIN chain /\ chain'[q] = chain[q]
            BY <2>1, <2>3, <3>2
        <3> QED
            BY <2>3, <3>3 DEF FeedInv
    <2>4. \A p \in handed : cursor <= chain'[p].block
        BY <2>1, <2>2 DEF FeedInv
    <2>5. ASSUME NEW p \in DOMAIN chain'
          PROVE  /\ chain'[p].block <= head + 1
                 /\ \A q \in DOMAIN chain' : q < p => chain'[q].block <= chain'[p].block
        <3>1. CASE p = n
            BY <1>0, <2>1, <3>1 DEF FeedInv
        <3>2. CASE p \in DOMAIN chain
            <4>1. p < n /\ p \in Nat /\ chain'[p] = chain[p]
                BY <2>1, <3>2, ChainFacts
            <4>2. \A q \in DOMAIN chain' : q < p => q # n
                BY <2>2, <4>1
            <4> QED
                BY <2>1, <3>2, <4>1, <4>2 DEF FeedInv
        <3> QED
            BY <2>1, <3>1, <3>2
    <2> QED
        BY <2>1, <2>3, <2>4, <2>5 DEF FeedInv
<1>3. ASSUME NEW p \in DOMAIN chain, SendLog(p) \/ SkipLog(p) PROVE FeedInv'
    <2>1. UNCHANGED <<chain, head, cursor>> /\ handed' = handed \cup {p}
        BY <1>3 DEF SendLog, SkipLog, Feed!Hand, Feed!Skip
    <2>2. /\ cursor <= chain[p].block
          /\ \A q \in DOMAIN chain : chain[q].address = chain[p].address
                                     /\ cursor <= chain[q].block /\ q < p => q \in handed
        BY <1>3 DEF SendLog, SkipLog, Feed!Hand, Feed!Skip, Feed!InTurn
    <2>3. \A q \in DOMAIN chain : cursor <= chain[q].block /\ q < p => q \in handed
        BY <2>2, ChainFacts
    <2> QED
        BY <2>1, <2>2, <2>3 DEF FeedInv
<1>4. CASE PollFails
    BY <1>4 DEF PollFails, Feed!Rewind, FeedInv
<1>5. CASE FinishPoll
    <2>1. PICK b \in (cursor + 1) .. head : Feed!Commit(b)
        BY <1>5 DEF FinishPoll
    <2>2. cursor' <= head + 1
        BY <1>0, <2>1 DEF Feed!Commit
    <2> QED
        BY <2>1, <2>2 DEF Feed!Commit, FeedInv
<1>6. CASE SealBlock
    BY <1>0, <1>6, ChainFacts DEF SealBlock, Feed!Seal, FeedInv
<1> QED
    BY <1>1, <1>2, <1>3, <1>4, <1>5, <1>6, FeedStepCases

\* The cursor and the poll in progress have passed log p.
Passed(p) == p \in handed \/ chain[p].block < cursor

LEMMA PassedStep ==
    ASSUME ChainOK, FeedInv, [SystemNext]_systemVars, NEW p \in DOMAIN chain'
    PROVE  /\ (p \in DOMAIN chain /\ chain'[p] = chain[p]) \/ (p \notin sent' /\ ~Passed(p)')
           /\ Passed(p)' => Passed(p) \/ SendLog(p) \/ SkipLog(p)
<1>0. cursor \in Nat /\ head \in Nat
    BY DEF ChainOK
<1>1. CASE OtherStep
    BY <1>1, OtherStepKeepsFeed DEF Passed
<1>2. ASSUME NEW k \in Kinds, MineLog(k)
      PROVE  /\ (p \in DOMAIN chain /\ chain'[p] = chain[p]) \/ (p \notin sent' /\ ~Passed(p)')
             /\ Passed(p)' => Passed(p) \/ SendLog(p) \/ SkipLog(p)
    <2>1. UNCHANGED <<head, cursor, handed, sent>>
        BY <1>2, MinedFacts
    <2>2. CASE p \in DOMAIN chain
        BY <1>2, <2>1, <2>2, MinedFacts DEF Passed
    <2>3. CASE p \notin DOMAIN chain
        <3>1. p \notin sent /\ p \notin handed
            BY <2>3 DEF ChainOK
        <3>2. chain'[p].block = head + 1
            BY <1>2, <2>3, MinedFacts
        <3> QED
            BY <1>0, <2>1, <3>1, <3>2 DEF Passed, FeedInv
    <2> QED
        BY <2>2, <2>3
<1>3. ASSUME NEW q \in DOMAIN chain, SendLog(q) \/ SkipLog(q)
      PROVE  /\ (p \in DOMAIN chain /\ chain'[p] = chain[p]) \/ (p \notin sent' /\ ~Passed(p)')
             /\ Passed(p)' => Passed(p) \/ SendLog(p) \/ SkipLog(p)
    <2>1. UNCHANGED <<chain, cursor>> /\ handed' = handed \cup {q}
        BY <1>3 DEF SendLog, SkipLog, Feed!Hand, Feed!Skip
    <2> QED
        BY <1>3, <2>1 DEF Passed
<1>4. CASE PollFails \/ SealBlock
    BY <1>4 DEF PollFails, SealBlock, Feed!Rewind, Feed!Seal, Passed
<1>5. CASE FinishPoll
    <2>1. PICK b \in (cursor + 1) .. head : Feed!Commit(b)
        BY <1>5 DEF FinishPoll
    <2>2. chain' = chain /\ cursor' = b + 1 /\ handed' = {} /\ b \in Nat
        BY <1>0, <2>1 DEF Feed!Commit
    <2>3. chain[p].block \in Nat
        BY <2>2, ChainFacts
    <2>4. Passed(p)' => chain[p].block <= b
        BY <2>2, <2>3 DEF Passed
    <2>5. chain[p].block <= b => p \in handed \/ chain[p].block < cursor
        BY <1>0, <2>1, <2>2, <2>3 DEF Feed!Commit
    <2> QED
        BY <2>2, <2>4, <2>5 DEF Passed
<1> QED
    BY <1>1, <1>2, <1>3, <1>4, <1>5, FeedStepCases

LEMMA WatchedBefore ==
    ASSUME ChainOK, [SystemNext]_systemVars, Watched'
    PROVE  Watched
<1>1. CASE UNCHANGED vars
    BY <1>1 DEF vars, processorVars, Watched
<1>2. CASE Next
    BY <1>2 DEF Next, RefreshChallengePeriod, RefreshFails, StopOnCancel, ReceiveNone, vars,
       ReceiveChallenged, ReceivePoke, Challengeable, NotChallengeable, TaskNext, DelayOver,
       ChallengeReturns, CancelTask, taskVars, Deliver, CloseSender, Cancel, processorVars,
       Ended, Watched
<1> QED
    BY <1>1, <1>2, IsProcessorStep

\* A log is sent, or none is.
LEMMA SentCases ==
    ASSUME [SystemNext]_systemVars
    PROVE  sent' = sent \/ \E q \in DOMAIN chain : SendLog(q) /\ sent' = sent \cup {q}
<1>1. CASE OtherStep
    BY <1>1, OtherStepKeepsFeed
<1>2. CASE \E q \in DOMAIN chain : SendLog(q)
    BY <1>2 DEF SendLog, Feed!Hand
<1>3. CASE PollFails \/ FinishPoll \/ SealBlock \/ (\E q \in DOMAIN chain : SkipLog(q))
           \/ \E k \in Kinds : MineLog(k)
    BY <1>3 DEF PollFails, FinishPoll, SealBlock, SkipLog, MineLog, Feed!Rewind, Feed!Commit,
       Feed!Seal, Feed!Skip, Feed!Mine
<1> QED
    BY <1>1, <1>2, <1>3, FeedStepCases

LEMMA SkippedFacts ==
    ASSUME ChainOK, Watched, NEW p \in DOMAIN chain, SkipLog(p)
    PROVE  chain[p].kind = "malformed"
<1>1. chain[p].address = Contract
    BY ChainFacts
<1> QED
    BY <1>1 DEF SkipLog, Feed!Skip, Feed!Wanted, Watched

(***************************************************************************)
(* Every event that was passed while the processor lives was sent.         *)
(***************************************************************************)
PassedAreSent ==
    Watched => \A p \in DOMAIN chain : chain[p].kind # "malformed" /\ Passed(p) => p \in sent

LEMMA PassedAreSentStep ==
    ASSUME ChainOK, FeedInv, PassedAreSent, [SystemNext]_systemVars
    PROVE  PassedAreSent'
<1> SUFFICES ASSUME Watched', NEW p \in DOMAIN chain', chain'[p].kind # "malformed", Passed(p)'
             PROVE  p \in sent'
    BY DEF PassedAreSent
<1>1. p \in DOMAIN chain /\ chain'[p] = chain[p] /\ (Passed(p) \/ SendLog(p) \/ SkipLog(p))
    BY PassedStep
<1>2. CASE Passed(p)
    BY <1>1, <1>2, WatchedBefore, SentCases DEF PassedAreSent
<1>3. CASE SendLog(p)
    BY <1>3 DEF SendLog, Feed!Hand
<1>4. CASE SkipLog(p)
    BY <1>1, <1>4, WatchedBefore, SkippedFacts
<1> QED
    BY <1>1, <1>2, <1>3, <1>4

(***************************************************************************)
(* The last event sent is the last in the channel, or is being checked     *)
(* with nothing behind it, or was answered with nothing after it.          *)
(***************************************************************************)
Answered(p) == Challenged(p) \/ fate[p] \in {"stale", "failed"}

Front(p) ==
    \/ queue # <<>> /\ queue[Len(queue)] = p
    \/ queue = <<>> /\ event = p
    \/ queue = <<>> /\ event = None /\ Answered(p)

LastIsFront ==
    Watched => \A p \in sent :
        chain[p].kind = "invalid" /\ Passed(p) /\ ~Overtaken(p) => Front(p)

LEMMA FateKept ==
    ASSUME TypeOK, event = None, [SystemNext]_systemVars
    PROVE  fate' = fate
<1>1. CASE OtherStep
    <2>1. CASE CheckNext
        BY <2>1, CheckCases, EndsFacts DEF WaitFor, TypeOK
    <2> QED
        BY <1>1, <2>1 DEF OtherStep, CheckPoke, ProcessorStep, OwnerChangesPeriod, systemVars,
           checkVars
<1>2. CASE ~OtherStep
    BY <1>2, FeedStepCases DEF PollFails, FinishPoll, SealBlock, SkipLog, SendLog, MineLog,
       checkVars
<1> QED
    BY <1>1, <1>2

LEMMA AnsweredKept ==
    ASSUME TypeOK, Watched', event = None, queue = <<>>, [SystemNext]_systemVars,
           NEW p \in Pokes, Answered(p)
    PROVE  Answered(p)'
<1>1. fate' = fate
    BY FateKept
<1>2. ~ReceiveChallenged /\ ~Ends("challengeable")
    <2>1. ~ReceiveChallenged
        BY DEF ReceiveChallenged
    <2> QED
        BY <2>1, EndsFacts DEF Verdicts, TypeOK
<1>3. CASE UNCHANGED <<tasks, begun>>
    BY <1>1, <1>3 DEF Answered, Challenged, IsCancelled, Watched
<1>4. ASSUME NEW s \in DOMAIN tasks, DelayOver(s) \/ CancelTask(s)
      PROVE  Answered(p)'
    <2>1. /\ DOMAIN tasks' = DOMAIN tasks /\ cancelled' = cancelled
          /\ \A t \in DOMAIN tasks : /\ tasks'[t].poke = tasks[t].poke
                                     /\ tasks'[t].cancelled = tasks[t].cancelled
                                     /\ t # s => tasks'[t] = tasks[t]
        BY <1>4, TaskStepFacts DEF TaskNext
    <2>2. tasks[s] \in TaskRecord /\ begun \in [Pokes -> Nat]
        BY DEF TypeOK
    <2>3. tasks[s].poke \in Pokes
        BY <2>2 DEF TaskRecord
    <2>4. CASE begun[p] > 0
        <3>1. begun' = begun \/ begun' = [begun EXCEPT ![tasks[s].poke] = @ + 1]
            BY <1>4 DEF DelayOver, CancelTask
        <3>2. begun[p] \in Nat /\ DOMAIN begun = Pokes
            BY <2>2
        <3>3. begun'[p] = begun[p] \/ begun'[p] = begun[p] + 1
            BY <3>1, <3>2
        <3>4. begun'[p] > 0
            BY <2>4, <3>2, <3>3
        <3> QED
            BY <3>4 DEF Answered, Challenged
    <2>5. ASSUME NEW t \in DOMAIN tasks, tasks[t].poke = p, tasks[t].phase = "delay",
                 ~IsCancelled(t)
          PROVE  Answered(p)'
        <3>1. CASE t # s
            BY <2>1, <2>5, <3>1 DEF Answered, Challenged, IsCancelled
        <3>2. CASE t = s
            <4>1. DelayOver(s)
                BY <1>4, <2>5, <3>2 DEF CancelTask
            <4>2. begun'[p] = begun[p] + 1 /\ begun[p] \in Nat
                BY <2>2, <2>3, <2>5, <3>2, <4>1 DEF DelayOver
            <4>3. begun'[p] > 0
                BY <4>2
            <4> QED
                BY <4>3 DEF Answered, Challenged
        <3> QED
            BY <3>1, <3>2
    <2>6. CASE fate[p] \in {"stale", "failed"}
        BY <1>1, <2>6 DEF Answered
    <2> QED
        BY <2>4, <2>5, <2>6 DEF Answered, Challenged
<1> QED
    BY <1>2, <1>3, <1>4, TaskMoves DEF TaskMove

LEMMA LastOfSequences ==
    ASSUME NEW S, NEW seq \in Seq(S)
    PROVE  /\ \A x \in S : /\ Append(seq, x) # <<>>
                           /\ Append(seq, x)[Len(Append(seq, x))] = x
           /\ Len(seq) > 1 => /\ Tail(seq) # <<>>
                              /\ Tail(seq)[Len(Tail(seq))] = seq[Len(seq)]
           /\ Len(seq) = 1 => Tail(seq) = <<>>
           /\ seq # <<>> => Len(seq) >= 1 /\ Len(seq) \in Nat
<1>1. ASSUME NEW x \in S
      PROVE  Append(seq, x) # <<>> /\ Append(seq, x)[Len(Append(seq, x))] = x
    BY AppendProperties
<1>2. ASSUME seq # <<>>
      PROVE  /\ Len(seq) >= 1 /\ Len(seq) \in Nat
             /\ Tail(seq) \in Seq(S) /\ Len(Tail(seq)) = Len(seq) - 1
             /\ \A i \in 1 .. Len(Tail(seq)) : Tail(seq)[i] = seq[i + 1]
    BY <1>2, EmptySeq, HeadTailProperties
<1>3. ASSUME Len(seq) > 1
      PROVE  Tail(seq) # <<>> /\ Tail(seq)[Len(Tail(seq))] = seq[Len(seq)]
    <2>1. seq # <<>>
        BY <1>3, EmptySeq
    <2> DEFINE n == Len(Tail(seq))
    <2>2. n \in 1 .. n /\ n # 0 /\ n + 1 = Len(seq)
        <3>1. Len(seq) \in Nat /\ n = Len(seq) - 1
            BY <1>2, <2>1
        <3> DEFINE m == Len(seq)
        <3>2. m \in Nat /\ m > 1 /\ n = m - 1
            BY <1>3, <3>1
        <3> HIDE DEF n, m
        <3>3. n \in 1 .. n /\ n # 0 /\ n + 1 = m
            BY <3>2
        <3> QED
            BY <3>3 DEF m
    <2>3. Tail(seq) # <<>>
        <3>1. Len(<<>>) = 0
            BY EmptySeq
        <3> QED
            BY <2>2, <3>1
    <2> QED
        BY <1>2, <2>1, <2>2, <2>3
<1>4. ASSUME Len(seq) = 1 PROVE Tail(seq) = <<>>
    <2>1. seq # <<>>
        BY <1>4, EmptySeq
    <2>2. Tail(seq) \in Seq(S) /\ Len(Tail(seq)) = 0
        BY <1>2, <1>4, <2>1
    <2> QED
        BY <2>2, EmptySeq
<1> QED
    BY <1>1, <1>2, <1>3, <1>4

LEMMA OneOrMore ==
    ASSUME NEW S, NEW seq \in Seq(S), seq # <<>>, Len(seq) # 1 PROVE Len(seq) > 1
<1> DEFINE n == Len(seq)
<1>1. n >= 1 /\ n \in Nat /\ n # 1
    BY LastOfSequences
<1> HIDE DEF n
<1>2. n > 1
    BY <1>1
<1> QED
    BY <1>2 DEF n

LEMMA FrontKept ==
    ASSUME TypeOK, CheckOK, Watched', [SystemNext]_systemVars, QueueMove,
           ~\E q \in DOMAIN chain : SendLog(q),
           NEW p \in Pokes, chain[p].kind = "invalid", Front(p)
    PROVE  Front(p)'
<1>0. queue \in Seq(Pokes \cup {None}) /\ p # None
    BY DEF TypeOK
<1>1. CASE queue # <<>> /\ queue[Len(queue)] = p
    <2>1. CASE queue' = queue
        BY <1>1, <2>1 DEF Front
    <2>2. CASE ReceiveChallenged
        <3>1. queue' = Tail(queue) /\ queue[1] = None
            BY <1>0, <1>1, <2>2 DEF ReceiveChallenged
        <3>2. Len(queue) > 1
            <4>1. Len(queue) # 1
                BY <1>0, <1>1, <3>1
            <4> QED
                BY <1>0, <1>1, <4>1, OneOrMore
        <3>3. queue' # <<>> /\ queue'[Len(queue')] = p
            BY <1>0, <1>1, <3>1, <3>2, LastOfSequences
        <3> QED
            BY <3>3 DEF Front
    <2>3. CASE ReceivePoke
        <3>1. queue' = Tail(queue) /\ event' = queue[1]
            BY <1>0, <1>1, <2>3 DEF ReceivePoke
        <3>2. CASE Len(queue) = 1
            <4>1. queue' = <<>> /\ event' = p
                BY <1>0, <1>1, <3>1, <3>2, LastOfSequences
            <4> QED
                BY <4>1 DEF Front
        <3>3. CASE Len(queue) # 1
            <4>1. Len(queue) > 1
                BY <1>0, <1>1, <3>3, OneOrMore
            <4>2. queue' # <<>> /\ queue'[Len(queue')] = p
                BY <1>0, <1>1, <3>1, <4>1, LastOfSequences
            <4> QED
                BY <4>2 DEF Front
        <3> QED
            BY <3>2, <3>3
    <2>4. CASE \E verdict \in Verdicts : Ends(verdict)
        BY <2>1, <2>4, EndsFacts
    <2> QED
        BY <2>1, <2>2, <2>3, <2>4 DEF QueueMove, Watched
<1>2. CASE queue = <<>> /\ event = p
    <2>1. ASSUME NEW verdict \in Verdicts, Ends(verdict) PROVE Answered(p)'
        <3>1. CASE verdict \in {"stale", "failed"}
            <4>1. fate'[p] = verdict
                BY <1>2, <2>1, EndsFacts DEF CheckOK
            <4> QED
                BY <3>1, <4>1 DEF Answered
        <3>2. CASE verdict = "challengeable"
            <4> DEFINE n == Len(tasks) + 1
            <4>1. n \in DOMAIN tasks' /\ tasks'[n] = NewTask
                BY <2>1, <3>2, EndsFacts, SpawnedFacts
            <4>2. tasks'[n].poke = p /\ tasks'[n].phase = "delay" /\ ~tasks'[n].cancelled
                BY <1>2, <4>1 DEF NewTask
            <4>3. ~cancelled'
                BY DEF Watched
            <4> HIDE DEF n
            <4>4. \E t \in DOMAIN tasks' : /\ tasks'[t].poke = p /\ tasks'[t].phase = "delay"
                                           /\ ~(tasks'[t].cancelled \/ cancelled')
                BY <4>1, <4>2, <4>3
            <4> QED
                BY <4>4 DEF Answered, Challenged, IsCancelled
        <3>3. verdict # "valid"
            BY <1>2, <2>1 DEF Ends
        <3> QED
            BY <3>1, <3>2, <3>3 DEF Verdicts
    <2>2. ASSUME NEW verdict \in Verdicts, Ends(verdict) PROVE Front(p)'
        BY <1>2, <2>1, <2>2, EndsFacts DEF Front
    <2>3. CASE UNCHANGED <<queue, event>>
        BY <1>2, <2>3 DEF Front
    <2>4. ~ReceivePoke /\ ~ReceiveChallenged
        BY <1>2 DEF ReceivePoke, ReceiveChallenged
    <2> QED
        BY <2>2, <2>3, <2>4 DEF QueueMove, Watched
<1>3. CASE queue = <<>> /\ event = None /\ Answered(p)
    <2>1. Answered(p)'
        BY <1>3, AnsweredKept
    <2>2. ~ReceivePoke /\ ~ReceiveChallenged
        BY <1>3 DEF ReceivePoke, ReceiveChallenged
    <2>3. \A verdict \in Verdicts : ~Ends(verdict)
        BY <1>3, EndsFacts DEF TypeOK
    <2>4. UNCHANGED <<queue, event>>
        BY <2>2, <2>3 DEF QueueMove, Watched
    <2> QED
        BY <1>3, <2>1, <2>4 DEF Front
<1> QED
    BY <1>1, <1>2, <1>3 DEF Front

LEMMA LastIsFrontStep ==
    ASSUME ChainOK, TypeOK, CheckOK, FeedInv, LastIsFront, [SystemNext]_systemVars
    PROVE  LastIsFront'
<1> SUFFICES ASSUME Watched', NEW p \in sent', chain'[p].kind = "invalid", Passed(p)',
                    ~Overtaken(p)'
             PROVE  Front(p)'
    BY DEF LastIsFront
<1>0. p \in DOMAIN chain'
    BY ChainStep DEF ChainOK
<1>1. /\ p \in DOMAIN chain /\ chain'[p] = chain[p] /\ p \in Nat /\ p \in Pokes
      /\ Passed(p) \/ SendLog(p) \/ SkipLog(p)
    BY <1>0, PassedStep, ChainFacts
<1>2. ASSUME NEW q \in DOMAIN chain, SendLog(q), sent' = sent \cup {q} PROVE Front(p)'
    <2>1. q \in Nat /\ ~(q > p)
        BY <1>2, ChainFacts DEF Overtaken
    <2>2. CASE q = p
        <3>1. queue' = Append(queue, p)
            BY <1>1, <1>2, <2>2, SentArePokes DEF TryFrom
        <3>2. queue \in Seq(Pokes \cup {None}) /\ p \in Pokes \cup {None}
            BY <1>1 DEF TypeOK
        <3>3. queue' # <<>> /\ queue'[Len(queue')] = p
            BY <3>1, <3>2, LastOfSequences
        <3> QED
            BY <3>3 DEF Front
    <2>3. CASE q < p
        <3>1. /\ handed' = handed \cup {q} /\ UNCHANGED <<chain, cursor>>
              /\ q \notin handed /\ cursor <= chain[q].block
            BY <1>2 DEF SendLog, Feed!Hand, Feed!InTurn
        <3>2. p \in handed \/ chain[p].block < cursor
            BY <2>1, <2>3, <3>1 DEF Passed
        <3>3. p \notin handed
            BY <2>3, <3>1 DEF FeedInv
        <3>4. chain[q].block <= chain[p].block
            BY <1>1, <2>3 DEF FeedInv
        <3>5. chain[q].block \in Nat /\ chain[p].block \in Nat /\ cursor \in Nat
            BY <1>1, ChainFacts DEF ChainOK
        <3> QED
            BY <3>1, <3>2, <3>3, <3>4, <3>5
    <2> QED
        BY <1>1, <2>1, <2>2, <2>3
<1>3. CASE sent' = sent /\ ~\E q \in DOMAIN chain : SendLog(q)
    <2>1. Watched
        BY WatchedBefore
    <2>2. ~SkipLog(p)
        BY <1>1, <2>1, SkippedFacts
    <2>3. Passed(p)
        BY <1>1, <1>3, <2>2
    <2>4. ~Overtaken(p)
        BY <1>3 DEF Overtaken
    <2>5. Front(p)
        BY <1>1, <1>3, <2>1, <2>3, <2>4 DEF LastIsFront
    <2> QED
        BY <1>1, <1>3, <2>5, FrontKept, QueueMoves
<1>4. \A q \in DOMAIN chain : SendLog(q) => sent' = sent \cup {q}
    BY DEF SendLog, Feed!Hand
<1> QED
    BY <1>2, <1>3, <1>4, SentCases

(***************************************************************************)
(* No poke is lost between the chain and its challenge: an invalid poke    *)
(* below the cursor that no later event overtook was sent, is the last one *)
(* sent, and so waits, is being checked, or was answered.                  *)
(***************************************************************************)
THEOREM NoPokeIsForgotten == System => []NoPokeForgotten
<1>1. SystemInit => FeedInv /\ PassedAreSent /\ LastIsFront
    BY DEF SystemInit, FeedInv, PassedAreSent, LastIsFront
<1>2. ASSUME ChainOK, TypeOK, PassedAreSent, LastIsFront PROVE NoPokeForgotten
    <2> SUFFICES ASSUME Watched, NEW p \in DOMAIN chain, chain[p].kind = "invalid",
                        chain[p].block < cursor, ~Overtaken(p)
                 PROVE  \/ OnItsWay(p) \/ Challenged(p) \/ fate[p] \in {"stale", "failed"}
        BY DEF NoPokeForgotten
    <2>1. p \in sent
        BY <1>2 DEF PassedAreSent, Passed
    <2>2. Front(p)
        BY <1>2, <2>1 DEF LastIsFront, Passed
    <2>3. queue # <<>> => Len(queue) \in DOMAIN queue
        BY <1>2 DEF TypeOK
    <2> QED
        BY <2>2, <2>3 DEF Front, OnItsWay, Answered
<1> QED
    BY <1>1, <1>2, FeedInvStep, PassedAreSentStep, LastIsFrontStep, ChainCorrect,
       ProcessorTyped, RestCorrect, PTL DEF System

-----------------------------------------------------------------------------
(***************************************************************************)
(* The age of a poke is judged right.                                      *)
(***************************************************************************)
PeriodKnown == pc \in {"select", "checking"} => challenge_period = Period

LEMMA PeriodKnownStep == PeriodKnown /\ [Next]_vars => PeriodKnown'
<1> SUFFICES ASSUME PeriodKnown, [Next]_vars PROVE PeriodKnown'
    OBVIOUS
<1>1. CASE UNCHANGED vars
    BY <1>1 DEF vars, processorVars, PeriodKnown
<1>2. CASE Next
    BY <1>2 DEF Next, RefreshChallengePeriod, RefreshFails, StopOnCancel, ReceiveNone, vars,
       ReceiveChallenged, ReceivePoke, Challengeable, NotChallengeable, TaskNext, DelayOver,
       ChallengeReturns, CancelTask, taskVars, Deliver, CloseSender, Cancel, processorVars,
       PeriodKnown
<1> QED
    BY <1>1, <1>2

LEMMA NoWrap ==
    ASSUME NEW x \in Nat, x < U64
    PROVE  x % U64 = x
    BY SMT

LEMMA AgeStep ==
    ASSUME ChainOK, TypeOK, WorldOK, CheckOK, WaitingArePokes, PeriodKnown, CheckNext,
           check = "age", check' # check, fate'[event] # "failed", period = Period
    PROVE  IF check' = None
           THEN Age(event) > period \/ offset > 0 \/ Age(event) + offset < 0
           ELSE Age(event) <= period \/ offset < 0
<1>1. pc = "checking" /\ challenge_period = Period /\ event \in Pokes /\ event # None
    BY DEF CheckOK, PeriodKnown, TypeOK
<1>2. JudgeAge
    <2>1. ~EndCheck("failed")
        BY <1>1 DEF EndCheck, CheckOK
    <2> QED
        BY <2>1 DEF CheckNext, MessageConstructed, JudgeSignature, CheckFails
<1> DEFINE b == chain[event].block
           x == head + offset - b
<1>3. b \in Nat /\ head \in Nat /\ head <= MaxHead /\ offset \in Int /\ offset \in Offsets
    BY <1>1, ChainFacts DEF WaitingArePokes, IsPoke, WorldOK
<1>4. x \in Int /\ x < U64 /\ MaxHead + offset < U64
    BY <1>3
<1>5. x >= 0 => x % U64 = x
    <2>1. x \in Int /\ x < U64
        BY <1>4
    <2> HIDE DEF x
    <2> QED
        BY <2>1, NoWrap
<1>6. CASE IsLogStale(event)
    <2>1. check' = None
        BY <1>2, <1>6 DEF JudgeAge, EndCheck
    <2>2. x % U64 > Period
        BY <1>1, <1>6 DEF IsLogStale
    <2>3. x >= 0 => x > Period
        BY <1>5, <2>2
    <2> QED
        BY <1>3, <2>1, <2>3 DEF Age
<1>7. CASE ~IsLogStale(event)
    <2>1. check' # None
        BY <1>2, <1>7 DEF JudgeAge, WaitFor
    <2>2. ~(x % U64 > Period)
        BY <1>1, <1>7 DEF IsLogStale
    <2>3. x >= 0 => x <= Period
        BY <1>4, <1>5, <2>2
    <2> QED
        BY <1>3, <2>1, <2>3 DEF Age
<1> QED
    BY <1>6, <1>7

LEMMA OnlyCheckNextJudges ==
    ASSUME TypeOK, CheckOK, [SystemNext]_systemVars, check = "age", check' # check
    PROVE  CheckNext
<1>1. ~CheckPoke
    BY DEF CheckOK, CheckPoke, ReceivePoke
<1> QED
    BY <1>1, FeedStepCases DEF OtherStep, ProcessorStep, OwnerChangesPeriod, systemVars,
       checkVars, PollFails, FinishPoll, SealBlock, SkipLog, SendLog, MineLog

\* However far the clock is off, and to either side, a poke is judged as AgeIsJudged says.
THEOREM AgesAreJudged == System => AgeIsJudged
<1>1. SystemInit => PeriodKnown /\ WaitingArePokes
    BY DEF SystemInit, Init, PeriodKnown, WaitingArePokes
<1> DEFINE Judged == check = "age" /\ check' # check /\ fate'[event] # "failed"
                     /\ period = Period
                     => IF check' = None
                        THEN Age(event) > period \/ offset > 0 \/ Age(event) + offset < 0
                        ELSE Age(event) <= period \/ offset < 0
<1>2. ASSUME ChainOK, TypeOK, WorldOK, CheckOK, WaitingArePokes, PeriodKnown,
             [SystemNext]_systemVars
      PROVE  [Judged]_systemVars
    BY <1>2, OnlyCheckNextJudges, AgeStep
<1> QED
    BY <1>1, <1>2, IsProcessorStep, PeriodKnownStep, WaitingStep, ChainCorrect, ProcessorTyped,
       RestCorrect, PTL DEF System, AgeIsJudged

=============================================================================
