-------------------------- MODULE SupervisorProofs --------------------------
(***************************************************************************)
(* Proofs about Supervisor, for every set of command lines and spellings.  *)
(***************************************************************************)
EXTENDS Supervisor, TLAPS

USE SupervisorAssumption

(***************************************************************************)
(* The inductive invariant, by the places main() can be at.                *)
(***************************************************************************)
Starting == main \in {"parse", "wallet", "providers", "addresses", "metrics"}

Running == main \in {"spawn", "collector", "select"}

NothingYet ==
    Starting => /\ set = {} /\ DOMAIN handler_channels = {} /\ poller = None
                /\ \A t \in Tasks : task[t] = "none"
                /\ \A s \in Spellings : ~challenging[s]

SetComplete ==
    /\ Running => \A t \in Tasks : t \in set <=> task[t] # "none"
    /\ main = "join" => cancelled /\ \A t \in Tasks : Active(t) => t \in set

\* Who has been spawned already.
Spawned ==
    /\ main = "spawn" => poller = None
    /\ main \in {"collector", "select"} => task[Poller] # "none" /\ poller = Built
    /\ main = "select" => task[Collector] # "none"

Channels ==
    \A a \in DOMAIN handler_channels :
        /\ handler_channels[a] \in given /\ AddressOf[handler_channels[a]] = a
        /\ task[handler_channels[a]] # "none"

AllGiven ==
    /\ main \in {"parse", "wallet", "providers", "addresses"} => cli.addresses = given
    /\ main = "metrics" => addresses = given
    /\ main = "spawn" =>
          \A s \in given : s \in addresses \/ AddressOf[s] \in DOMAIN handler_channels
    /\ main \in {"collector", "select"} =>
          \A s \in given : AddressOf[s] \in DOMAIN handler_channels

Aftermath ==
    main = "exited" =>
        \/ /\ \A t \in Tasks : ~Active(t)
           /\ exit = "ok" => cancelled
           /\ cancelled \/ \A s \in Spellings : ~challenging[s]
        \/ cancelled /\ exit # "ok" /\ \E t \in Tasks : task[t] = "panic"

IInv == TypeOK /\ NothingYet /\ SetComplete /\ Spawned /\ Channels /\ AllGiven /\ Aftermath

-----------------------------------------------------------------------------
LEMMA InitIInv == Init => IInv
<1> SUFFICES ASSUME Init PROVE IInv
    OBVIOUS
<1>1. DOMAIN handler_channels = {}
    BY DEF Init
<1>2. given \subseteq Spellings
    BY DEF Init
<1>3. TypeOK
    BY <1>1, <1>2 DEF Init, TypeOK, Tasks
<1>4. NothingYet
    BY <1>1 DEF Init, NothingYet
<1> QED
    BY <1>1, <1>3, <1>4 DEF Init, IInv, SetComplete, Spawned, Channels, AllGiven, Aftermath,
       Running

(***************************************************************************)
(* The steps of main() before it spawns anything, and of the parser.       *)
(***************************************************************************)
Prepares ==
    /\ main \in {"parse", "wallet", "providers", "addresses", "metrics"}
    /\ \/ main' \in {"wallet", "providers", "addresses", "metrics", "spawn"} /\ exit' = exit
       \/ main' = "exited" /\ exit' \in {"usage", "error", "panic"}
    /\ main' = "spawn" => addresses' = addresses /\ main = "metrics"
    /\ main' = "metrics" => addresses' = given
    /\ main' \in {"wallet", "providers", "addresses"} =>
          cli' = cli /\ main \in {"parse", "wallet", "providers"}
    /\ addresses' \subseteq given
    /\ cli' \in {cli, None} /\ signer' \in {signer, None, "secret", "keystore"}
    /\ UNCHANGED <<given, mainVars, taskVars>>

LEMMA PreparationFacts ==
    ASSUME TypeOK, AllGiven, Parse \/ ChooseWallet \/ BuildProviders \/ ParseAddresses \/ InstallMetrics
    PROVE  Prepares
<1>1. CASE Parse
    BY <1>1 DEF Parse, Prepares, Goes, Returns, startVars, TypeOK
<1>2. CASE ChooseWallet
    <2>1. PICK typed \in {"right", "wrong"} : signer' = Wallet(typed)
        BY <1>2 DEF ChooseWallet
    <2>2. Wallet(typed) \in {None, "secret", "keystore"}
        BY DEF Wallet, FromPrivateKey, GetFromKeystore
    <2> QED
        BY <1>2, <2>1, <2>2 DEF ChooseWallet, Prepares, Goes, Returns, TypeOK
<1>3. CASE BuildProviders
    BY <1>3 DEF BuildProviders, Prepares, Goes, Returns, startVars, TypeOK
<1>4. CASE ParseAddresses
    <2>1. cli.addresses = given
        BY <1>4 DEF ParseAddresses, AllGiven
    <2>2. CASE \E s \in cli.addresses : AddressOf[s] = None
        BY <1>4, <2>2 DEF ParseAddresses, Prepares, Returns, TypeOK
    <2>3. CASE ~ \E s \in cli.addresses : AddressOf[s] = None
        BY <1>4, <2>1, <2>3 DEF ParseAddresses, Prepares, Goes
    <2> QED
        BY <2>2, <2>3
<1>5. CASE InstallMetrics
    BY <1>5 DEF InstallMetrics, Prepares, Goes, Returns, startVars, TypeOK
<1> QED
    BY <1>1, <1>2, <1>3, <1>4, <1>5

LEMMA PreparationKeeps ==
    ASSUME IInv, Prepares
    PROVE  IInv'
<1>0. UNCHANGED <<given, set, handler_channels, poller, cancelled, task, challenging>>
    BY DEF Prepares, mainVars, taskVars
<1>1. /\ set = {} /\ DOMAIN handler_channels = {} /\ poller = None
      /\ \A t \in Tasks : task[t] = "none"
      /\ \A s \in Spellings : ~challenging[s]
    BY DEF IInv, NothingYet, Starting, Prepares
<1>2. TypeOK'
    BY <1>0 DEF IInv, Prepares, TypeOK, Over, Tasks
<1>3. NothingYet' /\ SetComplete' /\ Spawned' /\ Channels'
    <2>1. main' \in {"wallet", "providers", "addresses", "metrics", "spawn", "exited"}
        BY DEF Prepares
    <2> QED
        BY <1>0, <1>1, <2>1
        DEF NothingYet, SetComplete, Spawned, Channels, Running, Starting, Tasks
<1>4. AllGiven'
    BY <1>0 DEF IInv, Prepares, AllGiven
<1>5. Aftermath'
    <2>1. main' = "exited" => exit' # "ok"
        BY DEF Prepares
    <2> QED
        BY <1>0, <1>1, <2>1 DEF Aftermath, Active, Tasks
<1> QED
    BY <1>2, <1>3, <1>4, <1>5 DEF IInv

-----------------------------------------------------------------------------
(***************************************************************************)
(* The steps of main() that spawn a task.                                  *)
(***************************************************************************)
Spawns(t, phase) ==
    /\ Running /\ t \in Tasks /\ phase \in {"starting", "running"}
    /\ set' = set \cup {t} /\ task' = [task EXCEPT ![t] = phase]
    /\ UNCHANGED <<cli, exit, signer, given, challenging, cancelled>>

LEMMA SpawnKeeps ==
    ASSUME IInv, NEW t, NEW phase, Spawns(t, phase), Running',
           Spawned', Channels', AllGiven', addresses' \subseteq given,
           poller' \in {poller, Built}
    PROVE  IInv'
<1>1. /\ task' \in [Tasks -> {"none", "starting", "calling", "running"} \cup Over]
      /\ \A u \in Tasks : task'[u] = IF u = t THEN phase ELSE task[u]
    BY DEF IInv, TypeOK, Spawns
<1>2. SetComplete'
    BY <1>1 DEF IInv, SetComplete, Spawns, Running
<1>3. poller' # None => poller'.cancellation_token \in {"own", "program"}
    <2>1. Built.cancellation_token = "program"
        BY DEF Built, Build, With, Builder
    <2> QED
        BY <2>1 DEF IInv, TypeOK
<1>4. main' # "exited" /\ main' \in {"spawn", "collector", "select"} /\ main # "exited"
    BY DEF Running, Spawns
<1>5. TypeOK'
    BY <1>1, <1>3, <1>4 DEF IInv, TypeOK, Spawns, Channels, Tasks, Over
<1>6. NothingYet' /\ Aftermath'
    BY <1>4 DEF NothingYet, Starting, Aftermath
<1> QED
    BY <1>2, <1>5, <1>6 DEF IInv

LEMMA SpawnProcessorKeeps ==
    ASSUME IInv, NEW s, SpawnProcessor(s)
    PROVE  IInv'
<1>1. /\ main = "spawn" /\ s \in addresses /\ addresses' = addresses \ {s}
      /\ handler_channels' = Put(handler_channels, AddressOf[s], s)
      /\ UNCHANGED <<main, poller, given>>
    BY DEF SpawnProcessor
<1>2. s \in given /\ s \in Spellings
    BY <1>1 DEF IInv, TypeOK
<1>3. Spawns(s, "starting")
    BY <1>2 DEF SpawnProcessor, Spawns, Spawn, Running, Tasks
<1>4. /\ DOMAIN handler_channels' = DOMAIN handler_channels \cup {AddressOf[s]}
      /\ \A a \in DOMAIN handler_channels' :
            handler_channels'[a] = IF a = AddressOf[s] THEN s ELSE handler_channels[a]
    BY <1>1 DEF Put
<1>5. \A u \in Tasks : task'[u] = IF u = s THEN "starting" ELSE task[u]
    BY <1>3 DEF Spawns, IInv, TypeOK
<1>6. Channels'
    <2> SUFFICES ASSUME NEW a \in DOMAIN handler_channels'
                 PROVE  /\ handler_channels'[a] \in given
                        /\ AddressOf[handler_channels'[a]] = a
                        /\ task'[handler_channels'[a]] # "none"
        BY <1>1 DEF Channels
    <2>1. CASE a = AddressOf[s]
        BY <1>2, <1>4, <1>5, <2>1 DEF Tasks
    <2>2. CASE a # AddressOf[s]
        <3>1. a \in DOMAIN handler_channels /\ handler_channels'[a] = handler_channels[a]
            BY <1>4, <2>2
        <3>2. /\ handler_channels[a] \in given /\ AddressOf[handler_channels[a]] = a
              /\ task[handler_channels[a]] # "none"
            BY <3>1 DEF IInv, Channels
        <3>3. handler_channels[a] \in Tasks
            BY <3>2 DEF IInv, TypeOK, Tasks
        <3> QED
            BY <1>5, <3>1, <3>2, <3>3
    <2> QED
        BY <2>1, <2>2
<1>7. AllGiven'
    BY <1>1, <1>4 DEF IInv, AllGiven
<1>8. Spawned'
    BY <1>1 DEF IInv, Spawned
<1>9. addresses' \subseteq given /\ Running'
    BY <1>1 DEF IInv, TypeOK, Running
<1> QED
    BY <1>1, <1>3, <1>6, <1>7, <1>8, <1>9, SpawnKeeps

LEMMA SpawnPollerKeeps ==
    ASSUME IInv, SpawnPoller
    PROVE  IInv'
<1>1. /\ main = "spawn" /\ main' = "collector" /\ addresses = {} /\ poller' = Built
      /\ UNCHANGED <<given, addresses, handler_channels>>
    BY DEF SpawnPoller, Goes, startVars
<1>2. Spawns(Poller, "running")
    BY <1>1 DEF SpawnPoller, Spawns, Spawn, Running, Tasks, startVars, Goes
<1>3. \A u \in Tasks : task'[u] = IF u = Poller THEN "running" ELSE task[u]
    BY <1>2 DEF Spawns, IInv, TypeOK
<1>4. Built' = Built
    BY <1>1 DEF Built, Build, With, Builder
<1>5. Spawned'
    BY <1>1, <1>3, <1>4 DEF Spawned, Tasks
<1>6. Channels'
    BY <1>1, <1>3 DEF IInv, Channels, TypeOK, Tasks
<1>7. AllGiven' /\ addresses' \subseteq given /\ Running'
    BY <1>1 DEF IInv, AllGiven, TypeOK, Running
<1> QED
    BY <1>1, <1>2, <1>5, <1>6, <1>7, SpawnKeeps

LEMMA SpawnCollectorKeeps ==
    ASSUME IInv, SpawnCollector
    PROVE  IInv'
<1>1. /\ main = "collector" /\ main' = "select"
      /\ UNCHANGED <<given, addresses, handler_channels, poller>>
    BY DEF SpawnCollector, Goes, startVars
<1>2. Spawns(Collector, "running")
    BY <1>1 DEF SpawnCollector, Spawns, Spawn, Running, Tasks, startVars, Goes
<1>3. \A u \in Tasks : task'[u] = IF u = Collector THEN "running" ELSE task[u]
    BY <1>2 DEF Spawns, IInv, TypeOK
<1>4. Built' = Built
    BY <1>1 DEF Built, Build, With, Builder
<1>5. Spawned'
    BY <1>1, <1>3, <1>4 DEF IInv, Spawned, Tasks
<1>6. Channels'
    BY <1>1, <1>3 DEF IInv, Channels, TypeOK, Tasks
<1>7. AllGiven' /\ addresses' \subseteq given /\ Running'
    BY <1>1 DEF IInv, AllGiven, TypeOK, Running
<1> QED
    BY <1>1, <1>2, <1>5, <1>6, <1>7, SpawnKeeps

-----------------------------------------------------------------------------
(***************************************************************************)
(* The end of main(): the token is cancelled and the set is emptied.       *)
(***************************************************************************)
Joins ==
    /\ cancelled' = TRUE /\ set' \subseteq set
    /\ \A t \in Tasks : Active(t) /\ t \in set => t \in set'
    /\ UNCHANGED <<startVars, handler_channels, poller, taskVars>>

LEMMA JoinKeeps ==
    ASSUME IInv, Joins, main \in {"select", "join"},
           \/ main' = "join" /\ UNCHANGED exit
           \/ /\ main' = "exited" /\ exit' = "ok"
              /\ main = "join" /\ set = {}
           \/ /\ main' = "exited" /\ exit' = "panic"
              /\ \E t \in Tasks : task[t] = "panic"
    PROVE  IInv'
<1>0. UNCHANGED <<cli, signer, addresses, given, handler_channels, poller, task, challenging>>
    BY DEF Joins, startVars, taskVars
<1>1. main' \in {"join", "exited"}
    OBVIOUS
<1>2. \A t \in Tasks : Active(t) => t \in set
    BY DEF IInv, SetComplete, Running, Active
<1>3. TypeOK'
    BY <1>0, <1>1 DEF IInv, TypeOK, Joins
<1>4. NothingYet' /\ Spawned' /\ AllGiven'
    BY <1>1 DEF NothingYet, Starting, Spawned, AllGiven
<1>5. Channels'
    BY <1>0 DEF IInv, Channels
<1>6. SetComplete'
    BY <1>0, <1>1, <1>2 DEF SetComplete, Running, Joins, Active
<1>7. Aftermath'
    <2>1. main' = "exited" =>
             \/ exit' = "panic" /\ \E t \in Tasks : task[t] = "panic"
             \/ exit' = "ok" /\ \A t \in Tasks : ~Active(t)
        BY <1>2
    <2> QED
        BY <1>0, <2>1 DEF Aftermath, Joins, Active
<1> QED
    BY <1>3, <1>4, <1>5, <1>6, <1>7 DEF IInv

LEMMA CtrlCKeeps == ASSUME IInv, CtrlC PROVE IInv'
<1>1. Joins /\ main = "select" /\ main' = "join" /\ UNCHANGED exit
    BY DEF CtrlC, Cancel, Goes, Joins
<1> QED
    BY <1>1, JoinKeeps

LEMMA JoinFirstKeeps == ASSUME IInv, NEW t, JoinFirst(t) PROVE IInv'
<1>1. Joins /\ main = "select" /\ main' = "join" /\ UNCHANGED exit
    BY DEF JoinFirst, Cancel, Goes, Joins, Ended, Active, Over
<1> QED
    BY <1>1, JoinKeeps

LEMMA JoinNextKeeps == ASSUME IInv, NEW t, JoinNext(t) PROVE IInv'
<1>1. main = "join" /\ cancelled /\ t \in Tasks
    BY DEF IInv, SetComplete, JoinNext, TypeOK
<1>2. Joins
    BY <1>1 DEF JoinNext, Joins, Ended, Active, Over, IInv, TypeOK
<1>3. CASE task[t] = "panic"
    <2>1. main' = "exited" /\ exit' = "panic"
        BY <1>3 DEF JoinNext, Returns
    <2> QED
        BY <1>1, <1>2, <1>3, <2>1, JoinKeeps
<1>4. CASE task[t] # "panic"
    <2>1. main' = "join" /\ UNCHANGED exit
        BY <1>1, <1>4 DEF JoinNext
    <2> QED
        BY <1>1, <1>2, <2>1, JoinKeeps
<1> QED
    BY <1>3, <1>4

LEMMA ReturnKeeps == ASSUME IInv, Return PROVE IInv'
<1>1. main = "join" /\ set = {} /\ main' = "exited" /\ exit' = "ok"
    BY DEF Return, Returns
<1>2. Joins
    BY <1>1 DEF IInv, SetComplete, TypeOK, Return, mainVars, taskVars, Joins
<1> QED
    BY <1>1, <1>2, JoinKeeps

-----------------------------------------------------------------------------
(***************************************************************************)
(* A step of a task: only an active task moves, and only one that was      *)
(* spawned begins a challenge.                                             *)
(***************************************************************************)
TaskMoves ==
    /\ main # "exited"
    /\ \E t \in Tasks :
          /\ Active(t)
          /\ \E phase \in {"running", "calling"} \cup Over :
                task' = [task EXCEPT ![t] = phase]
    /\ challenging' \in [Spellings -> BOOLEAN]
    /\ UNCHANGED <<startVars, main, exit, mainVars>>

LEMMA TaskMovesKeeps == ASSUME IInv, TaskMoves PROVE IInv'
<1>1. PICK t \in Tasks : Active(t) /\ \E phase \in {"running", "calling"} \cup Over :
                                         task' = [task EXCEPT ![t] = phase]
    BY DEF TaskMoves
<1>2. PICK phase \in {"running", "calling"} \cup Over : task' = [task EXCEPT ![t] = phase]
    BY <1>1
<1>3. \A u \in Tasks : task'[u] = IF u = t THEN phase ELSE task[u]
    BY <1>2 DEF IInv, TypeOK
<1>4. task[t] # "none" /\ phase # "none"
    BY <1>1 DEF Active, Over
<1>5. \A u \in Tasks : /\ task'[u] # "none" <=> task[u] # "none"
                       /\ Active(u)' => Active(u)
    BY <1>1, <1>3, <1>4 DEF Active
<1>6. /\ ~Starting /\ main # "exited"
      /\ UNCHANGED <<cli, signer, addresses, given, main, exit, set, handler_channels,
                     poller, cancelled>>
    BY <1>1, <1>4 DEF IInv, NothingYet, TaskMoves, startVars, mainVars
<1>7. TypeOK'
    <2>1. task' \in [Tasks -> {"none", "starting", "calling", "running"} \cup Over]
        BY <1>2 DEF IInv, TypeOK
    <2>2. challenging' \in [Spellings -> BOOLEAN]
        BY DEF TaskMoves
    <2>3. set' \subseteq {u \in Tasks : task'[u] # "none"}
        BY <1>5, <1>6 DEF IInv, TypeOK
    <2> QED
        BY <1>6, <2>1, <2>2, <2>3 DEF IInv, TypeOK
<1>8. NothingYet' /\ Aftermath'
    BY <1>6 DEF NothingYet, Starting, Aftermath
<1>9. SetComplete'
    BY <1>5, <1>6 DEF IInv, SetComplete, Running
<1>10. Spawned'
    <2>1. Built' = Built
        BY <1>6 DEF Built, Build, With, Builder
    <2> QED
        BY <1>5, <1>6, <2>1 DEF IInv, Spawned, Tasks
<1>11. Channels'
    BY <1>5, <1>6 DEF IInv, Channels, TypeOK, Tasks
<1>12. AllGiven'
    BY <1>6 DEF IInv, AllGiven
<1> QED
    BY <1>7, <1>8, <1>9, <1>10, <1>11, <1>12 DEF IInv

LEMMA ProcessorMoves ==
    ASSUME IInv, NEW s \in Spellings, ProcessorNext(s)
    PROVE  TaskMoves
<1>0. s \in Tasks /\ challenging \in [Spellings -> BOOLEAN]
    BY DEF Tasks, IInv, TypeOK
<1>1. CASE RefreshReturns(s)
    BY <1>0, <1>1 DEF RefreshReturns, Moves, TaskMoves, Active, Over
<1>2. CASE TakePoke(s)
    BY <1>0, <1>2 DEF TakePoke, Moves, TaskMoves, Active, Over
<1>3. CASE CheckReturns(s)
    <2>1. challenging' \in [Spellings -> BOOLEAN]
        BY <1>0, <1>3 DEF CheckReturns
    <2> QED
        BY <1>0, <1>3, <2>1 DEF CheckReturns, Moves, TaskMoves, Active, Over
<1>4. CASE StopProcessor(s)
    BY <1>0, <1>4 DEF StopProcessor, Moves, TaskMoves, Active, Over
<1> QED
    BY <1>1, <1>2, <1>3, <1>4 DEF ProcessorNext

LEMMA OtherTasksMove ==
    ASSUME IInv, Wake \/ PollReturns \/ StopPoller \/ StopCollector
    PROVE  TaskMoves
<1>0. Poller \in Tasks /\ Collector \in Tasks /\ challenging \in [Spellings -> BOOLEAN]
    BY DEF Tasks, IInv, TypeOK
<1>1. CASE Wake
    BY <1>0, <1>1 DEF Wake, Moves, TaskMoves, Active, Over
<1>2. CASE PollReturns
    <2>1. PICK next \in {"ok", "running", "error"} : Moves(Poller, "calling", next)
        BY <1>2 DEF PollReturns
    <2>2. UNCHANGED challenging
        BY <1>2 DEF PollReturns
    <2> QED
        BY <1>0, <2>1, <2>2 DEF Moves, TaskMoves, Active, Over
<1>3. CASE StopPoller
    BY <1>0, <1>3 DEF StopPoller, Moves, TaskMoves, Active, Over
<1>4. CASE StopCollector
    BY <1>0, <1>4 DEF StopCollector, Moves, TaskMoves, Active, Over
<1> QED
    BY <1>1, <1>2, <1>3, <1>4

LEMMA PanicMoves == ASSUME IInv, NEW t \in Tasks, Panics(t) PROVE TaskMoves
    BY DEF Panics, Moves, TaskMoves, Over, IInv, TypeOK

LEMMA ChallengeEndsKeeps ==
    ASSUME IInv, NEW s \in Spellings, ChallengeEnds(s)
    PROVE  IInv'
<1>1. UNCHANGED <<cli, signer, addresses, given, main, exit, set, handler_channels,
                  poller, cancelled, task>>
    BY DEF ChallengeEnds, startVars, mainVars
<1>2. /\ challenging' \in [Spellings -> BOOLEAN]
      /\ \A r \in Spellings : challenging'[r] => challenging[r]
    BY DEF ChallengeEnds, IInv, TypeOK
<1>3. TypeOK'
    BY <1>1, <1>2 DEF IInv, TypeOK
<1>4. Built' = Built
    BY <1>1 DEF Built, Build, With, Builder
<1>5. NothingYet' /\ SetComplete' /\ Spawned' /\ Channels' /\ AllGiven'
    BY <1>1, <1>2, <1>4 DEF IInv, NothingYet, SetComplete, Spawned, Channels, AllGiven,
       Starting, Running, Active
<1>6. Aftermath'
    BY <1>1 DEF ChallengeEnds, Aftermath
<1> QED
    BY <1>3, <1>5, <1>6 DEF IInv

-----------------------------------------------------------------------------
LEMMA NextKeeps == ASSUME IInv, [Next]_vars PROVE IInv'
<1>1. CASE MainNext
    <2>1. CASE Parse \/ ChooseWallet \/ BuildProviders \/ ParseAddresses \/ InstallMetrics
        BY <2>1, PreparationFacts, PreparationKeeps DEF IInv
    <2>2. CASE \E s \in addresses : SpawnProcessor(s)
        BY <2>2, SpawnProcessorKeeps
    <2>3. CASE SpawnPoller
        BY <2>3, SpawnPollerKeeps
    <2>4. CASE SpawnCollector
        BY <2>4, SpawnCollectorKeeps
    <2>5. CASE \E t \in set : JoinFirst(t) \/ JoinNext(t)
        BY <2>5, JoinFirstKeeps, JoinNextKeeps
    <2>6. CASE Return
        BY <2>6, ReturnKeeps
    <2> QED
        BY <1>1, <2>1, <2>2, <2>3, <2>4, <2>5, <2>6 DEF MainNext
<1>2. CASE CtrlC
    BY <1>2, CtrlCKeeps
<1>3. CASE \E s \in Spellings : ProcessorNext(s) \/ ChallengeEnds(s)
    BY <1>3, ProcessorMoves, TaskMovesKeeps, ChallengeEndsKeeps
<1>4. CASE Wake \/ PollReturns \/ StopPoller \/ StopCollector
    BY <1>4, OtherTasksMove, TaskMovesKeeps
<1>5. CASE \E t \in Tasks : Panics(t)
    BY <1>5, PanicMoves, TaskMovesKeeps
<1>6. CASE UNCHANGED vars
    <2>1. UNCHANGED <<cli, signer, addresses, given, main, exit, set, handler_channels,
                      poller, cancelled, task, challenging>>
        BY <1>6 DEF vars, startVars, mainVars, taskVars
    <2>2. Built' = Built
        BY <2>1 DEF Built, Build, With, Builder
    <2>3. TypeOK' /\ NothingYet' /\ SetComplete' /\ Spawned'
        BY <2>1, <2>2 DEF IInv, TypeOK, NothingYet, SetComplete, Spawned, Starting, Running, Active
    <2>4. Channels' /\ AllGiven' /\ Aftermath'
        BY <2>1 DEF IInv, Channels, AllGiven, Aftermath, Active
    <2> QED
        BY <2>3, <2>4 DEF IInv
<1> QED
    BY <1>1, <1>2, <1>3, <1>4, <1>5, <1>6 DEF Next

\* main() keeps the set, the channels and the tasks in step.
THEOREM Inductive == Spec => []IInv
<1>1. IInv /\ [Next]_vars => IInv'
    BY NextKeeps
<1> QED
    BY <1>1, InitIInv, PTL DEF Spec

\* Type correctness of main() and its tasks.
THEOREM TypeCorrect == Spec => []TypeOK
<1>1. IInv => TypeOK
    BY DEF IInv
<1> QED
    BY <1>1, Inductive, PTL

(***************************************************************************)
(* For every command line: while nothing has ended, every address on it    *)
(* has a living processor that the poller sends its logs to.               *)
(***************************************************************************)
THEOREM EveryAddressIsWatched == Spec => []AddressesWatched
<1>1. IInv => AddressesWatched
    <2> SUFFICES ASSUME IInv, main = "select", \A t \in set : ~Ended(t), NEW s \in given
                 PROVE  /\ AddressOf[s] \in poller.addresses
                        /\ Active(poller.handler_channels[AddressOf[s]])
                        /\ AddressOf[poller.handler_channels[AddressOf[s]]] = AddressOf[s]
        BY DEF AddressesWatched
    <2>1. poller = Built /\ AddressOf[s] \in DOMAIN handler_channels
        BY DEF IInv, Spawned, AllGiven
    <2>2. /\ poller.addresses = DOMAIN handler_channels
          /\ poller.handler_channels = handler_channels
        BY <2>1 DEF Built, Build, With, Builder
    <2> DEFINE r == handler_channels[AddressOf[s]]
    <2>3. r \in given /\ AddressOf[r] = AddressOf[s] /\ task[r] # "none"
        BY <2>1 DEF IInv, Channels
    <2>4. r \in Tasks
        BY <2>3 DEF IInv, TypeOK, Tasks
    <2>5. r \in set
        BY <2>3, <2>4 DEF IInv, SetComplete, Running
    <2>6. Active(r)
        BY <2>3, <2>4, <2>5 DEF IInv, TypeOK, Active, Ended
    <2> QED
        BY <2>1, <2>2, <2>3, <2>6
<1> QED
    BY <1>1, Inductive, PTL

(***************************************************************************)
(* For every command line and any number of processors: main() returns     *)
(* after all its tasks unless one of them panicked, and no challenge is    *)
(* left whose token is not cancelled.                                      *)
(***************************************************************************)
THEOREM NobodyIsLeftBehind == Spec => []NobodyLeftBehind
<1>1. IInv => NobodyLeftBehind
    <2> SUFFICES ASSUME IInv PROVE NobodyLeftBehind
        OBVIOUS
    <2>1. exit = "ok" => main = "exited"
        BY DEF IInv, TypeOK
    <2>2. main = "select" => {Poller, Collector} \subseteq set
        BY DEF IInv, Spawned, SetComplete, Running, Tasks
    <2>3. exit = "ok" => cancelled /\ \A t \in Tasks : ~Active(t)
        BY <2>1 DEF IInv, Aftermath
    <2>4. main = "exited" /\ (\E t \in Tasks : Active(t)) => \E t \in Tasks : task[t] = "panic"
        BY DEF IInv, Aftermath
    <2>5. main = "exited" /\ (\E s \in Spellings : challenging[s]) => cancelled
        BY DEF IInv, Aftermath
    <2> QED
        BY <2>2, <2>3, <2>4, <2>5 DEF NobodyLeftBehind
<1> QED
    BY <1>1, Inductive, PTL

-----------------------------------------------------------------------------
(***************************************************************************)
(* Who has a sender.  The spellings are taken in their order, so that the  *)
(* entry of an address is of the last one that was.                        *)
(***************************************************************************)
LastHasEntry ==
    /\ \A s \in Spellings : task[s] # "none" =>
          AddressOf[s] \in DOMAIN handler_channels /\ handler_channels[AddressOf[s]] >= s
    /\ main = "spawn" =>
          \A s \in Spellings : \A r \in addresses : task[s] # "none" => s < r

\* A step other than a spawn of a processor gives no processor life and no channel.
LEMMA OtherStepsSpawnNobody ==
    ASSUME IInv, [Next]_vars, \A s \in addresses : ~SpawnProcessor(s)
    PROVE  /\ UNCHANGED handler_channels
           /\ \A s \in Spellings : task'[s] # "none" => task[s] # "none"
           /\ main' = "spawn" => UNCHANGED addresses /\ (main # "spawn" => Starting)
<1>1. CASE Parse \/ ChooseWallet \/ BuildProviders \/ ParseAddresses \/ InstallMetrics
    BY <1>1, PreparationFacts DEF IInv, Prepares, mainVars, taskVars, Starting
<1>2. CASE SpawnPoller \/ SpawnCollector
    <2>1. UNCHANGED handler_channels /\ main' # "spawn"
        BY <1>2 DEF SpawnPoller, SpawnCollector, Goes
    <2>2. \A s \in Spellings : task'[s] = task[s]
        BY <1>2 DEF SpawnPoller, SpawnCollector, Spawn, IInv, TypeOK, Tasks
    <2> QED
        BY <2>1, <2>2
<1>3. CASE CtrlC \/ Return \/ \E t \in set : JoinFirst(t) \/ JoinNext(t)
    BY <1>3 DEF CtrlC, Return, JoinFirst, JoinNext, Goes, Returns, mainVars, taskVars
<1>4. CASE TaskMoves
    <2>1. PICK t \in Tasks, phase \in {"running", "calling"} \cup Over :
              Active(t) /\ task' = [task EXCEPT ![t] = phase]
        BY <1>4 DEF TaskMoves
    <2>2. \A s \in Spellings : task'[s] # "none" => task[s] # "none"
        BY <2>1 DEF IInv, TypeOK, Tasks, Active
    <2> QED
        BY <1>4, <2>2 DEF TaskMoves, startVars, mainVars
<1>5. CASE (\E s \in Spellings : ChallengeEnds(s)) \/ UNCHANGED vars
    BY <1>5 DEF ChallengeEnds, vars, startVars, mainVars, taskVars
<1> QED
    BY <1>1, <1>2, <1>3, <1>4, <1>5, ProcessorMoves, OtherTasksMove, PanicMoves DEF Next, MainNext

LEMMA LastHasEntryStep ==
    ASSUME IInv, LastHasEntry, [Next]_vars
    PROVE  LastHasEntry'
<1>1. CASE \A s \in addresses : ~SpawnProcessor(s)
    <2>1. /\ UNCHANGED handler_channels
          /\ \A s \in Spellings : task'[s] # "none" => task[s] # "none"
          /\ main' = "spawn" => UNCHANGED addresses /\ (main # "spawn" => Starting)
        BY <1>1, OtherStepsSpawnNobody
    <2>2. Starting => \A s \in Spellings : task[s] = "none"
        BY DEF IInv, NothingYet, Tasks
    <2> QED
        BY <2>1, <2>2 DEF LastHasEntry
<1>2. ASSUME NEW s \in addresses, SpawnProcessor(s) PROVE LastHasEntry'
    <2>1. /\ main = "spawn" /\ main' = main /\ \A r \in addresses : s <= r
          /\ handler_channels' = Put(handler_channels, AddressOf[s], s)
          /\ addresses' = addresses \ {s}
        BY <1>2 DEF SpawnProcessor
    <2>2. \A r \in Tasks : task'[r] = IF r = s THEN "starting" ELSE task[r]
        BY <1>2 DEF SpawnProcessor, Spawn, IInv, TypeOK
    <2>3. addresses \subseteq Int /\ Spellings \subseteq Tasks /\ s \in Spellings
        BY DEF IInv, TypeOK, Tasks
    <2>4. ASSUME NEW r \in Spellings, task'[r] # "none"
          PROVE  /\ AddressOf[r] \in DOMAIN handler_channels'
                 /\ handler_channels'[AddressOf[r]] >= r
        <3>1. CASE AddressOf[r] = AddressOf[s]
            <4>1. r <= s
                <5>1. r \in Int /\ s \in Int
                    BY <2>3
                <5>2. r # s => r < s
                    BY <2>1, <2>2, <2>3, <2>4 DEF LastHasEntry
                <5> QED
                    BY <5>1, <5>2
            <4>2. AddressOf[r] \in DOMAIN handler_channels' /\ handler_channels'[AddressOf[r]] = s
                BY <2>1, <3>1 DEF Put
            <4> QED
                BY <2>3, <4>1, <4>2
        <3>2. CASE AddressOf[r] # AddressOf[s]
            <4>1. task[r] # "none"
                BY <2>2, <2>3, <2>4, <3>2
            <4> QED
                BY <2>1, <3>2, <4>1 DEF Put, LastHasEntry
        <3> QED
            BY <3>1, <3>2
    <2>5. ASSUME NEW r \in Spellings, task'[r] # "none", NEW q \in addresses' PROVE r < q
        <3>1. CASE r = s
            BY <2>1, <2>3, <2>5, <3>1
        <3>2. CASE r # s
            BY <2>1, <2>2, <2>3, <2>5, <3>2 DEF LastHasEntry
        <3> QED
            BY <3>1, <3>2
    <2> QED
        BY <2>4, <2>5 DEF LastHasEntry
<1> QED
    BY <1>1, <1>2

(***************************************************************************)
(* For every command line: a processor without a sender is of an address   *)
(* that was given in a later spelling too, unless the poller's end took    *)
(* the senders, of which main() was told or will be.                       *)
(***************************************************************************)
THEOREM OnlyDuplicatesAreLeftDeaf == Spec => []OnlyDuplicatesStayDeaf
<1>1. Init => LastHasEntry
    BY DEF Init, LastHasEntry, Tasks
<1>2. IInv /\ LastHasEntry => OnlyDuplicatesStayDeaf
    <2> SUFFICES ASSUME IInv, LastHasEntry, main # "exited", NEW s \in Spellings,
                        task[s] # "none", ~HasSender(s), ~cancelled
                 PROVE  \/ Ended(Poller) /\ Poller \in set
                        \/ \E r \in given : AddressOf[r] = AddressOf[s] /\ r > s
        BY DEF OnlyDuplicatesStayDeaf
    <2>1. CASE Ended(Poller)
        <3>1. task[Poller] # "none" /\ Poller \in Tasks
            BY <2>1 DEF Ended, Over, Tasks
        <3>2. Running
            BY <3>1 DEF IInv, TypeOK, NothingYet, SetComplete, Starting, Running
        <3> QED
            BY <2>1, <3>1, <3>2 DEF IInv, SetComplete
    <2>2. CASE ~HasEntry(s)
        <3> DEFINE r == handler_channels[AddressOf[s]]
        <3>1. AddressOf[s] \in DOMAIN handler_channels /\ r >= s
            BY DEF LastHasEntry
        <3>2. r \in given /\ AddressOf[r] = AddressOf[s] /\ r # s
            BY <2>2, <3>1 DEF IInv, Channels, HasEntry
        <3>3. r \in Int /\ s \in Int
            BY <3>2 DEF IInv, TypeOK
        <3> QED
            BY <3>1, <3>2, <3>3
    <2> QED
        BY <2>1, <2>2 DEF HasSender
<1> QED
    BY <1>1, <1>2, LastHasEntryStep, Inductive, PTL DEF Spec

=============================================================================
