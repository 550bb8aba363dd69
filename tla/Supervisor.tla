----------------------------- MODULE Supervisor -----------------------------
(***************************************************************************)
(* The program as main() of src/main.rs runs it: the wallet and the        *)
(* addresses taken from the command line (with src/wallet.rs), the tasks   *)
(* spawned into one JoinSet, the wait for ctrl-c or for the first task to  *)
(* end, and the shutdown through the common cancellation token.            *)
(*                                                                         *)
(* A task is seen here from outside only: whether it is in an RPC call,    *)
(* where it does not look at the token, and how it ends.                   *)
(***************************************************************************)
EXTENDS Integers

CONSTANTS
    Spellings,     \* of addresses, numbered in the order sort() gives them
    AddressOf,     \* the address that a spelling parses to, or None
    CommandLines,  \* what the program may be started with
    Poller, Collector,   \* the two tasks that are no processors
    None

ASSUME SupervisorAssumption ==
    /\ Spellings \subseteq Int
    /\ None \notin Int \cup {"usage", "ok", "error", "panic", "secret", "keystore"}
    /\ Poller \notin Spellings /\ Collector \notin Spellings /\ Poller # Collector
    /\ \A c \in CommandLines : c.addresses \subseteq Spellings

VARIABLES
    cli,           \* the arguments, until they are used up
    main, exit,    \* where main() is, and how it returned
    signer,        \* what the wallet was made from
    addresses,     \* the addresses still to be given a processor
    set,           \* the JoinSet: tasks that were not joined yet
    task,          \* how far each task is
    handler_channels,  \* per address, the processor at the other end
    poller,        \* what the poller was built with
    challenging,   \* per processor, whether a challenge task of it is alive
    cancelled,     \* the cancellation token
    given          \* history: the spellings on the command line

startVars == <<cli, signer, addresses, given>>
taskVars == <<task, challenging>>
mainVars == <<set, handler_channels, poller, cancelled>>
vars == <<startVars, main, exit, mainVars, taskVars>>

-----------------------------------------------------------------------------
Tasks == Spellings \cup {Poller, Collector}

Over == {"ok", "error", "panic"}

Ended(t) == task[t] \in Over

\* The task waits for a node, or the poller for room in a channel, and for nothing else.
InCall(t) == task[t] \in {"starting", "calling"}

Active(t) == task[t] \in {"starting", "calling", "running"}

(***************************************************************************)
(* src/wallet.rs.  A secret is trimmed only if it begins with 0x, and a    *)
(* padded one does not parse.  A password file may end in white space.     *)
(***************************************************************************)
FromPrivateKey(secret) ==
    IF secret.hex /\ (secret.prefix \/ ~secret.padded) THEN "secret" ELSE None

Password(typed) ==
    IF cli.raw_password # None THEN cli.raw_password
    ELSE IF cli.password_file # None THEN cli.password_file
    ELSE typed

GetFromKeystore(typed) ==
    IF cli.keystore = "file" /\ Password(typed) = "right" THEN "keystore" ELSE None

\* The wallet, or None for an error; typed is the answer to the prompt.
Wallet(typed) ==
    IF cli.secret_key # None THEN FromPrivateKey(cli.secret_key)
    ELSE IF cli.keystore # None THEN GetFromKeystore(typed)
    ELSE None

Init ==
    /\ cli \in CommandLines /\ given = cli.addresses
    /\ main = "parse" /\ exit = None /\ signer = None /\ addresses = {}
    /\ set = {} /\ task = [t \in Tasks |-> "none"] /\ handler_channels = <<>>
    /\ poller = None /\ challenging = [s \in Spellings |-> FALSE]
    /\ cancelled = FALSE

Goes(here, next) == main = here /\ main' = next /\ UNCHANGED exit

Returns(here, how) == main = here /\ main' = "exited" /\ exit' = how

\* Cli::parse: a password needs a keystore.
Parse ==
    /\ main = "parse"
    /\ IF cli.keystore = None /\ (cli.raw_password # None \/ cli.password_file # None)
       THEN Returns("parse", "usage")
       ELSE Goes("parse", "wallet")
    /\ UNCHANGED <<startVars, mainVars, taskVars>>

ChooseWallet ==
    /\ main = "wallet"
    /\ \E typed \in {"right", "wrong"} :
          /\ signer' = Wallet(typed)
          /\ IF Wallet(typed) = None
             THEN Returns("wallet", "error")
             ELSE Goes("wallet", "providers")
    /\ UNCHANGED <<cli, addresses, given, mainVars, taskVars>>

BuildProviders ==
    /\ main = "providers"
    /\ IF "bad" \in {cli.rpc_url, cli.flashbot_rpc_url}
       THEN Returns("providers", "error")
       ELSE Goes("providers", "addresses")
    /\ UNCHANGED <<startVars, mainVars, taskVars>>

\* sort(), dedup() and parse: equal strings are removed, not equal addresses.
ParseAddresses ==
    /\ main = "addresses"
    /\ IF \E s \in cli.addresses : AddressOf[s] = None
       THEN Returns("addresses", "error") /\ UNCHANGED <<cli, addresses>>
       ELSE Goes("addresses", "metrics") /\ addresses' = cli.addresses /\ cli' = None
    /\ UNCHANGED <<signer, given, mainVars, taskVars>>

\* The listener of the metrics is bound, or main() panics.
InstallMetrics ==
    /\ Goes("metrics", "spawn") \/ Returns("metrics", "panic")
    /\ UNCHANGED <<startVars, mainVars, taskVars>>

-----------------------------------------------------------------------------
\* Mutant of Spawn: the task is in the set but is never run.
SpawnLazily(t, phase) == set' = set \cup {t} /\ UNCHANGED task

Spawn(t, phase) == set' = set \cup {t} /\ task' = [task EXCEPT ![t] = phase]

\* Mutant of Put: a key that is there keeps its value.
PutIfAbsent(f, x, y) == [z \in DOMAIN f \cup {x} |-> IF z \in DOMAIN f THEN f[z] ELSE y]

Put(f, x, y) == [z \in DOMAIN f \cup {x} |-> IF z = x THEN y ELSE f[z]]

SpawnProcessor(s) ==
    /\ main = "spawn" /\ s \in addresses /\ \A r \in addresses : s <= r
    /\ Spawn(s, "starting")
    /\ handler_channels' = Put(handler_channels, AddressOf[s], s)
    /\ addresses' = addresses \ {s}
    /\ UNCHANGED <<cli, signer, given, main, exit, poller, challenging, cancelled>>

\* PollerBuilder: its default token is its own, and is never cancelled.
Builder == [handler_channels |-> <<>>, cancellation_token |-> "own"]

With(builder, field, value) == [builder EXCEPT ![field] = value]

\* Poller::new; the range and the interval of the polls do not matter here.
Build(builder) ==
    [addresses |-> DOMAIN builder.handler_channels,
     handler_channels |-> builder.handler_channels,
     cancellation_token |-> builder.cancellation_token]

\* Mutant of Built: the handler channels were left out.
BuiltWithoutChannels == Build(With(Builder, "cancellation_token", "program"))

Built == Build(With(With(Builder, "handler_channels", handler_channels),
                    "cancellation_token", "program"))

SpawnPoller ==
    /\ addresses = {} /\ Goes("spawn", "collector")
    /\ poller' = Built
    /\ Spawn(Poller, "running")
    /\ UNCHANGED <<startVars, handler_channels, challenging, cancelled>>

SpawnCollector ==
    /\ Goes("collector", "select")
    /\ Spawn(Collector, "running")
    /\ UNCHANGED <<startVars, handler_channels, poller, challenging, cancelled>>

Cancel == cancelled' = TRUE

CtrlC ==
    /\ Goes("select", "join") /\ Cancel
    /\ UNCHANGED <<startVars, set, handler_channels, poller, taskVars>>

\* Mutant of JoinFirst: an error is logged, and main() goes on to join_all.
JoinFirstIgnoresErrors(t) ==
    /\ t \in set /\ Ended(t) /\ Goes("select", "join")
    /\ cancelled' = (task[t] # "error") /\ set' = set \ {t}
    /\ UNCHANGED <<startVars, handler_channels, poller, taskVars>>

\* join_next: the first task that ended, well or not, ends the others.
JoinFirst(t) ==
    /\ t \in set /\ Ended(t) /\ Goes("select", "join")
    /\ Cancel /\ set' = set \ {t}
    /\ UNCHANGED <<startVars, handler_channels, poller, taskVars>>

\* join_all goes through the set, and passes a panic on.
JoinNext(t) ==
    /\ main = "join" /\ t \in set /\ Ended(t) /\ set' = set \ {t}
    /\ IF task[t] = "panic" THEN Returns("join", "panic") ELSE UNCHANGED <<main, exit>>
    /\ UNCHANGED <<startVars, handler_channels, poller, cancelled, taskVars>>

\* Mutant of Return: main() returns as soon as the poller was joined.
ReturnEarly ==
    /\ Poller \notin set /\ Returns("join", "ok")
    /\ UNCHANGED <<startVars, mainVars, taskVars>>

Return ==
    /\ set = {} /\ Returns("join", "ok")
    /\ UNCHANGED <<startVars, mainVars, taskVars>>

MainNext ==
    \/ Parse \/ ChooseWallet \/ BuildProviders \/ ParseAddresses \/ InstallMetrics
    \/ \E s \in addresses : SpawnProcessor(s)
    \/ SpawnPoller \/ SpawnCollector
    \/ \E t \in set : JoinFirst(t) \/ JoinNext(t)
    \/ Return

-----------------------------------------------------------------------------
(***************************************************************************)
(* The tasks, for as long as the runtime lives.                            *)
(***************************************************************************)
Moves(t, from, to) ==
    /\ main # "exited" /\ task[t] = from
    /\ task' = [task EXCEPT ![t] = to]
    /\ UNCHANGED <<startVars, main, exit, mainVars>>

\* The entry of an address is of one processor; to any other nothing was ever sent.
HasEntry(s) == \E a \in DOMAIN handler_channels : handler_channels[a] = s

\* The senders moved into the poller's task, and are dropped with it.
HasSender(s) == HasEntry(s) /\ ~Ended(Poller)

RefreshReturns(s) ==
    /\ Moves(s, "starting", "running") \/ Moves(s, "starting", "error")
    /\ UNCHANGED challenging

StopProcessor(s) == cancelled /\ Moves(s, "running", "ok") /\ UNCHANGED challenging

\* A poke from the poller, or one that it left in the channel at its end.
TakePoke(s) == HasEntry(s) /\ Moves(s, "running", "calling") /\ UNCHANGED challenging

CheckReturns(s) ==
    /\ Moves(s, "calling", "running")
    /\ challenging' \in {challenging, [challenging EXCEPT ![s] = TRUE]}

ProcessorNext(s) == RefreshReturns(s) \/ TakePoke(s) \/ CheckReturns(s) \/ StopProcessor(s)

\* The poller and the processors hold clones of the token, or children of it.
PollerCancelled == cancelled /\ poller.cancellation_token = "program"

Wake == Moves(Poller, "running", "calling") /\ UNCHANGED challenging

PollReturns ==
    /\ \/ Moves(Poller, "calling", IF PollerCancelled THEN "ok" ELSE "running")
       \/ Moves(Poller, "calling", "error")
    /\ UNCHANGED challenging

StopPoller == PollerCancelled /\ Moves(Poller, "running", "ok") /\ UNCHANGED challenging

StopCollector == cancelled /\ Moves(Collector, "running", "ok") /\ UNCHANGED challenging

Panics(t) ==
    /\ Active(t) /\ Moves(t, task[t], "panic")
    /\ UNCHANGED challenging

\* A challenge task ends on its own, or because of its child token.
ChallengeEnds(s) ==
    /\ main # "exited" /\ challenging[s]
    /\ challenging' = [challenging EXCEPT ![s] = FALSE]
    /\ UNCHANGED <<startVars, main, exit, mainVars, task>>

Next ==
    \/ MainNext \/ CtrlC
    \/ \E s \in Spellings : ProcessorNext(s) \/ ChallengeEnds(s)
    \/ Wake \/ PollReturns \/ StopPoller \/ StopCollector
    \/ \E t \in Tasks : Panics(t)

Spec == Init /\ [][Next]_vars

(***************************************************************************)
(* Fairness: main() and the tasks go on when they can; select! does not    *)
(* pass the token over for ever.  RPC calls are not assumed to return, nor *)
(* anybody to press ctrl-c.                                                *)
(***************************************************************************)
Fairness ==
    /\ WF_vars(MainNext)
    /\ \A s \in Spellings : SF_vars(StopProcessor(s))
    /\ WF_vars(StopPoller) /\ WF_vars(StopCollector)

LiveSpec == Spec /\ Fairness

-----------------------------------------------------------------------------
TypeOK ==
    /\ cli \in CommandLines \cup {None}
    /\ main \in {"parse", "wallet", "providers", "addresses", "metrics", "spawn",
                 "collector", "select", "join", "exited"}
    /\ exit \in {None, "usage", "ok", "error", "panic"} /\ (exit # None <=> main = "exited")
    /\ signer \in {None, "secret", "keystore"}
    /\ given \subseteq Spellings /\ addresses \subseteq given
    /\ set \subseteq {t \in Tasks : task[t] # "none"}
    /\ task \in [Tasks -> {"none", "starting", "calling", "running"} \cup Over]
    /\ \A a \in DOMAIN handler_channels : handler_channels[a] \in given
    /\ poller # None => poller.cancellation_token \in {"own", "program"}
    /\ challenging \in [Spellings -> BOOLEAN] /\ cancelled \in BOOLEAN

(***************************************************************************)
(* While nothing has ended, every address of the command line is watched:  *)
(* the poller's channel for it leads to a living processor of that         *)
(* address, whichever spellings of it were given.                          *)
(***************************************************************************)
AddressesWatched ==
    main = "select" /\ (\A t \in set : ~Ended(t)) =>
        \A s \in given :
            /\ AddressOf[s] \in poller.addresses
            /\ LET r == poller.handler_channels[AddressOf[s]] IN
               Active(r) /\ AddressOf[r] = AddressOf[s]

(***************************************************************************)
(* A processor that lost its sender is about to be stopped, because the    *)
(* poller's end took all the senders and main() was told or will be; or    *)
(* its address was given in a spelling that sorts after its own.  So only  *)
(* the removal of duplicates as strings makes a processor deaf for as long *)
(* as the program runs, and the last spelling of an address never is.      *)
(***************************************************************************)
OnlyDuplicatesStayDeaf ==
    main # "exited" => \A s \in Spellings : task[s] # "none" /\ ~HasSender(s) =>
        \/ cancelled
        \/ Ended(Poller) /\ Poller \in set
        \/ \E r \in given : AddressOf[r] = AddressOf[s] /\ r > s

(***************************************************************************)
(* main() returns only after all its tasks, unless one panicked, and never *)
(* leaves a challenge behind whose token is not cancelled.  The set is not *)
(* empty when main() waits for its first task: there is always a task to   *)
(* shut the others down.                                                   *)
(***************************************************************************)
NobodyLeftBehind ==
    /\ exit = "ok" => cancelled /\ \A t \in Tasks : ~Active(t)
    /\ main = "exited" /\ (\E t \in Tasks : Active(t)) => \E t \in Tasks : task[t] = "panic"
    /\ main = "exited" /\ (\E s \in Spellings : challenging[s]) => cancelled
    /\ main = "select" => {Poller, Collector} \subseteq set

(***************************************************************************)
(* Whichever task ends first, and however, and on ctrl-c, the program      *)
(* comes to its end, if no RPC call hangs for ever.                        *)
(***************************************************************************)
ProgramEnds ==
    (\A t \in Tasks : []<>~InCall(t))
        => (cancelled \/ \E t \in Tasks : Ended(t)) ~> (main = "exited")

(***************************************************************************)
(* "Received None event, stopping contract handler": a processor whose     *)
(* sender was dropped, because its address was given in another spelling   *)
(* too, stops.                                                             *)
(***************************************************************************)
SenderlessStop ==
    \A s \in Spellings :
        (task[s] = "running" /\ ~HasEntry(s)) ~> (Ended(s) \/ main = "exited")

=============================================================================
