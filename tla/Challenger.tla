----------------------------- MODULE Challenger -----------------------------
(***************************************************************************)
(* One contract end to end: the logs that the poller hands over (LogFeed), *)
(* the processor and its challenge tasks (Processor), and between them     *)
(* is_op_poke_challengeable of crates/scribe/src/contract.rs, which judges *)
(* a poke by its age and its signature in three calls to a node while time *)
(* goes on and the owner of the contract may change the challenge period.  *)
(*                                                                         *)
(* A poke is the position of its log.  Time is counted in blocks: a block  *)
(* is sealed at its own number, and the local clock is offset from that,   *)
(* by any number of blocks, ahead or behind: only differences matter.      *)
(***************************************************************************)
EXTENDS Processor

CONSTANTS
    Contract,
    Kinds,      \* of logs: "valid" and "invalid" are OpPoked by its signature
    U64,        \* the modulus of u64 arithmetic
    Offsets,    \* what the local clock may be ahead of the chain by, or behind if negative
    Periods,    \* what the owner may set the challenge period to
    MaxLogs, MaxHead, MaxRewinds   \* bounds on the environment

ASSUME ChallengerAssumption ==
    /\ MaxLogs \in Nat /\ MaxHead \in Nat \ {0} /\ MaxRewinds \in Nat
    /\ Pokes = 1 .. MaxLogs
    /\ Kinds \subseteq {"valid", "invalid", "challenged", "malformed"}
    /\ Offsets \subseteq Int /\ Periods \subseteq Nat
    /\ None \notin {"age", "message", "signature"}
    /\ U64 \in Nat /\ \A o \in Offsets : MaxHead + o < U64

VARIABLES
    \* the chain, and the poller as LogFeed has it
    chain, head, cursor, handed, sent,
    period,     \* the challenge period of the contract
    offset,
    check,      \* what is_op_poke_challengeable waits for
    \* history
    fate,       \* per poke, how its last check ended
    rewinds     \* polls that failed after they had handed something over

feedVars == <<chain, head, cursor, handed, sent, rewinds>>
worldVars == <<period, offset>>
checkVars == <<check, fate>>
systemVars == <<vars, feedVars, worldVars, checkVars>>

Feed == INSTANCE LogFeed WITH Contracts <- {Contract},
                              receiving <- [a \in {Contract} |-> pc \notin Ended]

-----------------------------------------------------------------------------
(***************************************************************************)
(* Event::try_from: by its first topic a log is an OpPoked or an           *)
(* OpPokeChallengedSuccessfully; any other log, and one whose data do not  *)
(* decode, is an error.                                                    *)
(***************************************************************************)
TryFrom(p) == IF chain[p].kind = "challenged" THEN None ELSE p

\* Mutant of SendLog: the logs of an answer are sent in any order.
SendLogInAnyOrder(p) ==
    /\ chain[p].kind # "malformed" /\ p \notin handed
    /\ cursor <= chain[p].block /\ chain[p].block <= head
    /\ Deliver(TryFrom(p))
    /\ handed' = handed \cup {p} /\ sent' = sent \cup {p}
    /\ UNCHANGED <<chain, head, cursor, rewinds, worldVars, checkVars>>

SendLog(p) ==
    /\ Deliver(TryFrom(p)) /\ Feed!Hand(p)
    /\ UNCHANGED <<rewinds, worldVars, checkVars>>

SkipLog(p) ==
    /\ UNCHANGED <<vars, rewinds, worldVars, checkVars>>
    /\ Feed!Skip(p)

PollFails ==
    /\ handed # {} /\ rewinds < MaxRewinds
    /\ UNCHANGED <<vars, worldVars, checkVars>>
    /\ Feed!Rewind /\ rewinds' = rewinds + 1

\* Mutant of FinishPoll: the cursor moves on although logs are left.
FinishPollEarly ==
    /\ cursor < head /\ cursor' = head + 1 /\ handed' = {}
    /\ UNCHANGED <<vars, chain, head, sent, rewinds, worldVars, checkVars>>

FinishPoll ==
    /\ UNCHANGED <<vars, rewinds, worldVars, checkVars>>
    /\ \E b \in (cursor + 1) .. head : Feed!Commit(b)

FeedNext == (\E p \in DOMAIN chain : SendLog(p) \/ SkipLog(p)) \/ PollFails \/ FinishPoll

-----------------------------------------------------------------------------
(***************************************************************************)
(* is_op_poke_challengeable.                                               *)
(***************************************************************************)
CheckPoke ==
    /\ ReceivePoke
    /\ check' = "age"
    /\ UNCHANGED <<feedVars, worldVars, fate>>

\* Mutant of IsLogStale: the last block of the period is outside of it.
IsLogStaleAtPeriod(p) ==
    (head + offset - chain[p].block) % U64 >= challenge_period

\* chrono::Utc::now() less the block's time, in u64, against the period.
IsLogStale(p) ==
    (head + offset - chain[p].block) % U64 > challenge_period

\* Mutants of EndCheck: the processor still waits; a poke that cannot be checked is challenged.
EndCheckWaits(verdict) ==
    /\ IF verdict = "challengeable" THEN Challengeable ELSE NotChallengeable
    /\ fate' = [fate EXCEPT ![event] = verdict]
    /\ UNCHANGED <<check, feedVars, worldVars>>

EndCheckRashly(verdict) ==
    /\ IF verdict \in {"challengeable", "failed"} THEN Challengeable ELSE NotChallengeable
    /\ check' = None /\ fate' = [fate EXCEPT ![event] = verdict]
    /\ UNCHANGED <<feedVars, worldVars>>

EndCheck(verdict) ==
    /\ IF verdict = "challengeable" THEN Challengeable ELSE NotChallengeable
    /\ check' = None /\ fate' = [fate EXCEPT ![event] = verdict]
    /\ UNCHANGED <<feedVars, worldVars>>

WaitFor(call) ==
    /\ check' = call
    /\ UNCHANGED <<vars, feedVars, worldVars, fate>>

\* The log has a time-stamp, or the block it names has one.
JudgeAge ==
    /\ check = "age"
    /\ IF IsLogStale(event) THEN EndCheck("stale") ELSE WaitFor("message")

MessageConstructed == check = "message" /\ WaitFor("signature")

JudgeSignature ==
    /\ check = "signature"
    /\ EndCheck(IF chain[event].kind = "valid" THEN "valid" ELSE "challengeable")

\* The log has neither time-stamp nor block, the node does not have the
\* block, or one of the calls fails.
CheckFails == check # None /\ EndCheck("failed")

CheckNext == JudgeAge \/ MessageConstructed \/ JudgeSignature \/ CheckFails

-----------------------------------------------------------------------------
(***************************************************************************)
(* The steps of Processor that concern neither the logs nor the check.     *)
(* A call of contract.challenge is the subject of ChallengeTx; that one    *)
(* returns changes nothing here, so none is seen to return.                *)
(***************************************************************************)
ProcessorStep ==
    /\ \/ RefreshChallengePeriod \/ RefreshFails \/ StopOnCancel
       \/ ReceiveChallenged
       \/ \E t \in DOMAIN tasks : DelayOver(t) \/ CancelTask(t)
       \/ Cancel
    /\ UNCHANGED <<feedVars, worldVars, checkVars>>

(***************************************************************************)
(* The contract takes a poke when none is in its challenge period, and is  *)
(* challenged successfully, by anybody, for an invalid one.                *)
(***************************************************************************)
Standing(p) == /\ chain[p].kind \in {"valid", "invalid"}
               /\ \A q \in DOMAIN chain : q > p => chain[q].kind = "malformed"

Accepts(k) ==
    CASE k \in {"valid", "invalid"} ->
            \A p \in DOMAIN chain : Standing(p) => chain[p].block + period < head + 1
      [] k = "challenged" ->
            \E p \in DOMAIN chain : Standing(p) /\ chain[p].kind = "invalid"
      [] OTHER -> TRUE

\* A bound: what happens on the chain after the processor's end is left out.
Watched == ~cancelled /\ pc \notin Ended

MineLog(k) ==
    /\ Watched /\ Len(chain) < MaxLogs /\ head < MaxHead /\ Accepts(k)
    /\ UNCHANGED <<vars, rewinds, worldVars, checkVars>>
    /\ Feed!Mine(Contract, k)

SealBlock ==
    /\ Watched /\ head < MaxHead
    /\ UNCHANGED <<vars, rewinds, worldVars, checkVars>>
    /\ Feed!Seal

\* Period is by definition what the processor's start finds.
OwnerChangesPeriod ==
    /\ Watched /\ pc # "starting" /\ period = Period
    /\ period' \in Periods \ {period}
    /\ UNCHANGED <<vars, feedVars, offset, checkVars>>

SystemInit ==
    /\ Init
    /\ chain = <<>> /\ head = 1 /\ cursor = 1 /\ handed = {} /\ sent = {}
    /\ period = Period /\ offset \in Offsets
    /\ check = None /\ fate = [p \in Pokes |-> None] /\ rewinds = 0

SystemNext ==
    \/ FeedNext \/ CheckPoke \/ CheckNext \/ ProcessorStep
    \/ \E k \in Kinds : MineLog(k)
    \/ SealBlock \/ OwnerChangesPeriod

System == SystemInit /\ [][SystemNext]_systemVars

-----------------------------------------------------------------------------
Log == [address : {Contract}, block : Nat, kind : Kinds]

SystemTypeOK ==
    /\ TypeOK
    /\ chain \in Seq(Log) /\ Len(chain) <= MaxLogs
    /\ head \in 1 .. MaxHead /\ cursor \in Nat
    /\ handed \subseteq DOMAIN chain /\ sent \subseteq DOMAIN chain
    /\ period \in Periods \cup {Period} /\ offset \in Offsets
    /\ check \in {None, "age", "message", "signature"}
    /\ check # None <=> pc = "checking"
    /\ fate \in [Pokes -> {None, "stale", "valid", "failed", "challengeable"}]
    /\ rewinds \in 0 .. MaxRewinds

(***************************************************************************)
(* Only a poke whose signature is bad is challenged, whatever is handed    *)
(* over again, fails or races on the way from its log to its task.         *)
(***************************************************************************)
ChallengesAreJustified ==
    \A p \in Pokes : begun[p] > 0 => p \in DOMAIN chain /\ chain[p].kind = "invalid"

(***************************************************************************)
(* Without a poll that failed half-way, a poke is challenged once at most, *)
(* and never after a later poke of the contract was; each such failure may *)
(* bring it back once.                                                     *)
(***************************************************************************)
RepeatNeedsRewind ==
    /\ \A p \in Pokes : begun[p] <= 1 + rewinds
    /\ rewinds = 0 => \A t, u \in DOMAIN tasks : t < u => tasks[t].poke < tasks[u].poke

(***************************************************************************)
(* Once the processor has taken the success that answers a poke from its   *)
(* channel, a challenge of this poke does not begin any more, unless a     *)
(* poll failed and the poke was handed over again.                         *)
(***************************************************************************)
TakenSuccessAfter(p) ==
    /\ \A i \in DOMAIN queue : queue[i] # None
    /\ \E s \in sent : s > p /\ chain[s].kind = "challenged"

SuccessIsFinal ==
    [][\A p \in Pokes : begun'[p] > begun[p] /\ rewinds = 0 => ~TakenSuccessAfter(p)]_systemVars

(***************************************************************************)
(* "Checks if the log is stale, i.e. if the event is outside of the        *)
(* challenge period": with the clock of the chain and the contract's own   *)
(* period the verdict is right.  A clock that is behind a block's time     *)
(* makes the poke of that block stale (the subtraction wraps); one that is *)
(* ahead shortens the period, one that is behind prolongs it.              *)
(***************************************************************************)
Age(p) == head - chain[p].block

AgeIsJudged ==
    [][check = "age" /\ check' # check /\ fate'[event] # "failed" /\ period = Period =>
         IF check' = None
         THEN Age(event) > period \/ offset > 0 \/ Age(event) + offset < 0
         ELSE Age(event) <= period \/ offset < 0]_systemVars

(***************************************************************************)
(* No poke is lost between the chain and its challenge.  An invalid poke   *)
(* that the cursor has passed is on its way to the check, or the check     *)
(* failed or came too late, or it is challenged, or about to be, or        *)
(* another event of the contract has overtaken it.                         *)
(***************************************************************************)
OnItsWay(p) == event = p \/ \E i \in DOMAIN queue : queue[i] = p

Challenged(p) ==
    \/ begun[p] > 0
    \/ \E t \in DOMAIN tasks :
          tasks[t].poke = p /\ tasks[t].phase = "delay" /\ ~IsCancelled(t)

Overtaken(p) == \E q \in sent : q > p

NoPokeForgotten ==
    Watched => \A p \in DOMAIN chain :
        chain[p].kind = "invalid" /\ chain[p].block < cursor =>
            \/ OnItsWay(p) \/ Challenged(p) \/ Overtaken(p)
            \/ fate[p] \in {"stale", "failed"}

=============================================================================
