------------------------------ MODULE LogFeed -------------------------------
(***************************************************************************)
(* What the poller of crates/scribe/src/events_poller.rs promises to the   *)
(* processors, without chunks, sub-ranges, retries and channels: the logs  *)
(* of each contract are handed over in the order of the chain, from the    *)
(* cursor on; a poll that fails begins again at the cursor; the cursor     *)
(* moves over a block only after all its logs were handed over.            *)
(***************************************************************************)
EXTENDS Integers, Sequences

CONSTANTS Contracts, Kinds

VARIABLES
    chain,      \* the logs of the watched contracts, in chain order
    head,       \* the last sealed block
    receiving,  \* per contract, whether somebody takes its logs
    cursor,     \* last_processes_block: the first block not yet done with
    handed,     \* the logs the poll in progress is done with
    sent        \* the logs that were ever handed over

vars == <<chain, head, receiving, cursor, handed, sent>>

\* The log p may come next: its contract's logs before it have come.
InTurn(p) ==
    /\ p \notin handed /\ cursor < head
    /\ cursor <= chain[p].block /\ chain[p].block <= head
    /\ \A q \in DOMAIN chain :
          /\ chain[q].address = chain[p].address
          /\ cursor <= chain[q].block /\ q < p
          => q \in handed

Wanted(p) == chain[p].kind # "malformed" /\ receiving[chain[p].address]

Hand(p) ==
    /\ Wanted(p) /\ sent' = sent \cup {p}
    /\ InTurn(p) /\ handed' = handed \cup {p}
    /\ UNCHANGED <<chain, head, receiving, cursor>>

Skip(p) ==
    /\ ~Wanted(p)
    /\ InTurn(p) /\ handed' = handed \cup {p}
    /\ UNCHANGED <<chain, head, receiving, cursor, sent>>

\* The poll fails, or gives up: what it handed over will be handed over again.
Rewind ==
    /\ handed' = {}
    /\ UNCHANGED <<chain, head, receiving, cursor, sent>>

Commit(b) ==
    /\ cursor' = b + 1
    /\ \A p \in DOMAIN chain :
          cursor <= chain[p].block => (chain[p].block <= b <=> p \in handed)
    /\ handed' = {}
    /\ UNCHANGED <<chain, head, receiving, sent>>

\* The first poll chooses where to begin.
First ==
    /\ cursor = 0 /\ handed = {}
    /\ cursor' \in Nat
    /\ UNCHANGED <<chain, head, receiving, handed, sent>>

Mine(a, k) ==
    /\ chain' = Append(chain, [address |-> a, block |-> head + 1, kind |-> k])
    /\ UNCHANGED <<head, receiving, cursor, handed, sent>>

Seal == head' = head + 1 /\ UNCHANGED <<chain, receiving, cursor, handed, sent>>

Close(a) ==
    /\ receiving' = [receiving EXCEPT ![a] = FALSE]
    /\ UNCHANGED <<chain, head, cursor, handed, sent>>

Init ==
    /\ chain = <<>> /\ head \in Nat /\ cursor \in Nat
    /\ receiving = [a \in Contracts |-> TRUE]
    /\ handed = {} /\ sent = {}

Next ==
    \/ Seal
    \/ \E a \in Contracts : Close(a) \/ \E k \in Kinds : Mine(a, k)
    \/ \E p \in DOMAIN chain : Hand(p) \/ Skip(p)
    \/ \E b \in (cursor + 1) .. head : Commit(b)
    \/ First \/ Rewind

Spec == Init /\ [][Next]_vars

=============================================================================
