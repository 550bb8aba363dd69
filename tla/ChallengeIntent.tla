--------------------------- MODULE ChallengeIntent ---------------------------
(***************************************************************************)
(* What a processor of one contract promises about the challenges it       *)
(* begins: the comment above ScribeEventsProcessor in                      *)
(* crates/scribe/src/event_processor.rs, without tasks, delays and tokens. *)
(*                                                                         *)
(* There is at most one poke that it wants to challenge.  A poke found     *)
(* challengeable takes the place of the one before; a successful challenge *)
(* by somebody withdraws it; beginning the challenge uses it up; after the *)
(* program is closed there is none any more.                               *)
(***************************************************************************)
EXTENDS Naturals

CONSTANTS Pokes, None

VARIABLES want,    \* the poke to challenge, or None
          closed,
          begun    \* per poke, how often its challenge was begun

Init == want = None /\ closed = FALSE /\ begun = [p \in Pokes |-> 0]

Want(p) == ~closed /\ want' = p /\ UNCHANGED <<closed, begun>>

Withdraw == want' = None /\ UNCHANGED <<closed, begun>>

Begin(p) == /\ want = p
            /\ want' = None /\ begun' = [begun EXCEPT ![p] = @ + 1]
            /\ UNCHANGED closed

Close == closed' = TRUE /\ want' = None /\ UNCHANGED begun

Next == (\E p \in Pokes : Want(p) \/ Begin(p)) \/ Withdraw \/ Close

Spec == Init /\ [][Next]_<<want, closed, begun>>

=============================================================================
