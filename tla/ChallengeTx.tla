----------------------------- MODULE ChallengeTx -----------------------------
(***************************************************************************)
(* ScribeContract::challenge of crates/scribe/src/contract.rs: one call    *)
(* sends opChallenge by the private mempool, and when that fails by the    *)
(* public one.  The calls of all contracts sign with the same account.     *)
(*                                                                         *)
(* The mempools, the chain and other challengers are the environment.      *)
(***************************************************************************)
EXTENDS Integers

CONSTANTS
    Calls,      \* the calls of challenge
    Pokes,      \* what they challenge
    HasPrivate, \* --flashbot-rpc-url is given
    MaxNonce,   \* bound: above the nonce of any transaction
    None

ASSUME ChallengeTxAssumption == HasPrivate \in BOOLEAN /\ MaxNonce \in Nat /\ None \notin Int

VARIABLES
    poke,          \* the poke each call challenges
    standing,      \* per poke, whether opChallenge on it would succeed
    account_nonce, \* the next nonce of the signer on the chain
    pool,          \* signed transactions that are not on the chain
    mined,         \* transactions on the chain
    pc, nonce,     \* per call, where it is, and the nonce of its transaction
    \* history
    faulty,        \* calls that met an RPC error
    raced          \* calls whose nonce another call of the program used

callVars  == <<pc, nonce>>
chainVars == <<standing, account_nonce, mined>>
vars == <<poke, chainVars, pool, callVars, faulty, raced>>

-----------------------------------------------------------------------------

Nonces == 0 .. MaxNonce
Tx == [call : Calls, nonce : Nonces, private : BOOLEAN]

Ended == {"ok", "failed", "dropped"}
Steps == {"fill", "send_raw", "watch", "receipt", "nonce", "send", "watch_public"}
Live(c) == pc[c] \in Steps
Stands(c) == standing[poke[c]]

TxOf(c, private) == [call |-> c, nonce |-> nonce[c], private |-> private]
Mined(t) == \E m \in mined : m.tx = t
PublicPool == {t \in pool : ~t.private}

\* The nonces from account_nonce up to n are those of transactions of S.
Follows(n, S) ==
    /\ n >= account_nonce
    /\ \A k \in account_nonce .. n - 1 : \E t \in S : t.nonce = k

NonceFree(n) == n >= account_nonce /\ \A t \in PublicPool : t.nonce # n

Init ==
    /\ poke \in [Calls -> Pokes] /\ standing = [p \in Pokes |-> TRUE]
    /\ account_nonce = 0 /\ pool = {} /\ mined = {}
    /\ pc = [c \in Calls |-> "idle"] /\ nonce = [c \in Calls |-> None]
    /\ faulty = {} /\ raced = {}

-----------------------------------------------------------------------------
\* The call goes on at the step to, with n as its nonce.
Go(c, to, n) ==
    /\ pc' = [pc EXCEPT ![c] = to] /\ nonce' = [nonce EXCEPT ![c] = n]
    /\ UNCHANGED <<poke, chainVars>>

\* Mutant of FallBack: the nonce of the private transaction is kept.
FallBackKeepsNonce(c) == Go(c, "nonce", nonce[c])

\* Any error of challenge_with_flashbots: challenge tries the public mempool.
FallBack(c) == Go(c, "nonce", None)

\* An error of challenge_with_public is the result of the call.
Fail(c) == Go(c, "failed", None)

(***************************************************************************)
(* The processor spawns the challenge of a poke after the one before it    *)
(* ended or was cancelled.  Without a private provider                     *)
(* challenge_with_flashbots returns at once.                               *)
(***************************************************************************)
Challenge(c) ==
    /\ pc[c] = "idle"
    /\ \A d \in Calls : poke[d] = poke[c] => ~Live(d)
    /\ IF HasPrivate THEN Go(c, "fill", None) ELSE FallBack(c)
    /\ UNCHANGED <<pool, faulty, raced>>

(***************************************************************************)
(* private_provider.fill: the gas estimate fails when opChallenge would    *)
(* revert; the nonce is what the private endpoint takes for the next one,  *)
(* whether or not it counts what is pending.                               *)
(***************************************************************************)
Fill(c, n) ==
    /\ pc[c] = "fill" /\ Stands(c)
    /\ Follows(n, pool)
    /\ Go(c, "send_raw", n)
    /\ UNCHANGED <<pool, faulty, raced>>

FillReverts(c) ==
    /\ pc[c] = "fill" /\ ~Stands(c)
    /\ FallBack(c)
    /\ UNCHANGED <<pool, faulty, raced>>

SendRaw(c) ==
    /\ pc[c] = "send_raw" /\ nonce[c] >= account_nonce
    /\ pool' = pool \cup {TxOf(c, TRUE)}
    /\ Go(c, "watch", nonce[c])
    /\ UNCHANGED <<faulty, raced>>

\* The relay turns the transaction away: its nonce is used up.
SendRawRejected(c) ==
    /\ pc[c] = "send_raw" /\ nonce[c] < account_nonce
    /\ FallBack(c)
    /\ UNCHANGED <<pool, faulty, raced>>

\* watch() waits until the transaction is on the chain, whatever its status.
Watched(c) ==
    /\ pc[c] = "watch" /\ Mined(TxOf(c, TRUE))
    /\ Go(c, "ok", None)
    /\ UNCHANGED <<pool, faulty, raced>>

\* Mutant of WatchFails: the public mempool without looking for the receipt.
WatchFailsBlindly(c) ==
    /\ pc[c] = "watch"
    /\ FallBack(c)
    /\ UNCHANGED <<pool, faulty, raced>>

\* TX_CONFIRMATION_TIMEOUT, which the transaction may meet on the chain.
WatchFails(c) ==
    /\ pc[c] = "watch"
    /\ Go(c, "receipt", nonce[c])
    /\ UNCHANGED <<pool, faulty, raced>>

\* Mutant of ReceiptFound: any answer is taken for the receipt.
ReceiptTakenForGranted(c) ==
    /\ pc[c] = "receipt"
    /\ Go(c, "ok", None)
    /\ UNCHANGED <<pool, faulty, raced>>

ReceiptFound(c) ==
    /\ pc[c] = "receipt" /\ Mined(TxOf(c, TRUE))
    /\ Go(c, "ok", None)
    /\ UNCHANGED <<pool, faulty, raced>>

\* Mutant of ReceiptMissing: the call ends without the public mempool.
ReceiptMissingFails(c) ==
    /\ pc[c] = "receipt" /\ ~Mined(TxOf(c, TRUE))
    /\ Fail(c)
    /\ UNCHANGED <<pool, faulty, raced>>

ReceiptMissing(c) ==
    /\ pc[c] = "receipt" /\ ~Mined(TxOf(c, TRUE))
    /\ FallBack(c)
    /\ UNCHANGED <<pool, faulty, raced>>

\* Mutant of FetchNonce: the private endpoint is asked, which counts its own pool.
FetchNonceOfPrivate(c, n) ==
    /\ pc[c] = "nonce"
    /\ Follows(n, pool) /\ NonceFree(n)
    /\ Go(c, "send", n)
    /\ UNCHANGED <<pool, faulty, raced>>

(***************************************************************************)
(* challenge_with_public: the pending nonce, then send, whose gas estimate *)
(* fails when opChallenge would revert and which the node refuses when the *)
(* nonce is used up or another transaction waits with it.                  *)
(***************************************************************************)
FetchNonce(c, n) ==
    /\ pc[c] = "nonce"
    /\ Follows(n, PublicPool) /\ NonceFree(n)
    /\ Go(c, "send", n)
    /\ UNCHANGED <<pool, faulty, raced>>

Send(c) ==
    /\ pc[c] = "send" /\ Stands(c) /\ NonceFree(nonce[c])
    /\ pool' = pool \cup {TxOf(c, FALSE)}
    /\ Go(c, "watch_public", nonce[c])
    /\ UNCHANGED <<faulty, raced>>

SendReverts(c) ==
    /\ pc[c] = "send" /\ ~Stands(c)
    /\ Fail(c)
    /\ UNCHANGED <<pool, faulty, raced>>

SendRejected(c) ==
    /\ pc[c] = "send" /\ Stands(c) /\ ~NonceFree(nonce[c])
    /\ Fail(c)
    /\ raced' = raced \cup {c}
    /\ UNCHANGED <<pool, faulty>>

WatchedPublic(c) ==
    /\ pc[c] = "watch_public" /\ Mined(TxOf(c, FALSE))
    /\ Go(c, "ok", None)
    /\ UNCHANGED <<pool, faulty, raced>>

\* Mutant of WatchPublicFails: watch() without a time-out.
WatchPublicWaits(c) ==
    /\ pc[c] = "watch_public" /\ Mined(TxOf(c, FALSE))
    /\ Fail(c)
    /\ UNCHANGED <<pool, faulty, raced>>

WatchPublicFails(c) ==
    /\ pc[c] = "watch_public"
    /\ Fail(c)
    /\ UNCHANGED <<pool, faulty, raced>>

(***************************************************************************)
(* An RPC error at a call of the provider.  A transaction may have reached *)
(* the mempool although the answer to its sender was lost.                 *)
(***************************************************************************)
PrivateError(c) ==
    /\ pc[c] \in {"fill", "send_raw", "receipt"}
    /\ pool' \in IF pc[c] = "send_raw" THEN {pool, pool \cup {TxOf(c, TRUE)}} ELSE {pool}
    /\ FallBack(c)
    /\ faulty' = faulty \cup {c}
    /\ UNCHANGED raced

PublicError(c) ==
    /\ pc[c] \in {"nonce", "send"}
    /\ pool' \in IF pc[c] = "send" /\ NonceFree(nonce[c])
                 THEN {pool, pool \cup {TxOf(c, FALSE)}} ELSE {pool}
    /\ Fail(c)
    /\ faulty' = faulty \cup {c}
    /\ UNCHANGED raced

\* The task's token is cancelled: the call is dropped where it awaits.
Drop(c) ==
    /\ Live(c)
    /\ Go(c, "dropped", None)
    /\ UNCHANGED <<pool, faulty, raced>>

CallStep(c) ==
    \/ \E n \in Nonces : Fill(c, n) \/ FetchNonce(c, n)
    \/ FillReverts(c) \/ SendRaw(c) \/ SendRawRejected(c)
    \/ Watched(c) \/ WatchFails(c) \/ ReceiptFound(c) \/ ReceiptMissing(c)
    \/ Send(c) \/ SendReverts(c) \/ SendRejected(c)
    \/ WatchedPublic(c) \/ WatchPublicFails(c)
    \/ PrivateError(c) \/ PublicError(c)

-----------------------------------------------------------------------------
(***************************************************************************)
(* The environment: a block takes the transaction with the next nonce,     *)
(* which reverts if its poke does not stand any more, and (an assumption:  *)
(* the estimate of its gas suffices) only then; the relay forgets a        *)
(* transaction; a poke is challenged by somebody else, or its period ends. *)
(***************************************************************************)
Include(t) ==
    /\ t \in pool /\ t.nonce = account_nonce
    /\ account_nonce' = account_nonce + 1
    /\ pool' = {u \in pool : u.nonce # t.nonce}
    /\ mined' = mined \cup {[tx |-> t, during |-> pc[t.call], success |-> Stands(t.call)]}
    /\ standing' = [standing EXCEPT ![poke[t.call]] = FALSE]
    /\ raced' = raced \cup {u.call : u \in {v \in PublicPool : /\ v.nonce = t.nonce
                                                                /\ v.call # t.call}}
    /\ UNCHANGED <<poke, callVars, faulty>>

ForgetPrivate(t) ==
    /\ t \in pool /\ t.private
    /\ pool' = pool \ {t}
    /\ UNCHANGED <<poke, chainVars, callVars, faulty, raced>>

Settle(c) ==
    /\ Stands(c)
    /\ standing' = [standing EXCEPT ![poke[c]] = FALSE]
    /\ UNCHANGED <<poke, account_nonce, mined, pool, callVars, faulty, raced>>

Next ==
    \/ \E c \in Calls : Challenge(c) \/ CallStep(c) \/ Drop(c) \/ Settle(c)
    \/ \E t \in pool : Include(t) \/ ForgetPrivate(t)

Spec == Init /\ [][Next]_vars

(***************************************************************************)
(* Fairness.  A call goes on: watch() has a time-out, and RPC calls are    *)
(* assumed to return, with an answer or an error; the code does not time   *)
(* them, and Processor, where a call may hang, does not rely on it.        *)
(* A transaction in the public mempool whose nonce is the next is mined in *)
(* the end.  The relay promises nothing.                                   *)
(***************************************************************************)
Fairness ==
    /\ \A c \in Calls : WF_vars(CallStep(c))
    /\ \A c \in Calls, n \in Nonces :
          WF_vars(Include([call |-> c, nonce |-> n, private |-> FALSE]))

LiveSpec == Spec /\ Fairness

-----------------------------------------------------------------------------
MinedTx == [tx : Tx, during : Steps \cup Ended \cup {"idle"}, success : BOOLEAN]

TypeOK ==
    /\ poke \in [Calls -> Pokes] /\ standing \in [Pokes -> BOOLEAN]
    /\ account_nonce \in Nat
    /\ pool \subseteq Tx /\ mined \subseteq MinedTx
    /\ pc \in [Calls -> Steps \cup Ended \cup {"idle"}]
    /\ nonce \in [Calls -> Nonces \cup {None}]
    /\ \A c \in Calls : nonce[c] # None
          <=> pc[c] \in {"send_raw", "watch", "receipt", "send", "watch_public"}
    /\ faulty \subseteq Calls /\ raced \subseteq Calls

(***************************************************************************)
(* When challenge returns a hash, the poke does not stand any more: it was *)
(* challenged by this call, or by somebody else, or its period is over.    *)
(***************************************************************************)
OkMeansSettled == \A c \in Calls : pc[c] = "ok" => ~Stands(c)

Owned(c) == {t \in pool \cup {m.tx : m \in mined} : t.call = c}

\* The private transaction of c was mined while c still looked for it.
MinedInTime(c) ==
    \E m \in mined : m.tx.call = c /\ m.tx.private /\ m.during \in {"watch", "receipt"}

LookupInv(c) ==
    MinedInTime(c) => /\ pc[c] \in {"watch", "receipt", "ok", "dropped"}
                      /\ \A t \in Owned(c) : t.private

(***************************************************************************)
(* A call without RPC errors whose private transaction was mined while it  *)
(* looked for it (at the latest when it asked for the receipt) neither     *)
(* fails nor sends a public one ("TxWatcher(Timeout) does NOT guarantee    *)
(* the tx was dropped ... Fetch the receipt before falling back").         *)
(***************************************************************************)
NoNeedlessFallback == \A c \in Calls \ faulty : LookupInv(c)

(***************************************************************************)
(* No transaction in the public mempool waits for a nonce that none there  *)
(* has: "explicitly fetch the pending nonce to avoid the stale latest      *)
(* nonce", so that it does not depend on what the relay does either.       *)
(***************************************************************************)
NothingStuck == \A t \in PublicPool : Follows(t.nonce, PublicPool)

\* The public transaction of c waits, or the poke of c does not stand any more.
OnItsWay(c) == ~Stands(c) \/ \E t \in PublicPool : t.call = c

(***************************************************************************)
(* challenge gives a poke up only when an RPC call failed or another call  *)
(* of the program took its nonce.  Any other error it returns, whatever    *)
(* the relay did and however its timers raced, is of a poke that fell, or  *)
(* whose public transaction is on its way.                                 *)
(***************************************************************************)
FailuresHaveCause ==
    \A c \in Calls \ (faulty \cup raced) : pc[c] = "failed" => OnItsWay(c)

(***************************************************************************)
(* challenge returns, even if no transaction is ever mined, provided that  *)
(* no RPC call inside of it hangs for ever.                                *)
(***************************************************************************)
CallEnds == \A c \in Calls : Live(c) ~> ~Live(c)

(***************************************************************************)
(* A call that is not cancelled and meets no RPC error brings its poke     *)
(* down, unless another call of the program takes its nonce.               *)
(***************************************************************************)
PokeFallsOrRaced ==
    \A c \in Calls :
        Live(c) ~> (~Stands(c) \/ pc[c] = "dropped" \/ c \in faulty \/ c \in raced)

(***************************************************************************)
(* "Verifies poke schnorr signature and challenges it, if it's invalid":   *)
(* a call that is not cancelled and meets no RPC error brings its poke     *)
(* down.                                                                   *)
(***************************************************************************)
PokeFalls ==
    \A c \in Calls : Live(c) ~> (~Stands(c) \/ pc[c] = "dropped" \/ c \in faulty)

(***************************************************************************)
(* "returns transaction hash if everything worked well": the transaction   *)
(* of a call that returned a hash did not revert.                          *)
(***************************************************************************)
OkMeansChallenged ==
    \A c \in Calls : pc[c] = "ok" => \E m \in mined : m.tx.call = c /\ m.success

-----------------------------------------------------------------------------
(***************************************************************************)
(* The inductive invariants: SettledInv for OkMeansSettled, CallInv for    *)
(* NoNeedlessFallback, NonceInv for NothingStuck, CauseInv for             *)
(* FailuresHaveCause.                                                      *)
(***************************************************************************)
SettledInv == OkMeansSettled /\ \A m \in mined : ~Stands(m.tx.call)

\* What was sent for c, where c is now.
OwnedInv(c) ==
    /\ pc[c] \in {"idle", "fill", "send_raw"} => Owned(c) = {}
    /\ \A t \in Owned(c) :
          IF t.private
          THEN pc[c] \in {"watch", "receipt"} => t.nonce = nonce[c]
          ELSE pc[c] \in {"watch_public"} \cup Ended

CallInv == NoNeedlessFallback /\ \A c \in Calls \ faulty : OwnedInv(c)

\* The nonce a call was told stays good until it is used.
NonceInv ==
    /\ NothingStuck
    /\ \A c \in Calls : pc[c] = "send" /\ nonce[c] >= account_nonce
                          => Follows(nonce[c], PublicPool)

CauseInv ==
    \A c \in Calls \ (faulty \cup raced) :
        pc[c] \in {"watch_public", "failed"} => OnItsWay(c)

=============================================================================
