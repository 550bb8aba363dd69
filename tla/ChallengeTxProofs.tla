-------------------------- MODULE ChallengeTxProofs --------------------------
(***************************************************************************)
(* Proofs about ChallengeTx, for any set of calls and pokes, with or       *)
(* without a private endpoint.                                             *)
(***************************************************************************)
EXTENDS ChallengeTx, TLAPS

WithNonce == {"send_raw", "watch", "receipt", "send", "watch_public"}
Phases == Steps \cup Ended \cup {"idle"}

\* An action of a call moves it to some step, and adds at most its own transaction.
Moves(c, to, n, added) ==
    /\ Go(c, to, n)
    /\ to \in Steps \cup Ended /\ n \in Nonces \cup {None} /\ (n # None <=> to \in WithNonce)
    /\ pool' = pool \cup added /\ (added = {} \/ \E b \in BOOLEAN : added = {TxOf(c, b)})
    /\ nonce[c] \in Nonces \/ added = {}

LEMMA NonceTyped ==
    ASSUME TypeOK, NEW c \in Calls, pc[c] \in WithNonce
    PROVE  nonce[c] \in Nonces
BY DEF TypeOK, WithNonce

LEMMA NoneIsNoNonce == None \notin Nonces
BY ChallengeTxAssumption DEF Nonces

LEMMA StepIsMove ==
    ASSUME TypeOK, NEW c \in Calls, Challenge(c) \/ CallStep(c) \/ Drop(c)
    PROVE  /\ \E to \in Steps \cup Ended : \E n \in Nonces \cup {None} :
                \E added \in {{}, {TxOf(c, TRUE)}, {TxOf(c, FALSE)}} : Moves(c, to, n, added)
           /\ faulty' \subseteq faulty \cup {c} /\ faulty \subseteq faulty'
           /\ raced' \subseteq raced \cup {c} /\ raced \subseteq raced'
<1> DEFINE Goal == \E to \in Steps \cup Ended : \E n \in Nonces \cup {None} :
                       \E added \in {{}, {TxOf(c, TRUE)}, {TxOf(c, FALSE)}} : Moves(c, to, n, added)
<1>1. ASSUME NEW to \in (Steps \cup Ended) \ WithNonce, Go(c, to, None), UNCHANGED pool
      PROVE  Goal
    BY <1>1, NoneIsNoNonce DEF Moves
<1>2. ASSUME NEW to \in WithNonce, NEW n \in Nonces, Go(c, to, n), UNCHANGED pool
      PROVE  Goal
    <2>1. to \in Steps \cup Ended /\ n # None
        BY NoneIsNoNonce DEF WithNonce, Steps, Ended
    <2>2. Moves(c, to, n, {})
        BY <1>2, <2>1 DEF Moves
    <2> QED
        BY <2>1, <2>2
<1>3. ASSUME NEW to \in Steps \cup Ended, NEW n \in Nonces \cup {None}, Go(c, to, n),
             n # None <=> to \in WithNonce, NEW b \in BOOLEAN, nonce[c] \in Nonces,
             pool' = pool \cup {TxOf(c, b)}
      PROVE  Goal
    <2>1. Moves(c, to, n, {TxOf(c, b)})
        BY <1>3 DEF Moves
    <2>2. {TxOf(c, b)} \in {{}, {TxOf(c, TRUE)}, {TxOf(c, FALSE)}}
        OBVIOUS
    <2> QED
        BY <2>1, <2>2
<1>4. {"fill", "nonce", "ok", "failed", "dropped"} \subseteq (Steps \cup Ended) \ WithNonce
    BY DEF Steps, Ended, WithNonce
<1>5. ASSUME FallBack(c) \/ Fail(c) \/ Go(c, "ok", None) \/ Go(c, "dropped", None), UNCHANGED pool
      PROVE  Goal
    BY <1>1, <1>4, <1>5 DEF FallBack, Fail
<1>6. CASE Challenge(c)
    BY <1>1, <1>4, <1>6 DEF Challenge, FallBack
<1>7. CASE Drop(c)
    BY <1>5, <1>7 DEF Drop
<1>8. ASSUME NEW n \in Nonces, Fill(c, n) \/ FetchNonce(c, n) PROVE Goal /\ UNCHANGED <<faulty, raced>>
    BY <1>2, <1>8 DEF Fill, FetchNonce, WithNonce
<1>9. CASE FillReverts(c) \/ SendRawRejected(c) \/ Watched(c) \/ ReceiptFound(c)
           \/ ReceiptMissing(c) \/ SendReverts(c) \/ SendRejected(c) \/ WatchedPublic(c)
           \/ WatchPublicFails(c)
    BY <1>5, <1>9 DEF FillReverts, SendRawRejected, Watched, ReceiptFound, ReceiptMissing,
       SendReverts, SendRejected, WatchedPublic, WatchPublicFails
<1>10. CASE WatchFails(c)
    <2>1. nonce[c] \in Nonces
        BY <1>10, NonceTyped DEF WatchFails, WithNonce
    <2> QED
        BY <1>2, <1>10, <2>1 DEF WatchFails, WithNonce
<1>11. CASE SendRaw(c) \/ Send(c)
    <2>1. nonce[c] \in Nonces
        BY <1>11, NonceTyped DEF SendRaw, Send, WithNonce
    <2>2. {"watch", "watch_public"} \subseteq (Steps \cup Ended) \cap WithNonce
        BY DEF Steps, Ended, WithNonce
    <2> QED
        BY <1>3, <1>11, <2>1, <2>2, NoneIsNoNonce DEF SendRaw, Send
<1>12. CASE PrivateError(c)
    <2>1. CASE pool' = pool
        BY <1>5, <1>12, <2>1 DEF PrivateError
    <2>2. CASE pc[c] = "send_raw" /\ pool' = pool \cup {TxOf(c, TRUE)}
        <3>1. nonce[c] \in Nonces
            BY <2>2, NonceTyped DEF WithNonce
        <3> QED
            BY <1>3, <1>4, <1>12, <2>2, <3>1 DEF PrivateError, FallBack
    <2> QED
        BY <1>12, <2>1, <2>2 DEF PrivateError
<1>13. CASE PublicError(c)
    <2>1. CASE pool' = pool
        BY <1>5, <1>13, <2>1 DEF PublicError
    <2>2. CASE pc[c] = "send" /\ pool' = pool \cup {TxOf(c, FALSE)}
        <3>1. nonce[c] \in Nonces
            BY <2>2, NonceTyped DEF WithNonce
        <3> QED
            BY <1>3, <1>4, <1>13, <2>2, <3>1 DEF PublicError, Fail
    <2> QED
        BY <1>13, <2>1, <2>2 DEF PublicError
<1>14. Goal
    BY <1>6, <1>7, <1>8, <1>9, <1>10, <1>11, <1>12, <1>13 DEF CallStep
<1>15. /\ faulty' \subseteq faulty \cup {c} /\ faulty \subseteq faulty'
       /\ raced' \subseteq raced \cup {c} /\ raced \subseteq raced'
    <2>1. CASE Challenge(c) \/ Drop(c) \/ \E n \in Nonces : Fill(c, n) \/ FetchNonce(c, n)
        BY <2>1 DEF Challenge, Drop, Fill, FetchNonce
    <2>2. CASE CallStep(c)
        BY <2>1, <2>2 DEF CallStep, FillReverts, SendRaw, SendRawRejected, Watched, WatchFails,
           ReceiptFound, ReceiptMissing, Send, SendReverts, SendRejected, WatchedPublic,
           WatchPublicFails, PrivateError, PublicError
    <2> QED
        BY <2>1, <2>2
<1> QED
    BY <1>14, <1>15

\* What a move leaves alone, and where it leads.
LEMMA MoveFacts ==
    ASSUME TypeOK, NEW c \in Calls, NEW to, NEW n, NEW added, Moves(c, to, n, added)
    PROVE  /\ pc' \in [Calls -> Phases] /\ nonce' \in [Calls -> Nonces \cup {None}]
           /\ pc'[c] = to /\ nonce'[c] = n
           /\ \A d \in Calls : d # c => pc'[d] = pc[d] /\ nonce'[d] = nonce[d]
           /\ UNCHANGED <<poke, standing, account_nonce, mined>>
           /\ added \subseteq Tx /\ \A t \in added : t.call = c
<1>1. /\ pc \in [Calls -> Phases] /\ nonce \in [Calls -> Nonces \cup {None}]
    BY DEF TypeOK, Phases
<1>2. /\ pc' = [pc EXCEPT ![c] = to] /\ nonce' = [nonce EXCEPT ![c] = n]
      /\ UNCHANGED <<poke, standing, account_nonce, mined>>
      /\ to \in Phases /\ n \in Nonces \cup {None}
    BY DEF Moves, Go, chainVars, Phases
<1>3. added \subseteq Tx /\ \A t \in added : t.call = c
    <2>1. ASSUME NEW b \in BOOLEAN, nonce[c] \in Nonces
          PROVE  TxOf(c, b) \in Tx /\ TxOf(c, b).call = c
        BY <2>1 DEF TxOf, Tx
    <2>2. added = {} \/ (nonce[c] \in Nonces /\ \E b \in BOOLEAN : added = {TxOf(c, b)})
        BY DEF Moves
    <2> QED
        BY <2>1, <2>2
<1> QED
    BY <1>1, <1>2, <1>3

(***************************************************************************)
(* The type invariant.                                                     *)
(***************************************************************************)
LEMMA TypeInit == Init => TypeOK
<1> SUFFICES ASSUME Init PROVE TypeOK
    OBVIOUS
<1>1. /\ poke \in [Calls -> Pokes] /\ standing \in [Pokes -> BOOLEAN]
    BY DEF Init
<1>2. /\ pc \in [Calls -> Steps \cup Ended \cup {"idle"}]
      /\ nonce \in [Calls -> Nonces \cup {None}]
      /\ \A c \in Calls : nonce[c] = None /\ pc[c] = "idle"
    BY DEF Init
<1>3. /\ pool \subseteq Tx /\ mined \subseteq MinedTx /\ account_nonce \in Nat
      /\ faulty \subseteq Calls /\ raced \subseteq Calls
    BY DEF Init
<1> QED
    BY <1>1, <1>2, <1>3 DEF TypeOK

LEMMA IncludeFacts ==
    ASSUME TypeOK, NEW t \in pool, Include(t)
    PROVE  /\ mined' \subseteq MinedTx /\ standing' \in [Pokes -> BOOLEAN]
           /\ raced' \subseteq Calls /\ pool' \subseteq pool
           /\ account_nonce' \in Nat
           /\ \A m \in mined' \ mined : m.tx = t /\ m.during = pc[t.call]
           /\ mined \subseteq mined'
           /\ \A p \in Pokes : standing'[p] => standing[p]
           /\ t.call \in Calls /\ ~standing'[poke[t.call]]
<1>1. t \in Tx /\ t.call \in Calls /\ poke[t.call] \in Pokes /\ PublicPool \subseteq Tx
    BY DEF TypeOK, Tx, PublicPool
<1>2. pc[t.call] \in Steps \cup Ended \cup {"idle"} /\ Stands(t.call) \in BOOLEAN
    BY <1>1 DEF TypeOK, Stands
<1>3. [tx |-> t, during |-> pc[t.call], success |-> Stands(t.call)] \in MinedTx
    BY <1>1, <1>2 DEF MinedTx
<1>4. mined' = mined \cup {[tx |-> t, during |-> pc[t.call], success |-> Stands(t.call)]}
    BY DEF Include
<1>5. standing \in [Pokes -> BOOLEAN] /\ standing' = [standing EXCEPT ![poke[t.call]] = FALSE]
    BY DEF Include, TypeOK
<1>6. raced' \subseteq Calls
    <2>1. \A u \in PublicPool : u.call \in Calls
        BY <1>1 DEF Tx
    <2>2. raced \subseteq Calls
        BY DEF TypeOK
    <2> QED
        BY <2>1, <2>2 DEF Include
<1>7. account_nonce' \in Nat /\ pool' \subseteq pool
    BY DEF Include, TypeOK
<1>8. mined' \subseteq MinedTx
    BY <1>3, <1>4 DEF TypeOK
<1>9. \A m \in mined' \ mined : m.tx = t /\ m.during = pc[t.call]
    BY <1>4
<1>10. /\ \A p \in Pokes : standing'[p] => standing[p]
       /\ standing' \in [Pokes -> BOOLEAN] /\ ~standing'[poke[t.call]]
    BY <1>1, <1>5
<1> QED
    BY <1>1, <1>4, <1>6, <1>7, <1>8, <1>9, <1>10

LEMMA TypeStep == TypeOK /\ [Next]_vars => TypeOK'
<1> SUFFICES ASSUME TypeOK, [Next]_vars PROVE TypeOK'
    OBVIOUS
<1>1. ASSUME NEW c \in Calls, Challenge(c) \/ CallStep(c) \/ Drop(c) PROVE TypeOK'
    <2>1. PICK to \in Steps \cup Ended, n \in Nonces \cup {None},
               added \in {{}, {TxOf(c, TRUE)}, {TxOf(c, FALSE)}} : Moves(c, to, n, added)
        BY <1>1, StepIsMove
    <2>2. faulty' \subseteq Calls /\ raced' \subseteq Calls
        BY <1>1, StepIsMove DEF TypeOK
    <2>3. /\ pc' \in [Calls -> Phases] /\ nonce' \in [Calls -> Nonces \cup {None}]
          /\ pc'[c] = to /\ nonce'[c] = n
          /\ \A d \in Calls : d # c => pc'[d] = pc[d] /\ nonce'[d] = nonce[d]
          /\ UNCHANGED <<poke, standing, account_nonce, mined>> /\ added \subseteq Tx
        BY <2>1, MoveFacts
    <2>4. pool' = pool \cup added /\ (n # None <=> to \in WithNonce)
        BY <2>1 DEF Moves
    <2>5. \A d \in Calls : nonce'[d] # None <=> pc'[d] \in WithNonce
        BY <2>3, <2>4 DEF TypeOK, WithNonce
    <2> QED
        BY <2>2, <2>3, <2>4, <2>5 DEF TypeOK, Phases, WithNonce
<1>2. ASSUME NEW t \in pool, Include(t) PROVE TypeOK'
    <2>1. UNCHANGED <<poke, pc, nonce, faulty>>
        BY <1>2 DEF Include, callVars
    <2> QED
        BY <1>2, <2>1, IncludeFacts DEF TypeOK
<1>3. ASSUME NEW t \in pool, ForgetPrivate(t) PROVE TypeOK'
    BY <1>3 DEF ForgetPrivate, TypeOK, chainVars, callVars
<1>4. ASSUME NEW c \in Calls, Settle(c) PROVE TypeOK'
    BY <1>4 DEF Settle, TypeOK, callVars
<1>5. CASE UNCHANGED vars
    BY <1>5 DEF vars, TypeOK, chainVars, callVars
<1> QED
    BY <1>1, <1>2, <1>3, <1>4, <1>5 DEF Next

\* Type correctness of the challenge calls and their transactions.
THEOREM TypeCorrect == Spec => []TypeOK
  BY TypeInit, TypeStep, PTL DEF Spec

-----------------------------------------------------------------------------
(***************************************************************************)
(* A poke that fell does not stand up again, so that it is enough that the *)
(* poke of every mined transaction fell.                                   *)
(***************************************************************************)
\* A call ends well only at a transaction of its own on the chain.
LEMMA OkIsMined ==
    ASSUME NEW c \in Calls, Challenge(c) \/ CallStep(c) \/ Drop(c), pc'[c] = "ok", TypeOK
    PROVE  \E m \in mined : m.tx.call = c
<1>1. pc \in [Calls -> Phases]
    BY DEF TypeOK, Phases
<1>2. ASSUME NEW to, NEW n, Go(c, to, n) PROVE to = "ok"
    BY <1>1, <1>2 DEF Go
<1>3. ASSUME Watched(c) \/ ReceiptFound(c) \/ WatchedPublic(c)
      PROVE  \E m \in mined : m.tx.call = c
    <2>1. PICK b \in BOOLEAN : Mined(TxOf(c, b))
        BY <1>3 DEF Watched, ReceiptFound, WatchedPublic
    <2>2. TxOf(c, b).call = c
        BY DEF TxOf
    <2> QED
        BY <2>1, <2>2 DEF Mined
<1>4. \A n \in Nonces : ~Fill(c, n) /\ ~FetchNonce(c, n)
    BY <1>2 DEF Fill, FetchNonce
<1>5. ~FallBack(c) /\ ~Fail(c)
    BY <1>2 DEF FallBack, Fail
<1>6. ~Challenge(c) /\ ~Drop(c) /\ ~SendRaw(c) /\ ~Send(c) /\ ~WatchFails(c)
    BY <1>2, <1>5 DEF Challenge, Drop, SendRaw, Send, WatchFails
<1>7. /\ ~FillReverts(c) /\ ~SendRawRejected(c) /\ ~ReceiptMissing(c) /\ ~PrivateError(c)
      /\ ~SendReverts(c) /\ ~SendRejected(c) /\ ~WatchPublicFails(c) /\ ~PublicError(c)
    BY <1>5 DEF FillReverts, SendRawRejected, ReceiptMissing, PrivateError,
       SendReverts, SendRejected, WatchPublicFails, PublicError
<1> QED
    BY <1>3, <1>4, <1>6, <1>7 DEF CallStep

LEMMA SettledInit == Init => SettledInv
<1> SUFFICES ASSUME Init PROVE SettledInv
    OBVIOUS
<1>1. mined = {} /\ \A c \in Calls : pc[c] # "ok"
    BY DEF Init
<1> QED
    BY <1>1 DEF SettledInv, OkMeansSettled

LEMMA SettledStep == TypeOK /\ SettledInv /\ [Next]_vars => SettledInv'
<1> SUFFICES ASSUME TypeOK, SettledInv, [Next]_vars PROVE SettledInv'
    OBVIOUS
<1>1. /\ \A m \in mined : m.tx.call \in Calls /\ ~standing[poke[m.tx.call]]
      /\ \A c \in Calls : pc[c] = "ok" => ~standing[poke[c]]
      /\ \A c \in Calls : poke[c] \in Pokes
    BY DEF SettledInv, OkMeansSettled, TypeOK, MinedTx, Tx, Stands
<1>2. ASSUME /\ UNCHANGED poke
             /\ \A p \in Pokes : standing'[p] => standing[p]
             /\ \A m \in mined' : m \in mined \/ ~standing'[poke[m.tx.call]]
             /\ \A c \in Calls : pc'[c] = "ok" => pc[c] = "ok" \/ ~standing'[poke[c]]
      PROVE  SettledInv'
    BY <1>1, <1>2 DEF SettledInv, OkMeansSettled, Stands
<1>3. ASSUME NEW c \in Calls, Challenge(c) \/ CallStep(c) \/ Drop(c) PROVE SettledInv'
    <2>1. PICK to \in Steps \cup Ended, n \in Nonces \cup {None},
               added \in {{}, {TxOf(c, TRUE)}, {TxOf(c, FALSE)}} : Moves(c, to, n, added)
        BY <1>3, StepIsMove
    <2>2. /\ \A d \in Calls : d # c => pc'[d] = pc[d]
          /\ UNCHANGED <<poke, standing, mined>>
        BY <2>1, MoveFacts
    <2>3. pc'[c] = "ok" => ~standing[poke[c]]
        BY <1>1, <1>3, OkIsMined
    <2> QED
        BY <1>2, <2>2, <2>3
<1>4. ASSUME NEW t \in pool, Include(t) PROVE SettledInv'
    <2>1. UNCHANGED <<poke, pc>>
        BY <1>4 DEF Include, callVars
    <2>2. \A m \in mined' : m \in mined \/ ~standing'[poke[m.tx.call]]
        BY <1>4, IncludeFacts
    <2>3. \A p \in Pokes : standing'[p] => standing[p]
        BY <1>4, IncludeFacts
    <2> QED
        BY <1>2, <2>1, <2>2, <2>3
<1>5. ASSUME NEW t \in pool, ForgetPrivate(t) PROVE SettledInv'
    <2>1. UNCHANGED <<poke, pc, mined, standing>>
        BY <1>5 DEF ForgetPrivate, chainVars, callVars
    <2> QED
        BY <1>2, <2>1
<1>6. ASSUME NEW c \in Calls, Settle(c) PROVE SettledInv'
    <2>1. /\ UNCHANGED <<poke, pc, mined>>
          /\ standing' = [standing EXCEPT ![poke[c]] = FALSE]
        BY <1>6 DEF Settle, callVars
    <2>2. \A p \in Pokes : standing'[p] => standing[p]
        BY <2>1 DEF TypeOK
    <2> QED
        BY <1>2, <2>1, <2>2
<1>7. CASE UNCHANGED vars
    <2>1. UNCHANGED <<poke, pc, mined, standing>>
        BY <1>7 DEF vars, chainVars, callVars
    <2> QED
        BY <1>2, <2>1
<1> QED
    BY <1>3, <1>4, <1>5, <1>6, <1>7 DEF Next

(***************************************************************************)
(* When challenge returns a hash, the poke does not stand any more.        *)
(***************************************************************************)
THEOREM ReturnedHashMeansSettled == Spec => []OkMeansSettled
<1>1. Init => TypeOK /\ SettledInv
    BY TypeInit, SettledInit
<1>2. TypeOK /\ SettledInv /\ [Next]_vars => TypeOK' /\ SettledInv'
    BY TypeStep, SettledStep
<1>3. SettledInv => OkMeansSettled
    BY DEF SettledInv
<1> QED
    BY <1>1, <1>2, <1>3, PTL DEF Spec

-----------------------------------------------------------------------------
(***************************************************************************)
(* What a call has sent, and where it is: CallInv.                         *)
(***************************************************************************)
LEMMA CallInit == Init => CallInv
<1> SUFFICES ASSUME Init, NEW c \in Calls PROVE OwnedInv(c) /\ LookupInv(c)
    BY DEF CallInv, NoNeedlessFallback
<1>1. Owned(c) = {} /\ ~MinedInTime(c)
    BY DEF Init, Owned, MinedInTime
<1> QED
    BY <1>1 DEF OwnedInv, LookupInv

\* A move of c adds to what c owns, and to nothing else.
LEMMA OwnedAfterMove ==
    ASSUME TypeOK, NEW c \in Calls, NEW to, NEW n, NEW added, Moves(c, to, n, added)
    PROVE  /\ Owned(c)' = Owned(c) \cup added
           /\ \A d \in Calls : /\ MinedInTime(d)' <=> MinedInTime(d)
                               /\ d # c => Owned(d)' = Owned(d)
<1>1. pool' = pool \cup added
    BY DEF Moves
<1>2. mined' = mined /\ \A t \in added : t.call = c
    BY MoveFacts
<1> QED
    BY <1>1, <1>2 DEF Owned, MinedInTime

LEMMA OthersUnmoved ==
    ASSUME TypeOK, NEW c \in Calls, NEW to, NEW n, NEW added, Moves(c, to, n, added),
           NEW d \in Calls, d # c, OwnedInv(d), LookupInv(d)
    PROVE  OwnedInv(d)' /\ LookupInv(d)'
<1>1. pc'[d] = pc[d] /\ nonce'[d] = nonce[d]
    BY MoveFacts
<1>2. Owned(d)' = Owned(d) /\ (MinedInTime(d)' <=> MinedInTime(d))
    BY OwnedAfterMove
<1> QED
    BY <1>1, <1>2 DEF OwnedInv, LookupInv

LEMMA MoverKeeps ==
    ASSUME TypeOK, NEW c \in Calls, Challenge(c) \/ CallStep(c) \/ Drop(c),
           OwnedInv(c), LookupInv(c), c \notin faulty'
    PROVE  OwnedInv(c)' /\ LookupInv(c)'
<1>0. PICK to \in Steps \cup Ended, n \in Nonces \cup {None},
           added \in {{}, {TxOf(c, TRUE)}, {TxOf(c, FALSE)}} : Moves(c, to, n, added)
    BY StepIsMove
<1>1. /\ pc'[c] = to /\ nonce'[c] = n /\ Owned(c)' = Owned(c) \cup added
      /\ MinedInTime(c)' <=> MinedInTime(c)
      /\ pool' = pool \cup added
    BY <1>0, MoveFacts, OwnedAfterMove DEF Moves
<1>2. ASSUME NEW s, NEW k, Go(c, s, k) PROVE s = to /\ k = n
    BY <1>0, <1>1, <1>2 DEF Go, TypeOK
<1>3. pool' = pool => Owned(c)' = Owned(c)
    BY <1>0, <1>1, MoveFacts DEF Owned
<1>4. TxOf(c, TRUE).private /\ ~TxOf(c, FALSE).private /\ \A b \in BOOLEAN : TxOf(c, b).nonce = nonce[c]
    BY DEF TxOf
<1> USE DEF Ended
\* Nothing was sent for c.
<1>5. CASE pc[c] \in {"idle", "fill"}
    <2>1. Owned(c) = {} /\ ~MinedInTime(c)
        <3>1. Owned(c) = {}
            BY <1>5 DEF OwnedInv
        <3> QED
            BY <3>1 DEF Owned, MinedInTime
    <2>2. pool' = pool /\ to \in {"fill", "nonce", "send_raw", "dropped"}
        <3>1. CASE Challenge(c)
            BY <1>2, <3>1 DEF Challenge, FallBack
        <3>2. CASE Drop(c)
            BY <1>2, <3>2 DEF Drop
        <3>3. CASE CallStep(c)
            <4>1. (\E k \in Nonces : Fill(c, k)) \/ FillReverts(c) \/ PrivateError(c)
                BY <1>5, <3>3 DEF CallStep, FetchNonce, SendRaw, SendRawRejected, Watched, WatchFails,
                   ReceiptFound, ReceiptMissing, Send, SendReverts, SendRejected, WatchedPublic,
                   WatchPublicFails, PublicError
            <4> QED
                BY <1>2, <1>5, <4>1 DEF Fill, FillReverts, PrivateError, FallBack
        <3> QED
            BY <3>1, <3>2, <3>3
    <2> QED
        BY <1>1, <1>3, <2>1, <2>2 DEF OwnedInv, LookupInv
\* The private transaction is sent.
<1>6. CASE pc[c] = "send_raw"
    <2>1. Owned(c) = {} /\ ~MinedInTime(c)
        <3>1. Owned(c) = {}
            BY <1>6 DEF OwnedInv
        <3> QED
            BY <3>1 DEF Owned, MinedInTime
    <2>2. SendRaw(c) \/ SendRawRejected(c) \/ Drop(c)
        BY <1>6 DEF Challenge, CallStep, Fill, FillReverts, FetchNonce, Watched, WatchFails,
           ReceiptFound, ReceiptMissing, Send, SendReverts, SendRejected, WatchedPublic,
           WatchPublicFails, PublicError, PrivateError
    <2>3. CASE SendRaw(c)
        <3>1. to = "watch" /\ n = nonce[c] /\ pool' = pool \cup {TxOf(c, TRUE)}
            BY <1>2, <2>3 DEF SendRaw
        <3>2. Owned(c)' \subseteq {TxOf(c, TRUE)}
            BY <1>0, <1>1, <2>1, <3>1, MoveFacts DEF Owned
        <3> QED
            BY <1>1, <1>4, <2>1, <3>1, <3>2 DEF OwnedInv, LookupInv
    <2>4. CASE SendRawRejected(c) \/ Drop(c)
        <3>1. pool' = pool /\ to \in {"nonce", "dropped"}
            BY <1>2, <2>4 DEF SendRawRejected, Drop, FallBack
        <3> QED
            BY <1>1, <1>3, <2>1, <3>1 DEF OwnedInv, LookupInv
    <2> QED
        BY <2>2, <2>3, <2>4
\* It is watched, and its receipt looked for.
<1>7. CASE pc[c] \in {"watch", "receipt"}
    <2>1. Watched(c) \/ WatchFails(c) \/ ReceiptFound(c) \/ ReceiptMissing(c) \/ Drop(c)
        BY <1>7 DEF Challenge, CallStep, Fill, FillReverts, FetchNonce, SendRaw, SendRawRejected,
           Send, SendReverts, SendRejected, WatchedPublic, WatchPublicFails, PublicError, PrivateError
    <2>2. \A t \in Owned(c) : t.private /\ t.nonce = nonce[c]
        BY <1>7 DEF OwnedInv
    <2>3. CASE Watched(c) \/ WatchFails(c) \/ ReceiptFound(c) \/ Drop(c)
        <3>1. pool' = pool /\ (to \in {"ok", "dropped"} \/ (to = "receipt" /\ n = nonce[c]))
            BY <1>2, <2>3 DEF Watched, WatchFails, ReceiptFound, Drop
        <3> QED
            BY <1>1, <1>3, <2>2, <3>1 DEF OwnedInv, LookupInv
    <2>4. CASE ReceiptMissing(c)
        <3>1. pool' = pool /\ to = "nonce" /\ ~Mined(TxOf(c, TRUE))
            BY <1>2, <2>4 DEF ReceiptMissing, FallBack
        <3>2. ~MinedInTime(c)
            <4> SUFFICES ASSUME NEW m \in mined, m.tx.call = c, m.tx.private PROVE FALSE
                BY DEF MinedInTime
            <4>1. m.tx \in Owned(c)
                BY DEF Owned
            <4>2. m.tx \in Tx
                BY DEF TypeOK, MinedTx
            <4>3. m.tx = TxOf(c, TRUE)
                BY <2>2, <4>1, <4>2 DEF Tx, TxOf
            <4> QED
                BY <3>1, <4>3 DEF Mined
        <3> QED
            BY <1>1, <1>3, <2>2, <3>1, <3>2 DEF OwnedInv, LookupInv
    <2> QED
        BY <2>1, <2>3, <2>4
\* The public transaction is sent and watched.
<1>8. CASE pc[c] \in {"nonce", "send", "watch_public"}
    <2>1. ~MinedInTime(c)
        BY <1>8 DEF LookupInv
    <2>2. to \in {"send", "watch_public", "ok", "failed", "dropped"}
          /\ (pc[c] = "watch_public" => to # "send")
          /\ (to = "send" => pool' = pool)
        <3>1. CASE \E k \in Nonces : FetchNonce(c, k)
            BY <1>2, <3>1 DEF FetchNonce
        <3>2. CASE SendReverts(c) \/ SendRejected(c) \/ WatchPublicFails(c) \/ PublicError(c)
            <4>1. to = "failed"
                BY <1>2, <3>2 DEF SendReverts, SendRejected, WatchPublicFails, PublicError, Fail
            <4> QED
                BY <4>1
        <3>3. CASE Send(c) \/ WatchedPublic(c) \/ Drop(c)
            <4>1. to \in {"watch_public", "ok", "dropped"}
                BY <1>2, <3>3 DEF Send, WatchedPublic, Drop
            <4> QED
                BY <4>1
        <3> QED
            BY <1>8, <3>1, <3>2, <3>3 DEF Challenge, CallStep, Fill, FillReverts, SendRaw, SendRawRejected,
               Watched, WatchFails, ReceiptFound, ReceiptMissing, PrivateError
    <2>3. ASSUME to = "send" PROVE \A t \in Owned(c)' : t.private
        <3>1. Owned(c)' = Owned(c) /\ pc[c] \in {"nonce", "send"}
            BY <1>3, <1>8, <2>2, <2>3
        <3> QED
            BY <3>1 DEF OwnedInv
    <2> QED
        BY <1>1, <2>1, <2>2, <2>3 DEF OwnedInv, LookupInv
<1>9. pc[c] \notin Ended
    BY DEF Challenge, CallStep, Drop, Live, Steps, Fill, FillReverts, FetchNonce, SendRaw,
       SendRawRejected, Watched, WatchFails, ReceiptFound, ReceiptMissing, Send, SendReverts,
       SendRejected, WatchedPublic, WatchPublicFails, PublicError, PrivateError
<1> QED
    BY <1>5, <1>6, <1>7, <1>8, <1>9 DEF TypeOK, Steps

\* A block or the relay takes transactions, and adds none.
LEMMA ChainKeeps ==
    ASSUME TypeOK, NEW c \in Calls, OwnedInv(c), LookupInv(c), UNCHANGED <<pc, nonce>>,
           pool' \subseteq pool,
           \A m \in mined' \ mined : m.tx \in pool /\ m.during = pc[m.tx.call]
    PROVE  OwnedInv(c)' /\ LookupInv(c)'
<1>1. Owned(c)' \subseteq Owned(c)
    <2> SUFFICES ASSUME NEW m \in mined' PROVE m.tx \in pool \cup {x.tx : x \in mined}
        BY DEF Owned
    <2> QED
        OBVIOUS
<1>2. OwnedInv(c)'
    BY <1>1 DEF OwnedInv
<1>3. LookupInv(c)'
    <2>1. CASE MinedInTime(c)
        BY <1>1, <2>1 DEF LookupInv
    <2>2. CASE ~MinedInTime(c)
        <3> SUFFICES ASSUME NEW m \in mined', m.tx.call = c, m.during \in {"watch", "receipt"},
                            m.tx.private
                     PROVE  pc[c] \in {"watch", "receipt"}
            BY <1>1, <2>2 DEF LookupInv, MinedInTime, OwnedInv, Ended
        <3>1. m \notin mined
            BY <2>2 DEF MinedInTime
        <3> QED
            BY <3>1
    <2> QED
        BY <2>1, <2>2
<1> QED
    BY <1>2, <1>3

LEMMA CallInvStep == TypeOK /\ CallInv /\ [Next]_vars => CallInv'
<1> SUFFICES ASSUME TypeOK, CallInv, [Next]_vars PROVE CallInv'
    OBVIOUS
<1>1. ASSUME NEW c \in Calls, Challenge(c) \/ CallStep(c) \/ Drop(c) PROVE CallInv'
    <2> SUFFICES ASSUME NEW d \in Calls, d \notin faulty' PROVE OwnedInv(d)' /\ LookupInv(d)'
        BY DEF CallInv, NoNeedlessFallback
    <2>1. OwnedInv(d) /\ LookupInv(d)
        BY <1>1, StepIsMove DEF CallInv, NoNeedlessFallback
    <2>2. CASE d = c
        BY <1>1, <2>1, <2>2, MoverKeeps
    <2>3. CASE d # c
        <3>1. PICK to \in Steps \cup Ended, n \in Nonces \cup {None},
                   added \in {{}, {TxOf(c, TRUE)}, {TxOf(c, FALSE)}} : Moves(c, to, n, added)
            BY <1>1, StepIsMove
        <3> QED
            BY <2>1, <2>3, <3>1, OthersUnmoved
    <2> QED
        BY <2>2, <2>3
<1>2. ASSUME UNCHANGED <<pc, nonce, faulty>>, pool' \subseteq pool,
             \A m \in mined' \ mined : m.tx \in pool /\ m.during = pc[m.tx.call]
      PROVE  CallInv'
    <2> SUFFICES ASSUME NEW d \in Calls, d \notin faulty' PROVE OwnedInv(d)' /\ LookupInv(d)'
        BY DEF CallInv, NoNeedlessFallback
    <2>1. OwnedInv(d) /\ LookupInv(d)
        BY <1>2 DEF CallInv, NoNeedlessFallback
    <2> QED
        BY <1>2, <2>1, ChainKeeps
<1>3. ASSUME NEW t \in pool, Include(t) PROVE CallInv'
    <2>1. UNCHANGED <<pc, nonce, faulty>>
        BY <1>3 DEF Include, callVars
    <2>2. pool' \subseteq pool /\ \A m \in mined' \ mined : m.tx = t /\ m.during = pc[t.call]
        BY <1>3, IncludeFacts
    <2>3. \A m \in mined' \ mined : m.tx \in pool /\ m.during = pc[m.tx.call]
        BY <2>2
    <2> QED
        BY <1>2, <2>1, <2>2, <2>3
<1>4. ASSUME \/ \E t \in pool : ForgetPrivate(t)
             \/ \E c \in Calls : Settle(c)
             \/ UNCHANGED vars
      PROVE  CallInv'
    <2>1. UNCHANGED <<pc, nonce, faulty, mined>> /\ pool' \subseteq pool
        BY <1>4 DEF ForgetPrivate, Settle, vars, chainVars, callVars
    <2> QED
        BY <1>2, <2>1
<1> QED
    BY <1>1, <1>3, <1>4 DEF Next

(***************************************************************************)
(* A call without RPC errors whose private transaction was mined in time   *)
(* neither fails nor sends a public one.                                   *)
(***************************************************************************)
THEOREM InTimeMeansNoFallback == Spec => []NoNeedlessFallback
<1>1. Init => TypeOK /\ CallInv
    BY TypeInit, CallInit
<1>2. TypeOK /\ CallInv /\ [Next]_vars => TypeOK' /\ CallInv'
    BY TypeStep, CallInvStep
<1>3. CallInv => NoNeedlessFallback
    BY DEF CallInv
<1> QED
    BY <1>1, <1>2, <1>3, PTL DEF Spec

-----------------------------------------------------------------------------
(***************************************************************************)
(* What a move sends to the public mempool, and when: the nonce is fetched *)
(* from it, and free when it is used.                                      *)
(***************************************************************************)
LEMMA PublicAfterMove ==
    ASSUME TypeOK, NEW c \in Calls, Challenge(c) \/ CallStep(c) \/ Drop(c)
    PROVE  /\ PublicPool \subseteq PublicPool'
           /\ \A t \in PublicPool' \ PublicPool :
                 /\ t.call = c /\ t.nonce = nonce[c]
                 /\ pc[c] = "send" /\ nonce[c] >= account_nonce
           /\ pc'[c] = "send" => Follows(nonce'[c], PublicPool)
<1>1. PICK to \in Steps \cup Ended, n \in Nonces \cup {None},
           added \in {{}, {TxOf(c, TRUE)}, {TxOf(c, FALSE)}} : Moves(c, to, n, added)
    BY StepIsMove
<1>2. pc'[c] = to /\ nonce'[c] = n /\ pool' = pool \cup added
    BY <1>1, MoveFacts DEF Moves
<1>3. PublicPool \subseteq PublicPool'
    BY <1>2 DEF PublicPool
<1>4. TxOf(c, TRUE).private /\ TxOf(c, FALSE).call = c /\ TxOf(c, FALSE).nonce = nonce[c]
    BY DEF TxOf
<1>5. pool' = pool \/ pool' = pool \cup {TxOf(c, TRUE)}
      \/ (pool' = pool \cup {TxOf(c, FALSE)} /\ pc[c] = "send" /\ NonceFree(nonce[c]))
    BY DEF Challenge, Drop, CallStep, Fill, FetchNonce, FillReverts, SendRaw, SendRawRejected,
       Watched, WatchFails, ReceiptFound, ReceiptMissing, Send, SendReverts, SendRejected,
       WatchedPublic, WatchPublicFails, PrivateError, PublicError
<1>6. \A t \in PublicPool' \ PublicPool :
         t.call = c /\ t.nonce = nonce[c] /\ pc[c] = "send" /\ nonce[c] >= account_nonce
    BY <1>4, <1>5 DEF PublicPool, NonceFree
<1>7. ASSUME to = "send" PROVE Follows(n, PublicPool)
    <2>1. ASSUME NEW s, NEW k, Go(c, s, k) PROVE s = "send" /\ k = n
        BY <1>2, <1>7, <2>1 DEF Go, TypeOK
    <2>0. /\ \A k : ~Go(c, "nonce", k) /\ ~Go(c, "failed", k) /\ ~Go(c, "dropped", k) /\ ~Go(c, "fill", k)
          /\ \A k : ~Go(c, "watch", k) /\ ~Go(c, "watch_public", k) /\ ~Go(c, "receipt", k)
          /\ \A k : ~Go(c, "ok", k) /\ ~Go(c, "send_raw", k)
        BY <2>1
    <2>2. ~FallBack(c) /\ ~Fail(c) /\ ~Drop(c) /\ ~SendRaw(c) /\ ~Send(c) /\ ~WatchFails(c)
        BY <2>0 DEF FallBack, Fail, Drop, SendRaw, Send, WatchFails
    <2>3. ~Watched(c) /\ ~ReceiptFound(c) /\ ~WatchedPublic(c) /\ \A k \in Nonces : ~Fill(c, k)
        BY <2>0 DEF Watched, ReceiptFound, WatchedPublic, Fill
    <2>4. ~Challenge(c)
        BY <2>0, <2>2 DEF Challenge
    <2>5. /\ ~FillReverts(c) /\ ~SendRawRejected(c) /\ ~ReceiptMissing(c) /\ ~PrivateError(c)
          /\ ~SendReverts(c) /\ ~SendRejected(c) /\ ~WatchPublicFails(c) /\ ~PublicError(c)
        BY <2>2 DEF FillReverts, SendRawRejected, ReceiptMissing, PrivateError,
           SendReverts, SendRejected, WatchPublicFails, PublicError
    <2>6. \E k \in Nonces : FetchNonce(c, k)
        BY <2>2, <2>3, <2>4, <2>5 DEF CallStep
    <2> QED
        BY <2>1, <2>6 DEF FetchNonce
<1> QED
    BY <1>2, <1>3, <1>6, <1>7

\* A block takes the nonce that is next, and every transaction that has it.
LEMMA FollowsAfterBlock ==
    ASSUME TypeOK, NEW t \in pool, Include(t), NEW n \in Nonces, n >= account_nonce',
           Follows(n, PublicPool)
    PROVE  Follows(n, PublicPool)'
<1>1. account_nonce \in Nat /\ account_nonce' = account_nonce + 1 /\ t.nonce = account_nonce
    BY DEF Include, TypeOK
<1>2. PublicPool' = {u \in PublicPool : u.nonce # account_nonce}
    BY <1>1 DEF Include, PublicPool
<1>3. n \in Int
    BY ChallengeTxAssumption DEF Nonces
<1> SUFFICES ASSUME NEW k \in account_nonce' .. n - 1 PROVE \E u \in PublicPool' : u.nonce = k
    BY <1>3 DEF Follows
<1>4. k \in account_nonce .. n - 1 /\ k # account_nonce
    BY <1>1, <1>3
<1>5. PICK u \in PublicPool : u.nonce = k
    BY <1>4 DEF Follows
<1> QED
    BY <1>2, <1>4, <1>5

(***************************************************************************)
(* NonceInv.                                                               *)
(***************************************************************************)
LEMMA NonceInit == Init => NonceInv
  BY DEF Init, NonceInv, NothingStuck, PublicPool

LEMMA NonceStep == TypeOK /\ NonceInv /\ [Next]_vars => NonceInv'
<1> SUFFICES ASSUME TypeOK, NonceInv, [Next]_vars PROVE NonceInv'
    OBVIOUS
<1>1. ASSUME NEW c \in Calls, Challenge(c) \/ CallStep(c) \/ Drop(c) PROVE NonceInv'
    <2>1. /\ PublicPool \subseteq PublicPool'
          /\ \A t \in PublicPool' \ PublicPool :
                t.nonce = nonce[c] /\ pc[c] = "send" /\ nonce[c] >= account_nonce
          /\ pc'[c] = "send" => Follows(nonce'[c], PublicPool)
        BY <1>1, PublicAfterMove
    <2>2. /\ UNCHANGED account_nonce
          /\ \A d \in Calls : d # c => pc'[d] = pc[d] /\ nonce'[d] = nonce[d]
        BY <1>1, StepIsMove, MoveFacts
    <2>3. ASSUME NEW n, Follows(n, PublicPool) PROVE Follows(n, PublicPool)'
        BY <2>1, <2>2, <2>3 DEF Follows
    <2>4. ASSUME NEW t \in PublicPool' PROVE Follows(t.nonce, PublicPool)'
        <3>1. CASE t \in PublicPool
            BY <2>3, <3>1 DEF NonceInv, NothingStuck
        <3>2. CASE t \notin PublicPool
            BY <2>1, <2>3, <3>2 DEF NonceInv
        <3> QED
            BY <3>1, <3>2
    <2>5. ASSUME NEW d \in Calls, pc'[d] = "send", nonce'[d] >= account_nonce'
          PROVE  Follows(nonce[d], PublicPool)'
        <3>1. Follows(nonce'[d], PublicPool)
            BY <2>1, <2>2, <2>5 DEF NonceInv
        <3> QED
            BY <2>1, <2>2, <3>1 DEF Follows
    <2> QED
        BY <2>4, <2>5 DEF NonceInv, NothingStuck
<1>2. ASSUME NEW t \in pool, Include(t) PROVE NonceInv'
    <2>1. /\ UNCHANGED <<pc, nonce>> /\ account_nonce' = account_nonce + 1 /\ account_nonce \in Nat
          /\ t.nonce = account_nonce /\ PublicPool' = {u \in PublicPool : u.nonce # t.nonce}
        BY <1>2 DEF Include, callVars, TypeOK, PublicPool
    <2>2. ASSUME NEW u \in PublicPool' PROVE Follows(u.nonce, PublicPool)'
        <3>1. u \in PublicPool /\ u.nonce # account_nonce /\ Follows(u.nonce, PublicPool)
            BY <2>1, <2>2 DEF NonceInv, NothingStuck
        <3>2. u.nonce \in Nonces /\ u.nonce \in Int
            BY <3>1, ChallengeTxAssumption DEF PublicPool, TypeOK, Tx, Nonces
        <3>3. u.nonce >= account_nonce'
            BY <2>1, <3>1, <3>2 DEF Follows
        <3> QED
            BY <1>2, <3>1, <3>2, <3>3, FollowsAfterBlock
    <2>3. ASSUME NEW d \in Calls, pc'[d] = "send", nonce'[d] >= account_nonce'
          PROVE  Follows(nonce[d], PublicPool)'
        <3>1. nonce[d] \in Nonces /\ nonce[d] \in Int
            BY <2>1, <2>3, NonceTyped, ChallengeTxAssumption DEF WithNonce, Nonces
        <3>2. Follows(nonce[d], PublicPool)
            BY <2>1, <2>3, <3>1 DEF NonceInv
        <3>3. Follows(nonce[d], PublicPool)'
            BY <1>2, <2>1, <2>3, <3>1, <3>2, FollowsAfterBlock DEF Follows
        <3> QED
            BY <3>3
    <2> QED
        BY <2>2, <2>3 DEF NonceInv, NothingStuck
<1>3. ASSUME \/ \E t \in pool : ForgetPrivate(t)
             \/ \E c \in Calls : Settle(c)
             \/ UNCHANGED vars
      PROVE  NonceInv'
    <2>1. UNCHANGED <<pc, nonce, account_nonce>> /\ PublicPool' = PublicPool
        BY <1>3 DEF ForgetPrivate, Settle, vars, chainVars, callVars, PublicPool
    <2> QED
        BY <2>1 DEF NonceInv, NothingStuck, Follows
<1> QED
    BY <1>1, <1>2, <1>3 DEF Next

(***************************************************************************)
(* No transaction in the public mempool waits for a nonce that none there  *)
(* has.                                                                    *)
(***************************************************************************)
THEOREM NoTransactionIsStuck == Spec => []NothingStuck
<1>1. Init => TypeOK /\ NonceInv
    BY TypeInit, NonceInit
<1>2. TypeOK /\ NonceInv /\ [Next]_vars => TypeOK' /\ NonceInv'
    BY TypeStep, NonceStep
<1>3. NonceInv => NothingStuck
    BY DEF NonceInv
<1> QED
    BY <1>1, <1>2, <1>3, PTL DEF Spec

-----------------------------------------------------------------------------
(***************************************************************************)
(* CauseInv.  A public transaction leaves the mempool only for the chain,  *)
(* or because its nonce was used: by a transaction of the same call, whose *)
(* poke then fell, or of another, and then the call was raced.             *)
(***************************************************************************)
LEMMA CauseInit == Init => CauseInv
<1> SUFFICES ASSUME Init, NEW c \in Calls PROVE pc[c] \notin {"watch_public", "failed"}
    BY DEF CauseInv
<1> QED
    BY DEF Init

\* A call that comes to wait for its public transaction, or fails, without an error.
LEMMA CauseAtMove ==
    ASSUME TypeOK, CauseInv, NEW c \in Calls, Challenge(c) \/ CallStep(c) \/ Drop(c),
           pc'[c] \in {"watch_public", "failed"}, c \notin faulty', c \notin raced'
    PROVE  \/ ~Stands(c) \/ TxOf(c, FALSE) \in pool'
           \/ pool' = pool /\ OnItsWay(c)
<1>1. ASSUME NEW s, NEW k, Go(c, s, k) PROVE s \in {"watch_public", "failed"}
    BY <1>1 DEF Go, TypeOK
<1>0. /\ \A k : ~Go(c, "nonce", k) /\ ~Go(c, "dropped", k) /\ ~Go(c, "fill", k) /\ ~Go(c, "ok", k)
      /\ \A k : ~Go(c, "watch", k) /\ ~Go(c, "receipt", k) /\ ~Go(c, "send", k) /\ ~Go(c, "send_raw", k)
    BY <1>1
<1>2. CASE Send(c) \/ SendReverts(c)
    BY <1>2 DEF Send, SendReverts
<1>3. CASE WatchPublicFails(c)
    <2>1. pc[c] = "watch_public" /\ UNCHANGED <<pool, faulty, raced>>
        BY <1>3 DEF WatchPublicFails
    <2> QED
        BY <2>1 DEF CauseInv
<1>4. ~SendRejected(c) /\ ~PublicError(c) /\ ~PrivateError(c)
    BY DEF SendRejected, PublicError, PrivateError
<1>5. ~FallBack(c) /\ ~Drop(c) /\ ~SendRaw(c) /\ ~WatchFails(c)
    BY <1>0 DEF FallBack, Drop, SendRaw, WatchFails
<1>6. /\ ~Watched(c) /\ ~ReceiptFound(c) /\ ~WatchedPublic(c)
      /\ \A k \in Nonces : ~Fill(c, k) /\ ~FetchNonce(c, k)
    BY <1>0 DEF Watched, ReceiptFound, WatchedPublic, Fill, FetchNonce
<1>7. ~Challenge(c) /\ ~FillReverts(c) /\ ~SendRawRejected(c) /\ ~ReceiptMissing(c)
    BY <1>0, <1>5 DEF Challenge, FillReverts, SendRawRejected, ReceiptMissing
<1> QED
    BY <1>2, <1>3, <1>4, <1>5, <1>6, <1>7 DEF CallStep

LEMMA CauseStep == TypeOK /\ CauseInv /\ [Next]_vars => CauseInv'
<1> SUFFICES ASSUME TypeOK, CauseInv, [Next]_vars PROVE CauseInv'
    OBVIOUS
<1>1. ASSUME NEW c \in Calls, Challenge(c) \/ CallStep(c) \/ Drop(c) PROVE CauseInv'
    <2>1. /\ UNCHANGED <<poke, standing>> /\ \A d \in Calls : d # c => pc'[d] = pc[d]
        BY <1>1, StepIsMove, MoveFacts
    <2>2. PublicPool \subseteq PublicPool' /\ faulty \subseteq faulty' /\ raced \subseteq raced'
        BY <1>1, StepIsMove, PublicAfterMove
    <2>3. ASSUME NEW d \in Calls, OnItsWay(d) PROVE OnItsWay(d)'
        BY <2>1, <2>2, <2>3 DEF OnItsWay, Stands
    <2> SUFFICES ASSUME NEW d \in Calls, d \notin faulty', d \notin raced',
                        pc'[d] \in {"watch_public", "failed"}
                 PROVE  OnItsWay(d)'
        BY DEF CauseInv
    <2>4. CASE d # c
        BY <2>1, <2>2, <2>3, <2>4 DEF CauseInv
    <2>5. CASE d = c
        <3>1. \/ ~Stands(c) \/ TxOf(c, FALSE) \in pool'
              \/ OnItsWay(c)
            BY <1>1, <2>5, CauseAtMove
        <3>2. CASE TxOf(c, FALSE) \in pool'
            <4>1. TxOf(c, FALSE) \in PublicPool' /\ TxOf(c, FALSE).call = c
                BY <3>2 DEF PublicPool, TxOf
            <4> QED
                BY <2>5, <4>1 DEF OnItsWay
        <3> QED
            BY <2>3, <2>5, <3>1, <3>2 DEF OnItsWay
    <2> QED
        BY <2>4, <2>5
<1>2. ASSUME NEW t \in pool, Include(t) PROVE CauseInv'
    <2>1. /\ UNCHANGED <<poke, pc, faulty>>
          /\ PublicPool' = {u \in PublicPool : u.nonce # t.nonce}
          /\ raced' = raced \cup {u.call : u \in {v \in PublicPool : /\ v.nonce = t.nonce
                                                                      /\ v.call # t.call}}
        BY <1>2 DEF Include, callVars, PublicPool
    <2>2. /\ \A p \in Pokes : standing'[p] => standing[p]
          /\ t.call \in Calls /\ ~standing'[poke[t.call]]
        BY <1>2, IncludeFacts
    <2> SUFFICES ASSUME NEW d \in Calls, d \notin faulty', d \notin raced',
                        pc'[d] \in {"watch_public", "failed"}
                 PROVE  OnItsWay(d)'
        BY DEF CauseInv
    <2>3. OnItsWay(d) /\ poke[d] \in Pokes
        BY <2>1 DEF CauseInv, TypeOK
    <2>4. CASE ~Stands(d)
        BY <2>1, <2>2, <2>3, <2>4 DEF OnItsWay, Stands
    <2>5. ASSUME NEW u \in PublicPool, u.call = d PROVE OnItsWay(d)'
        <3>1. CASE u.nonce # t.nonce
            BY <2>1, <2>5, <3>1 DEF OnItsWay
        <3>2. CASE u.nonce = t.nonce
            <4>1. t.call = d
                BY <2>1, <2>5, <3>2
            <4> QED
                BY <2>1, <2>2, <4>1 DEF OnItsWay, Stands
        <3> QED
            BY <3>1, <3>2
    <2> QED
        BY <2>3, <2>4, <2>5 DEF OnItsWay
<1>3. ASSUME \/ \E t \in pool : ForgetPrivate(t)
             \/ \E c \in Calls : Settle(c)
             \/ UNCHANGED vars
      PROVE  CauseInv'
    <2>1. /\ UNCHANGED <<poke, pc, faulty, raced>> /\ PublicPool' = PublicPool
          /\ \A p \in Pokes : standing'[p] => standing[p]
        BY <1>3 DEF ForgetPrivate, Settle, vars, chainVars, callVars, PublicPool, TypeOK
    <2> QED
        BY <2>1 DEF CauseInv, OnItsWay, Stands, TypeOK
<1> QED
    BY <1>1, <1>2, <1>3 DEF Next

(***************************************************************************)
(* challenge gives a poke up only when an RPC call failed or another call  *)
(* took its nonce.                                                         *)
(***************************************************************************)
THEOREM NoFailureWithoutCause == Spec => []FailuresHaveCause
<1>1. Init => TypeOK /\ CauseInv
    BY TypeInit, CauseInit
<1>2. TypeOK /\ CauseInv /\ [Next]_vars => TypeOK' /\ CauseInv'
    BY TypeStep, CauseStep
<1>3. CauseInv => FailuresHaveCause
    BY DEF CauseInv, FailuresHaveCause
<1> QED
    BY <1>1, <1>2, <1>3, PTL DEF Spec

=============================================================================
