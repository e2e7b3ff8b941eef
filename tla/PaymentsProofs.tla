--------------------------- MODULE PaymentsProofs ---------------------------
(***************************************************************************)
(* For any number of wallets, drafts and payments: the invariants of       *)
(* Payments.                                                               *)
(*                                                                         *)
(* PInv: each payment has what its dialog showed, the dialog shows the     *)
(* connected wallet, and each transaction of the node is that of a payment *)
(* whose request was sent.  The last gives the bound on the nonces as well.*)
(* OneInv: as long as a page has paid nothing large, its dialog is loading *)
(* while it waits for a payment.                                           *)
(***************************************************************************)
EXTENDS Payments, FiniteSetTheorems, TLAPS

(* A payment that has what its dialog showed, and was signed with a nonce. *)
Confirmed(p) ==
    /\ p \in Payment
    /\ p.shown = [from |-> p.from, what |-> p.what]
    /\ p.phase \in {"sign", "answer"} => p.nonce # None

Sent(p) == p # None /\ p.phase \in {"answer", "over"}

PaymentsOK ==
    /\ payments \in [Calls -> Payment \cup {None}]
    /\ \A i \in Calls : payments[i] # None => Confirmed(payments[i])

(* The dialog shows the connected wallet.                                  *)
DeskOK ==
    /\ desk \in Desk
    /\ desk.confirm # None =>
          place = "dashboard" /\ desk.confirm.from = wallet.address

(* Every transaction that the node has is that of a payment.               *)
TakenOK ==
    \A tx \in pool \cup mined : \E i \in Calls :
        Sent(payments[i]) /\ Signed(payments[i]) = tx

PInv ==
    /\ wallet \in [address : Addresses, unlocked : BOOLEAN]
    /\ place \in {"dashboard", "wallet"}
    /\ slip \in {"none", "error"}
    /\ pool \subseteq Transaction /\ mined \subseteq Transaction
    /\ PaymentsOK /\ DeskOK /\ TakenOK

(* The invariant implies the types.                                        *)
LEMMA InvariantTypes == PInv => TypeOK
  BY DEF PInv, TypeOK, PaymentsOK, DeskOK, Confirmed

----------------------------------------------------------------------------
(* Counting                                                                *)

(* A set whose members are all values of f on S is no larger than S.       *)
LEMMA NoMoreThanArguments ==
    ASSUME NEW S, IsFiniteSet(S), NEW T, NEW f,
           \A t \in T : \E s \in S : f[s] = t
    PROVE  IsFiniteSet(T) /\ Cardinality(T) <= Cardinality(S)
  <1> DEFINE g == [t \in T |-> CHOOSE s \in S : f[s] = t]
  <1>1. \A t \in T : g[t] \in S /\ f[g[t]] = t
    OBVIOUS
  <1>2. g \in [T -> S]
    BY <1>1
  <1>3. g \in Injection(T, S)
    BY <1>1, <1>2 DEF Injection, IsInjective
  <1> HIDE DEF g
  <1> QED
    BY <1>3, FS_Injection

(* There are as many calls as payments may be made.                        *)
LEMMA CallsFinite == IsFiniteSet(Calls) /\ Cardinality(Calls) = MaxPayments
  <1>1. MaxPayments \in Nat /\ MaxPayments >= 1
    BY PaymentsAssumption
  <1> QED
    BY <1>1, FS_Interval DEF Calls

(* The nonce of an account stays within the number of payments.            *)
LEMMA NonceBounded ==
    ASSUME PInv, NEW a
    PROVE  Nonce(a) \in 0 .. MaxPayments
  <1> DEFINE T == {tx \in mined : tx.from = a}
             f == [i \in Calls |-> Signed(payments[i])]
  <1>1. \A t \in T : \E i \in Calls : f[i] = t
    BY DEF PInv, TakenOK
  <1> HIDE DEF f
  <1>2. IsFiniteSet(T) /\ Cardinality(T) <= MaxPayments
    BY <1>1, CallsFinite, NoMoreThanArguments
  <1>3. Cardinality(T) \in Nat
    BY <1>2, FS_CardinalityType
  <1> QED
    BY <1>2, <1>3, PaymentsAssumption DEF Nonce

(* What the node has taken of what a dialog showed was confirmed there.    *)
LEMMA InvariantConfirms == PInv => PaymentsAreConfirmed
  <1> SUFFICES ASSUME PInv, NEW s \in Shown
               PROVE  Cardinality({tx \in pool \cup mined :
                                      tx.from = s.from /\ tx.what = s.what})
                      <= Cardinality({i \in Calls :
                             payments[i] # None /\ payments[i].shown = s})
    BY DEF PaymentsAreConfirmed
  <1> DEFINE T == {tx \in pool \cup mined : tx.from = s.from /\ tx.what = s.what}
             S == {i \in Calls : payments[i] # None /\ payments[i].shown = s}
             f == [i \in Calls |-> Signed(payments[i])]
  <1>1. IsFiniteSet(S)
    BY CallsFinite, FS_Subset
  <1>2. ASSUME NEW t \in T
        PROVE  \E i \in S : f[i] = t
    <2>1. PICK i \in Calls : Sent(payments[i]) /\ Signed(payments[i]) = t
      BY DEF PInv, TakenOK
    <2>2. Confirmed(payments[i]) /\ payments[i] # None
      BY <2>1 DEF PInv, PaymentsOK, Sent
    <2>3. payments[i].from = s.from /\ payments[i].what = s.what
      BY <2>1 DEF Signed
    <2>4. payments[i].shown = [from |-> s.from, what |-> s.what]
      BY <2>2, <2>3 DEF Confirmed
    <2>5. s = [from |-> s.from, what |-> s.what]
      BY DEF Shown
    <2> QED
      BY <2>1, <2>2, <2>4, <2>5
  <1> HIDE DEF S, T, f
  <1>3. Cardinality(T) <= Cardinality(S)
    BY <1>1, <1>2, NoMoreThanArguments
  <1> QED
    BY <1>3 DEF S, T

----------------------------------------------------------------------------
(* Steps                                                                   *)

(* Sent payments that stay as signed account for what the node still has.  *)
LEMMA TakenKept ==
    ASSUME PInv,
           \A i \in Calls : Sent(payments[i]) =>
               Sent(payments'[i]) /\ Signed(payments'[i]) = Signed(payments[i]),
           pool' \cup mined' \subseteq pool \cup mined
    PROVE  TakenOK'
  BY DEF PInv, TakenOK

(* A payment is told from its absence.                                     *)
LEMMA NotNone == ASSUME NEW p \in Payment PROVE p # None
  BY NoneAssumption

(* At the start nothing was paid.                                          *)
LEMMA InitInv == Init => PInv
  <1> SUFFICES ASSUME Init PROVE PInv
    OBVIOUS
  <1>1. PaymentsOK
    BY DEF Init, PaymentsOK
  <1>2. DeskOK
    BY DEF Init, DeskOK, Desk, FreshDesk
  <1>3. TakenOK
    BY DEF Init, TakenOK
  <1> QED
    BY <1>1, <1>2, <1>3 DEF Init, PInv

(* The actions that touch no payment and nothing that the node has.        *)
LEMMA DeskSteps ==
    ASSUME PInv, UNCHANGED <<payments, pool, mined>>,
           \/ \E what \in Drafts : HandleSend(what)
           \/ HandleCancel
           \/ \E w \in [address : Addresses, unlocked : BOOLEAN] : SetWallet(w)
           \/ SlipFails
           \/ ConnectionReturns
    PROVE  PInv'
  <1>1. PaymentsOK' /\ TakenOK'
    BY DEF PInv, PaymentsOK, TakenOK
  <1>2. DeskOK'
    <2>1. CASE \E what \in Drafts : HandleSend(what)
      <3>1. PICK what \in Drafts : HandleSend(what)
        BY <2>1
      <3> DEFINE c == [from |-> wallet.address, what |-> what]
      <3>2. c \in Shown /\ c.from = wallet.address
        BY DEF PInv, Shown
      <3>3. place = "dashboard" /\ wallet' = wallet /\ place' = place
        BY <3>1 DEF HandleSend, Sendable, OnDesk
      <3>4. desk' = [desk EXCEPT !.status = "none", !.confirm = c]
        BY <3>1 DEF HandleSend
      <3> HIDE DEF c
      <3>5. desk' \in Desk /\ desk'.confirm = c
        BY <3>2, <3>4 DEF PInv, DeskOK, Desk
      <3> QED
        BY <3>2, <3>3, <3>5 DEF DeskOK
    <2>2. CASE HandleCancel
      BY <2>2 DEF PInv, HandleCancel, DeskOK, Desk
    <2>3. CASE \E w \in [address : Addresses, unlocked : BOOLEAN] : SetWallet(w)
      BY <2>3 DEF PInv, SetWallet, DeskOK
    <2>4. CASE SlipFails
      BY <2>4 DEF PInv, SlipFails, DeskOK
    <2>5. CASE ConnectionReturns
      BY <2>5 DEF PInv, ConnectionReturns, DeskOK, Desk
    <2> QED
      BY <2>1, <2>2, <2>3, <2>4, <2>5
  <1> QED
    BY <1>1, <1>2 DEF PInv, HandleSend, HandleCancel, SetWallet, SlipFails,
       ConnectionReturns

(* A press makes a payment of what the dialog shows.                       *)
LEMMA ConfirmStep ==
    ASSUME PInv, NEW i \in Calls, HandleConfirm(i)
    PROVE  PInv'
  <1> DEFINE p == [from |-> wallet.address, what |-> desk.confirm.what,
                   shown |-> desk.confirm, nonce |-> None, phase |-> "nonce",
                   ok |-> FALSE, here |-> TRUE, dialog |-> TRUE]
  <1>1. desk.confirm \in Shown /\ desk.confirm.from = wallet.address
    BY DEF HandleConfirm, Confirmable, PInv, DeskOK, Desk
  <1>2. Confirmed(p)
    BY <1>1 DEF Confirmed, Payment, Shown, PInv
  <1>3. payments' = [payments EXCEPT ![i] = p] /\ payments[i] = None
    BY DEF HandleConfirm
  <1>4. p \in Payment
    BY <1>2 DEF Confirmed
  <1> HIDE DEF p
  <1>5. /\ payments'[i] = p
        /\ \A j \in Calls : j # i => payments'[j] = payments[j]
        /\ payments' \in [Calls -> Payment \cup {None}]
    BY <1>3, <1>4 DEF PInv, PaymentsOK
  <1>6. PaymentsOK'
    BY <1>2, <1>5 DEF PInv, PaymentsOK
  <1>7. TakenOK'
    BY <1>3, <1>5, TakenKept DEF HandleConfirm, Sent
  <1>8. DeskOK'
    BY DEF HandleConfirm, DeskOK, PInv, Desk
  <1> QED
    BY <1>6, <1>7, <1>8 DEF PInv, HandleConfirm

(* What a change of one payment and of the desk has to show.               *)
LEMMA OnePaymentStep ==
    ASSUME PInv, NEW i \in Calls, NEW p,
           payments' = [payments EXCEPT ![i] = p],
           Confirmed(p),
           Sent(payments[i]) => Sent(p) /\ Signed(p) = Signed(payments[i])
    PROVE  /\ PaymentsOK'
           /\ payments'[i] = p
           /\ pool' \cup mined' \subseteq pool \cup mined => TakenOK'
  <1>1. /\ payments'[i] = p
        /\ \A j \in Calls : j # i => payments'[j] = payments[j]
        /\ payments' \in [Calls -> Payment \cup {None}]
    BY DEF PInv, PaymentsOK, Confirmed
  <1>2. PaymentsOK'
    BY <1>1 DEF PInv, PaymentsOK
  <1>3. \A j \in Calls : Sent(payments[j]) =>
            Sent(payments'[j]) /\ Signed(payments'[j]) = Signed(payments[j])
    BY <1>1
  <1> QED
    BY <1>1, <1>2, <1>3, TakenKept

(* The end of a payment leaves a desk that shows what it may.              *)
LEMMA OverStep ==
    ASSUME PInv, NEW i \in Calls, NEW ok \in BOOLEAN,
           payments[i] # None, PaymentOver(i, ok)
    PROVE  PInv'
  <1> DEFINE p == [payments[i] EXCEPT !.phase = "over", !.ok = ok]
  <1>1. Confirmed(payments[i])
    BY DEF PInv, PaymentsOK
  <1>2. Confirmed(p) /\ p \in Payment
    BY <1>1 DEF Confirmed, Payment
  <1>3. payments' = [payments EXCEPT ![i] = p]
    BY DEF PaymentOver, PInv, PaymentsOK
  <1>4. Signed(p) = Signed(payments[i]) /\ Sent(p)
    BY <1>1, <1>2, NotNone DEF Signed, Confirmed, Payment, Sent
  <1> HIDE DEF p
  <1>5. PaymentsOK' /\ TakenOK'
    BY <1>2, <1>3, <1>4, OnePaymentStep DEF PaymentOver
  <1>6. DeskOK'
    BY <1>1 DEF PaymentOver, DeskAfter, DeskOK, Desk, PInv, Confirmed, Payment
  <1> QED
    BY <1>5, <1>6 DEF PInv, PaymentOver

(* The node answers with a nonce within the bound.                         *)
LEMMA ReadStep ==
    ASSUME PInv, NEW i \in Calls, ReadNonce(i)
    PROVE  PInv'
  <1> DEFINE n == Nonce(payments[i].from)
             p == [payments[i] EXCEPT !.nonce = n, !.phase = "sign"]
  <1>1. Confirmed(payments[i]) /\ payments[i].phase = "nonce"
    BY DEF PInv, PaymentsOK, ReadNonce
  <1>2. n \in 0 .. MaxPayments /\ n # None
    BY NonceBounded, PaymentsAssumption
  <1> HIDE DEF n
  <1>3. Confirmed(p)
    BY <1>1, <1>2 DEF Confirmed, Payment
  <1>4. payments' = [payments EXCEPT ![i] = p]
    BY DEF ReadNonce, PInv, PaymentsOK, n
  <1>5. ~Sent(payments[i])
    BY <1>1 DEF Sent
  <1> HIDE DEF p
  <1>6. PaymentsOK' /\ TakenOK'
    BY <1>3, <1>4, <1>5, OnePaymentStep DEF ReadNonce
  <1>7. DeskOK'
    BY DEF PInv, DeskOK, ReadNonce
  <1> QED
    BY <1>6, <1>7 DEF PInv, ReadNonce

(* The node takes what was signed, which is what was confirmed.            *)
LEMMA SubmitStep ==
    ASSUME PInv, NEW i \in Calls, Submit(i)
    PROVE  PInv'
  <1>1. PICK accepted \in BOOLEAN, lost \in BOOLEAN :
           /\ pool' = IF accepted THEN pool \cup {Signed(payments[i])} ELSE pool
           /\ payments' = [payments EXCEPT ![i].phase = "answer",
                                           ![i].ok = SendRoute(accepted, lost)]
    BY DEF Submit
  <1> DEFINE p == [payments[i] EXCEPT !.phase = "answer",
                                      !.ok = SendRoute(accepted, lost)]
  <1>2. Confirmed(payments[i]) /\ payments[i].phase = "sign"
    BY DEF PInv, PaymentsOK, Submit
  <1>3. Confirmed(p) /\ p \in Payment
    BY <1>2 DEF Confirmed, Payment, SendRoute
  <1>4. payments' = [payments EXCEPT ![i] = p]
    BY <1>1 DEF PInv, PaymentsOK
  <1>5. Sent(p) /\ Signed(p) = Signed(payments[i])
    BY <1>2, <1>3, NotNone DEF Signed, Confirmed, Payment, Sent
  <1>6. ~Sent(payments[i])
    BY <1>2 DEF Sent
  <1>7. Signed(payments[i]) \in Transaction
    BY <1>2 DEF Confirmed, Payment, Signed, Transaction
  <1> HIDE DEF p
  <1>8. PaymentsOK' /\ payments'[i] = p
    BY <1>3, <1>4, <1>6, OnePaymentStep
  <1>9. \A j \in Calls : j # i => payments'[j] = payments[j]
    BY <1>4 DEF PInv, PaymentsOK
  <1>10. TakenOK'
    <2> SUFFICES ASSUME NEW tx \in pool' \cup mined'
                 PROVE  \E j \in Calls :
                           Sent(payments'[j]) /\ Signed(payments'[j]) = tx
      BY DEF TakenOK
    <2>1. tx \in pool \cup mined \/ tx = Signed(payments[i])
      BY <1>1 DEF Submit
    <2>2. CASE tx = Signed(payments[i])
      BY <2>2, <1>5, <1>8
    <2>3. CASE tx \in pool \cup mined
      <3>1. PICK j \in Calls : Sent(payments[j]) /\ Signed(payments[j]) = tx
        BY <2>3 DEF PInv, TakenOK
      <3> QED
        BY <3>1, <1>6, <1>9
    <2> QED
      BY <2>1, <2>2, <2>3
  <1>11. DeskOK'
    BY DEF PInv, DeskOK, Submit
  <1>12. pool' \subseteq Transaction /\ mined' \subseteq Transaction
    BY <1>1, <1>7 DEF PInv, Submit
  <1> QED
    BY <1>8, <1>10, <1>11, <1>12 DEF PInv, Submit

(* Payments whose page or dialog goes away stay what they are.             *)
LEMMA Detached ==
    ASSUME PInv, NEW h \in BOOLEAN,
           payments' = [i \in Calls |-> IF payments[i] = None THEN None
                           ELSE [payments[i] EXCEPT !.here = h /\ @,
                                                    !.dialog = FALSE]],
           UNCHANGED <<pool, mined>>
    PROVE  PaymentsOK' /\ TakenOK'
  <1> DEFINE q(i) == [payments[i] EXCEPT !.here = h /\ @, !.dialog = FALSE]
  <1>1. ASSUME NEW i \in Calls, payments[i] # None
        PROVE  /\ Confirmed(q(i)) /\ q(i) \in Payment
               /\ Signed(q(i)) = Signed(payments[i])
               /\ q(i).phase = payments[i].phase
    <2>1. Confirmed(payments[i])
      BY <1>1 DEF PInv, PaymentsOK
    <2> QED
      BY <2>1 DEF Confirmed, Payment, Signed
  <1>2. \A i \in Calls :
            payments'[i] = IF payments[i] = None THEN None ELSE q(i)
    OBVIOUS
  <1>3. payments' = [i \in Calls |-> payments'[i]]
    OBVIOUS
  <1> HIDE DEF q
  <1>4. \A i \in Calls : payments'[i] \in Payment \cup {None}
    BY <1>1, <1>2
  <1>5. payments' \in [Calls -> Payment \cup {None}]
    BY <1>3, <1>4
  <1>6. PaymentsOK'
    BY <1>1, <1>2, <1>5 DEF PaymentsOK
  <1>7. \A i \in Calls : Sent(payments[i]) =>
            Sent(payments'[i]) /\ Signed(payments'[i]) = Signed(payments[i])
    BY <1>1, <1>2, NotNone DEF Sent
  <1> QED
    BY <1>6, <1>7, TakenKept

(* Another page, or a lost connection: the payments go on without it.      *)
LEMMA LeaveStep == PInv /\ (Go \/ ConnectionFails) => PInv'
  <1>1. ASSUME PInv, Go PROVE PInv'
    <2>1. \A i \in Calls : payments[i] # None => payments[i] \in Payment
      BY <1>1 DEF PInv, PaymentsOK
    <2>2. payments' = [i \in Calls |-> IF payments[i] = None THEN None
                          ELSE [payments[i] EXCEPT !.here = FALSE /\ @,
                                                   !.dialog = FALSE]]
      BY <1>1, <2>1 DEF Go, Payment
    <2>3. PaymentsOK' /\ TakenOK'
      BY <1>1, <2>2, Detached DEF Go
    <2>4. DeskOK'
      BY <1>1 DEF Go, DeskOK, Desk, FreshDesk
    <2> QED
      BY <1>1, <2>3, <2>4 DEF PInv, Go
  <1>2. ASSUME PInv, ConnectionFails PROVE PInv'
    <2>1. \A i \in Calls : payments[i] # None => payments[i] \in Payment
      BY <1>2 DEF PInv, PaymentsOK
    <2>2. payments' = [i \in Calls |-> IF payments[i] = None THEN None
                          ELSE [payments[i] EXCEPT !.here = TRUE /\ @,
                                                   !.dialog = FALSE]]
      BY <1>2, <2>1 DEF ConnectionFails, Payment
    <2>3. PaymentsOK' /\ TakenOK'
      BY <1>2, <2>2, Detached DEF ConnectionFails
    <2>4. DeskOK'
      BY <1>2 DEF ConnectionFails, DeskOK, Desk, PInv
    <2> QED
      BY <1>2, <2>3, <2>4 DEF PInv, ConnectionFails
  <1> QED
    BY <1>1, <1>2

(* A block takes a transaction that the node has.                          *)
LEMMA MineStep == PInv /\ Mine => PInv'
  <1> SUFFICES ASSUME PInv, Mine PROVE PInv'
    OBVIOUS
  <1>1. pool' \cup mined' \subseteq pool \cup mined
    BY DEF Mine
  <1>2. PaymentsOK' /\ TakenOK'
    BY <1>1, TakenKept DEF Mine, PInv, PaymentsOK
  <1>3. pool' \subseteq Transaction /\ mined' \subseteq Transaction
    BY <1>1 DEF PInv
  <1> QED
    BY <1>2, <1>3 DEF PInv, Mine, DeskOK

(* Every step keeps the invariant.                                         *)
LEMMA StepInv == PInv /\ [Next]_vars => PInv'
  <1> SUFFICES ASSUME PInv, [Next]_vars PROVE PInv'
    OBVIOUS
  <1>1. CASE UNCHANGED vars
    BY <1>1 DEF vars, PInv, PaymentsOK, DeskOK, TakenOK
  <1>2. ASSUME NEW what \in Drafts, HandleSend(what) PROVE PInv'
    BY <1>2, DeskSteps DEF HandleSend
  <1>3. CASE HandleCancel
    BY <1>3, DeskSteps DEF HandleCancel
  <1>4. ASSUME NEW i \in Calls, HandleConfirm(i) PROVE PInv'
    BY <1>4, ConfirmStep
  <1>5. ASSUME NEW i \in Calls, ReadNonce(i) PROVE PInv'
    BY <1>5, ReadStep
  <1>6. ASSUME NEW i \in Calls, NonceFails(i) PROVE PInv'
    BY <1>6, OverStep DEF NonceFails
  <1>7. ASSUME NEW i \in Calls, Submit(i) PROVE PInv'
    BY <1>7, SubmitStep
  <1>8. ASSUME NEW i \in Calls, PaymentEnds(i) PROVE PInv'
    <2>1. payments[i] # None /\ payments[i] \in Payment
      BY <1>8 DEF PaymentEnds, PInv, PaymentsOK
    <2>2. payments[i].ok \in BOOLEAN
      BY <2>1 DEF Payment
    <2> QED
      BY <1>8, <2>1, <2>2, OverStep DEF PaymentEnds
  <1>9. CASE Go \/ ConnectionFails
    BY <1>9, LeaveStep
  <1>10. ASSUME NEW w \in [address : Addresses, unlocked : BOOLEAN],
                SetWallet(w)
         PROVE  PInv'
    BY <1>10, DeskSteps DEF SetWallet
  <1>11. CASE SlipFails
    BY <1>11, DeskSteps DEF SlipFails
  <1>12. CASE ConnectionReturns
    BY <1>12, DeskSteps DEF ConnectionReturns
  <1>13. CASE Mine
    BY <1>13, MineStep
  <1> QED
    BY <1>1, <1>2, <1>3, <1>4, <1>5, <1>6, <1>7, <1>8, <1>9, <1>10, <1>11,
       <1>12, <1>13 DEF Next

(* The invariant holds in every state of every behaviour.                  *)
LEMMA InvariantHolds == Spec => []PInv
  BY InitInv, StepInv, PTL DEF Spec

(* Every variable has its type; a nonce is at most the number of payments. *)
THEOREM PaymentsTypeCorrect == Spec => []TypeOK
  BY InvariantHolds, InvariantTypes, PTL

(* The node gets of the page what was confirmed, as often as it was.       *)
THEOREM PaymentsAreConfirmedCorrect == Spec => []PaymentsAreConfirmed
  BY InvariantHolds, InvariantConfirms, PTL

----------------------------------------------------------------------------
(* One payment at a time                                                   *)

(* The payments of the page that the dialog waits for.                     *)
Awaited(i) == InFlight(i) /\ payments[i].here /\ payments[i].dialog

PaidLarge(i) ==
    payments[i] # None /\ payments[i].here /\ payments[i].what \in Large

(* Calls are made in their order.                                          *)
Ordered == \A i, j \in Calls : i < j /\ payments[j] # None => payments[i] # None

(* As long as the page has paid nothing large, its dialog is loading while *)
(* it waits for a payment.                                                 *)
LoadingOK ==
    (\A k \in Calls : ~PaidLarge(k)) => \A i \in Calls : Awaited(i) => desk.loading

OneInv == Ordered /\ OneAtATime /\ LoadingOK

(* One at a time, in the terms of this section.                            *)
LEMMA OneMeaning ==
    OneAtATime <=>
        \A i, j \in Calls :
            i < j /\ Awaited(i) /\ InFlight(j) /\ payments[j].here
                => \E k \in 1..j : PaidLarge(k)
  BY DEF OneAtATime, Awaited, PaidLarge

(* Without a large payment the dialog waits for one payment at most.       *)
LEMMA AwaitedAlone ==
    ASSUME OneInv, \A k \in Calls : ~PaidLarge(k),
           NEW i \in Calls, NEW j \in Calls, Awaited(i), Awaited(j)
    PROVE  i = j
  <1>1. MaxPayments \in Nat
    BY PaymentsAssumption
  <1>2. \A m \in Calls : 1..m \subseteq Calls /\ m \in Int
    BY <1>1 DEF Calls
  <1>3. ~(i < j) /\ ~(j < i)
    BY <1>2, OneMeaning DEF OneInv, Awaited
  <1> QED
    BY <1>2, <1>3

(* Payments that go on, end or lose their page or dialog do no harm if the *)
(* dialog loads as long as it waits.                                       *)
LEMMA OneKept ==
    ASSUME OneInv,
           \A i \in Calls :
               /\ payments'[i] # None <=> payments[i] # None
               /\ InFlight(i)' => InFlight(i)
               /\ InFlight(i)' /\ payments'[i].here => payments[i].here
               /\ Awaited(i)' => Awaited(i)
               /\ (\E j \in Calls : InFlight(j)' /\ payments'[j].here)
                     /\ PaidLarge(i) => PaidLarge(i)',
           LoadingOK'
    PROVE  OneInv'
  <1>1. MaxPayments \in Nat /\ \A m \in Calls : 1..m \subseteq Calls
    BY PaymentsAssumption DEF Calls
  <1>2. Ordered'
    BY DEF OneInv, Ordered
  <1>3. ASSUME NEW i \in Calls, NEW j \in Calls, i < j, Awaited(i)',
               InFlight(j)', payments'[j].here
        PROVE  \E k \in 1..j : PaidLarge(k)'
    BY <1>1, <1>3, OneMeaning DEF OneInv
  <1>4. OneAtATime'
    BY <1>3 DEF OneAtATime, Awaited, PaidLarge
  <1> QED
    BY <1>2, <1>4 DEF OneInv

(* A step that changes neither the payments nor what the dialog loads.     *)
LEMMA OneSame ==
    ASSUME OneInv, payments' = payments, desk'.loading = desk.loading
    PROVE  OneInv'
  BY DEF OneInv, Ordered, OneAtATime, LoadingOK, Awaited, PaidLarge, InFlight

(* A step that changes one payment that is in flight, and not where it is. *)
LEMMA OneChanges ==
    ASSUME PInv, OneInv, NEW i \in Calls, InFlight(i), NEW p \in Payment,
           payments' = [payments EXCEPT ![i] = p],
           p.here = payments[i].here, p.dialog = payments[i].dialog,
           p.what = payments[i].what,
           LoadingOK'
    PROVE  OneInv'
  <1>1. /\ payments'[i] = p
        /\ \A j \in Calls : j # i => payments'[j] = payments[j]
    BY DEF PInv, PaymentsOK
  <1>2. p # None /\ payments[i] # None
    BY NotNone DEF InFlight
  <1> QED
    BY <1>1, <1>2, OneKept DEF InFlight, Awaited, PaidLarge

(* The payment that ends may enable the button: no other is awaited then.  *)
LEMMA OneOver ==
    ASSUME PInv, OneInv, NEW i \in Calls, NEW ok \in BOOLEAN,
           InFlight(i), PaymentOver(i, ok)
    PROVE  OneInv'
  <1> DEFINE p == [payments[i] EXCEPT !.phase = "over", !.ok = ok]
  <1>1. payments[i] \in Payment
    BY DEF PInv, PaymentsOK, InFlight
  <1>2. payments' = [payments EXCEPT ![i] = p]
    BY DEF PaymentOver, PInv, PaymentsOK
  <1>3. /\ p \in Payment /\ p.phase = "over"
        /\ p.here = payments[i].here /\ p.dialog = payments[i].dialog
        /\ p.what = payments[i].what
    BY <1>1 DEF Payment
  <1> HIDE DEF p
  <1>4. /\ payments'[i] = p
        /\ \A j \in Calls : j # i => payments'[j] = payments[j]
    BY <1>2 DEF PInv, PaymentsOK
  <1>5. LoadingOK'
    <2> SUFFICES ASSUME \A k \in Calls : ~PaidLarge(k)',
                        NEW j \in Calls, Awaited(j)'
                 PROVE  desk'.loading
      BY DEF LoadingOK
    <2>1. j # i
      BY <1>3, <1>4 DEF Awaited, InFlight
    <2>2. Awaited(j)
      BY <1>4, <2>1 DEF Awaited, InFlight
    <2>3. \A k \in Calls : ~PaidLarge(k)
      BY <1>3, <1>4, NotNone DEF PaidLarge, InFlight
    <2>4. desk.loading
      BY <2>2, <2>3 DEF OneInv, LoadingOK
    <2>5. ~Awaited(i)
      BY <2>1, <2>2, <2>3, AwaitedAlone
    <2>6. ~payments[i].here \/ ~payments[i].dialog
      BY <2>5 DEF Awaited
    <2>7. payments[i].here \in BOOLEAN /\ payments[i].dialog \in BOOLEAN
      BY <1>1 DEF Payment
    <2>8. desk' = DeskAfter(payments[i], ok) /\ desk \in Desk
      BY DEF PaymentOver, PInv, DeskOK
    <2> QED
      BY <2>4, <2>6, <2>7, <2>8 DEF DeskAfter, Desk
  <1> QED
    BY <1>2, <1>3, <1>5, OneChanges

(* A payment that goes on without the page.                                *)
LEMMA OneGoesOn ==
    ASSUME PInv, OneInv, NEW i \in Calls, ReadNonce(i) \/ Submit(i)
    PROVE  OneInv'
  <1>1. payments[i] \in Payment /\ InFlight(i) /\ desk' = desk
    BY DEF PInv, PaymentsOK, InFlight, ReadNonce, Submit
  <1>2. PICK p \in Payment :
                 /\ payments' = [payments EXCEPT ![i] = p]
                 /\ p.here = payments[i].here /\ p.dialog = payments[i].dialog
                 /\ p.what = payments[i].what
    <2>1. CASE ReadNonce(i)
      <3> DEFINE n == Nonce(payments[i].from)
                 p == [payments[i] EXCEPT !.nonce = n, !.phase = "sign"]
      <3>1. payments' = [payments EXCEPT ![i] = p]
        BY <2>1 DEF ReadNonce, PInv, PaymentsOK
      <3>2. n \in 0 .. MaxPayments
        BY NonceBounded
      <3> HIDE DEF n
      <3>3. /\ p \in Payment
            /\ p.here = payments[i].here /\ p.dialog = payments[i].dialog
            /\ p.what = payments[i].what
        BY <1>1, <3>2 DEF Payment
      <3> HIDE DEF p
      <3> QED
        BY <3>1, <3>3
    <2>2. CASE Submit(i)
      <3>1. PICK accepted \in BOOLEAN, lost \in BOOLEAN :
               payments' = [payments EXCEPT ![i].phase = "answer",
                                            ![i].ok = SendRoute(accepted, lost)]
        BY <2>2 DEF Submit
      <3> DEFINE p == [payments[i] EXCEPT !.phase = "answer",
                                          !.ok = SendRoute(accepted, lost)]
      <3>2. payments' = [payments EXCEPT ![i] = p]
        BY <3>1 DEF PInv, PaymentsOK
      <3>3. /\ p \in Payment
            /\ p.here = payments[i].here /\ p.dialog = payments[i].dialog
            /\ p.what = payments[i].what
        BY <1>1 DEF Payment, SendRoute
      <3> HIDE DEF p
      <3> QED
        BY <3>2, <3>3
    <2> QED
      BY <2>1, <2>2
  <1>3. /\ payments'[i] = p
        /\ \A j \in Calls : j # i => payments'[j] = payments[j]
    BY <1>2 DEF PInv, PaymentsOK
  <1>4. LoadingOK'
    BY <1>1, <1>2, <1>3, NotNone
       DEF OneInv, LoadingOK, Awaited, PaidLarge, InFlight
  <1> QED
    BY <1>1, <1>2, <1>4, OneChanges

(* A new payment beside an awaited one is large, or something was.         *)
LEMMA OneConfirmed ==
    ASSUME PInv, OneInv, NEW i \in Calls, HandleConfirm(i)
    PROVE  OneInv'
  <1> DEFINE p == [from |-> wallet.address, what |-> desk.confirm.what,
                   shown |-> desk.confirm, nonce |-> None, phase |-> "nonce",
                   ok |-> FALSE, here |-> TRUE, dialog |-> TRUE]
  <1>1. /\ payments' = [payments EXCEPT ![i] = p] /\ payments[i] = None
        /\ \A j \in Calls : j < i => payments[j] # None
        /\ desk.loading => desk.confirm.what \in Large
    BY DEF HandleConfirm, Confirmable
  <1>2. p.what = desk.confirm.what /\ p.here
    OBVIOUS
  <1> HIDE DEF p
  <1>3. /\ payments'[i] = p
        /\ \A j \in Calls : j # i => payments'[j] = payments[j]
    BY <1>1 DEF PInv, PaymentsOK
  <1>4. p # None
    <2>1. PInv'
      BY ConfirmStep
    <2>2. p.what = desk.confirm.what /\ p \in Payment
      <3>1. desk.confirm \in Shown
        BY DEF HandleConfirm, Confirmable, PInv, DeskOK, Desk
      <3> QED
        BY <3>1 DEF p, Payment, Shown, PInv
    <2> QED
      BY <2>2, NotNone
  <1>5. MaxPayments \in Nat /\ \A m \in Calls : m \in Int /\ 1..m \subseteq Calls
    BY PaymentsAssumption DEF Calls
  <1>6. \A j \in Calls : payments[j] # None => j < i
    BY <1>1, <1>5 DEF OneInv, Ordered
  <1>7. Ordered'
    BY <1>1, <1>3, <1>5, <1>6 DEF Ordered
  <1>8. \A k \in Calls : PaidLarge(k) => PaidLarge(k)' /\ k < i
    BY <1>1, <1>3, <1>6 DEF PaidLarge
  <1>9. ASSUME NEW a \in Calls, NEW b \in Calls, a < b, Awaited(a)',
               InFlight(b)', payments'[b].here
        PROVE  \E k \in 1..b : PaidLarge(k)'
    <2>1. a # i
      BY <1>3, <1>5, <1>6, <1>9 DEF InFlight
    <2>2. Awaited(a)
      BY <1>3, <1>9, <2>1 DEF Awaited, InFlight
    <2>3. CASE b = i
      <3>1. CASE \E k \in Calls : PaidLarge(k)
        BY <1>5, <1>8, <2>3, <3>1 DEF Calls
      <3>2. CASE \A k \in Calls : ~PaidLarge(k)
        <4>1. desk.loading
          BY <2>2, <3>2 DEF OneInv, LoadingOK
        <4>2. PaidLarge(i)'
          BY <1>1, <1>2, <1>3, <1>4, <4>1 DEF PaidLarge
        <4>3. i \in 1..b
          BY <1>5, <2>3 DEF Calls
        <4> QED
          BY <4>2, <4>3
      <3> QED
        BY <3>1, <3>2
    <2>4. CASE b # i
      <3>1. InFlight(b) /\ payments[b].here
        BY <1>3, <1>9, <2>4 DEF InFlight
      <3>2. PICK k \in 1..b : PaidLarge(k)
        BY <1>9, <2>2, <3>1, OneMeaning DEF OneInv
      <3> QED
        BY <1>5, <1>8, <3>2
    <2> QED
      BY <2>3, <2>4
  <1>10. OneAtATime'
    BY <1>9 DEF OneAtATime, Awaited, PaidLarge
  <1>11. LoadingOK'
    BY DEF LoadingOK, HandleConfirm, PInv, DeskOK, Desk
  <1> QED
    BY <1>7, <1>10, <1>11 DEF OneInv

(* Leaving the page ends what it paid; without a dialog nothing waits.     *)
LEMMA OneLeaves ==
    ASSUME PInv, OneInv, Go \/ ConnectionFails
    PROVE  OneInv'
  <1>1. ASSUME NEW i \in Calls, payments[i] # None
        PROVE  /\ payments'[i] # None
               /\ ~payments'[i].dialog
               /\ payments'[i].phase = payments[i].phase
               /\ payments'[i].what = payments[i].what
               /\ payments'[i].here => payments[i].here
               /\ Go => ~payments'[i].here
               /\ ConnectionFails => payments'[i].here = payments[i].here
    <2>1. payments[i] \in Payment
      BY <1>1 DEF PInv, PaymentsOK
    <2>2. CASE Go
      <3> DEFINE p == [payments[i] EXCEPT !.here = FALSE, !.dialog = FALSE]
      <3>1. payments'[i] = p
        BY <1>1, <2>2 DEF Go
      <3>2. /\ p \in Payment /\ ~p.dialog /\ p.phase = payments[i].phase
            /\ p.what = payments[i].what /\ ~p.here
        BY <2>1 DEF Payment
      <3>3. ~ConnectionFails
        BY <2>2 DEF Go, ConnectionFails, OnDesk
      <3> HIDE DEF p
      <3> QED
        BY <3>1, <3>2, <3>3, NotNone
    <2>3. CASE ConnectionFails
      <3> DEFINE p == [payments[i] EXCEPT !.dialog = FALSE]
      <3>1. payments'[i] = p
        BY <1>1, <2>3 DEF ConnectionFails
      <3>2. /\ p \in Payment /\ ~p.dialog /\ p.phase = payments[i].phase
            /\ p.what = payments[i].what /\ p.here = payments[i].here
        BY <2>1 DEF Payment
      <3>3. ~Go
        BY <2>3 DEF Go, ConnectionFails, OnDesk
      <3> HIDE DEF p
      <3> QED
        BY <3>1, <3>2, <3>3, NotNone
    <2> QED
      BY <2>2, <2>3
  <1>2. \A i \in Calls : payments[i] = None => payments'[i] = None
    BY DEF Go, ConnectionFails
  <1>3. \A i \in Calls : ~Awaited(i)'
    BY <1>1, <1>2 DEF Awaited, InFlight
  <1>4. LoadingOK'
    BY <1>3 DEF LoadingOK
  <1>5. ASSUME NEW i \in Calls
        PROVE  /\ payments'[i] # None <=> payments[i] # None
               /\ InFlight(i)' => InFlight(i)
               /\ InFlight(i)' /\ payments'[i].here => payments[i].here
    BY <1>1, <1>2 DEF InFlight
  <1>6. ASSUME NEW i \in Calls, NEW j \in Calls, InFlight(j)', payments'[j].here,
               PaidLarge(i)
        PROVE  PaidLarge(i)'
    BY <1>1, <1>2, <1>6 DEF PaidLarge, InFlight
  <1> QED
    BY <1>3, <1>4, <1>5, <1>6, OneKept

(* Every step keeps the page to one payment at a time.                     *)
LEMMA OneStep == PInv /\ OneInv /\ [Next]_vars => OneInv'
  <1> SUFFICES ASSUME PInv, OneInv, [Next]_vars PROVE OneInv'
    OBVIOUS
  <1> USE DEF PInv, DeskOK, Desk
  <1>1. CASE UNCHANGED vars
    BY <1>1, OneSame DEF vars
  <1>2. ASSUME NEW what \in Drafts, HandleSend(what) PROVE OneInv'
    BY <1>2, OneSame DEF HandleSend
  <1>3. CASE HandleCancel
    BY <1>3, OneSame DEF HandleCancel
  <1>4. ASSUME NEW i \in Calls, HandleConfirm(i) PROVE OneInv'
    BY <1>4, OneConfirmed
  <1>5. ASSUME NEW i \in Calls, ReadNonce(i) \/ Submit(i) PROVE OneInv'
    BY <1>5, OneGoesOn
  <1>6. ASSUME NEW i \in Calls, NonceFails(i) PROVE OneInv'
    BY <1>6, OneOver DEF NonceFails, InFlight
  <1>7. ASSUME NEW i \in Calls, PaymentEnds(i) PROVE OneInv'
    <2>1. payments[i] # None /\ payments[i] \in Payment
      BY <1>7 DEF PaymentEnds, PInv, PaymentsOK
    <2>2. payments[i].ok \in BOOLEAN
      BY <2>1 DEF Payment
    <2> QED
      BY <1>7, <2>1, <2>2, OneOver DEF PaymentEnds, InFlight
  <1>8. CASE Go \/ ConnectionFails
    BY <1>8, OneLeaves
  <1>9. ASSUME NEW w \in [address : Addresses, unlocked : BOOLEAN], SetWallet(w)
        PROVE  OneInv'
    BY <1>9, OneSame DEF SetWallet
  <1>10. CASE SlipFails
    BY <1>10, OneSame DEF SlipFails
  <1>11. CASE ConnectionReturns
    BY <1>11, OneSame DEF ConnectionReturns
  <1>12. CASE Mine
    BY <1>12, OneSame DEF Mine
  <1> QED
    BY <1>1, <1>2, <1>3, <1>4, <1>5, <1>6, <1>7, <1>8, <1>9, <1>10, <1>11,
       <1>12 DEF Next

(* Payments of one page overlap only for the two reasons that are named.   *)
THEOREM OneAtATimeCorrect == Spec => []OneAtATime
  <1>1. Init => OneInv
    BY DEF Init, OneInv, Ordered, OneAtATime, LoadingOK, Awaited, InFlight
  <1>2. OneInv => OneAtATime
    BY DEF OneInv
  <1> QED
    BY <1>1, <1>2, OneStep, InvariantHolds, PTL DEF Spec
=============================================================================
