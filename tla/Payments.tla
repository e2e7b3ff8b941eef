------------------------------ MODULE Payments ------------------------------
(***************************************************************************)
(* Paying from the dashboard: the form and executeTransaction of           *)
(* ui/src/app/testnet/page.tsx, the dialog of TransactionConfirmation.tsx, *)
(* the route that hands the transaction on, and what the node makes of it. *)
(*                                                                         *)
(* A payment awaits the nonce and then the answer of the node; meanwhile   *)
(* the user may close the dialog, confirm again or leave the page, the     *)
(* page may lose its connection, and the wallet may change.                *)
(***************************************************************************)
EXTENDS Integers, FiniteSets

CONSTANTS
    Addresses,     \* the wallets of the user
    Drafts,        \* a recipient with an amount
    Large,         \* those of more than 1000 NCC, which ask for a password
    MaxPayments,   \* bound: how often a dialog is confirmed
    None

ASSUME PaymentsAssumption ==
    /\ IsFiniteSet(Addresses) /\ Addresses # {}
    /\ Large \subseteq Drafts
    /\ MaxPayments \in Nat \ {0}
    /\ None \notin Addresses \cup Nat

VARIABLES
    wallet,     \* the connected wallet: its address, and whether it is unlocked
    place,      \* the page: "dashboard" or "wallet"
    desk,       \* the state of the dashboard and of its dialog
    slip,       \* the status of the wallet page's own send form
    payments,   \* the calls of executeTransaction, in the order of the presses
    pool,       \* the transactions in the node's mempool
    mined       \* and in its chain

vars == <<wallet, place, desk, slip, payments, pool, mined>>

Calls == 1..MaxPayments

\* TransactionData: what the dialog shows.
Shown == [from : Addresses, what : Drafts]

Transaction == [from : Addresses, what : Drafts, nonce : 0..MaxPayments]

\* confirm: the transaction of the open dialog; loading: of the dialog, whose
\* state outlives its being closed; offline: the dashboard shows that there is
\* no connection in place of all else.
Desk == [confirm : Shown \cup {None}, sending : BOOLEAN, loading : BOOLEAN,
         status : {"none", "success", "error"}, offline : BOOLEAN]

FreshDesk == [confirm |-> None, sending |-> FALSE, loading |-> FALSE,
              status |-> "none", offline |-> FALSE]

\* from, what: as executeTransaction reads them; shown: what was confirmed;
\* here, dialog: whether the page and the dialog it was started from are mounted.
Payment == [from : Addresses, what : Drafts, shown : Shown,
            nonce : 0..MaxPayments \cup {None},
            phase : {"nonce", "sign", "answer", "over"}, ok : BOOLEAN,
            here : BOOLEAN, dialog : BOOLEAN]

\* None is no value that stands beside it.
ASSUME NoneAssumption == None \notin Payment \cup Shown

InFlight(i) == payments[i] # None /\ payments[i].phase # "over"

\* The nonce of an account: the number of its transactions in the chain.
Nonce(a) == Cardinality({tx \in mined : tx.from = a})

Init ==
    /\ wallet \in [address : Addresses, unlocked : BOOLEAN]
    /\ place = "dashboard"
    /\ desk = FreshDesk
    /\ slip = "none"
    /\ payments = [i \in Calls |-> None]
    /\ pool = {} /\ mined = {}

----------------------------------------------------------------------------
(* The form and the dialog                                                 *)

OnDesk == place = "dashboard" /\ ~desk.offline

\* The form is there when the wallet is unlocked, its button is disabled while
\* a payment is being sent, and the dialog covers it.
Sendable == OnDesk /\ wallet.unlocked /\ ~desk.sending /\ desk.confirm = None

HandleSend(what) ==
    /\ Sendable
    /\ desk' = [desk EXCEPT !.status = "none",
                            !.confirm = [from |-> wallet.address, what |-> what]]
    /\ UNCHANGED <<wallet, place, slip, payments, pool, mined>>

\* handleCancel, by the cross, which is never disabled.
HandleCancel ==
    /\ OnDesk /\ desk.confirm # None
    /\ desk' = [desk EXCEPT !.confirm = None]
    /\ UNCHANGED <<wallet, place, slip, payments, pool, mined>>

\* Mutant: the button is not disabled.
ConfirmableAlways == desk.confirm # None

\* The button is disabled while the dialog is loading; Enter in the password
\* field, which is there for a large amount, is not.
Confirmable == desk.confirm # None /\ (desk.loading => desk.confirm.what \in Large)

\* handleConfirm, and executeTransaction up to its first await.
HandleConfirm(i) ==
    /\ OnDesk /\ Confirmable /\ wallet.unlocked
    /\ payments[i] = None /\ \A j \in Calls : j < i => payments[j] # None
    /\ desk' = [desk EXCEPT !.sending = TRUE, !.loading = TRUE, !.status = "none"]
    /\ payments' = [payments EXCEPT ![i] =
          [from |-> wallet.address, what |-> desk.confirm.what,
           shown |-> desk.confirm, nonce |-> None, phase |-> "nonce",
           ok |-> FALSE, here |-> TRUE, dialog |-> TRUE]]
    /\ UNCHANGED <<wallet, place, slip, pool, mined>>

----------------------------------------------------------------------------
(* executeTransaction after its awaits                                     *)

\* Mutant: the payment that fails leaves the page as it is.
DeskAfterNoFinally(p, ok) ==
    IF ~p.here THEN desk
    ELSE [desk EXCEPT !.status = IF ok THEN "success" ELSE "error",
                      !.confirm = IF ok THEN None ELSE @,
                      !.sending = ~ok /\ @]

\* How the page looks when payment p ends: the finally clauses of
\* executeTransaction and of handleConfirm.
DeskAfter(p, ok) ==
    IF ~p.here THEN desk
    ELSE [desk EXCEPT !.status = IF ok THEN "success" ELSE "error",
                      !.confirm = IF ok THEN None ELSE @,
                      !.sending = FALSE,
                      !.loading = ~p.dialog /\ @]

PaymentOver(i, ok) ==
    /\ payments' = [payments EXCEPT ![i].phase = "over", ![i].ok = ok]
    /\ desk' = DeskAfter(payments[i], ok)
    /\ UNCHANGED <<wallet, place, slip, pool, mined>>

\* Mutant: the transaction is signed by the wallet of now.
ReadNonceLate(i) ==
    /\ payments[i] # None /\ payments[i].phase = "nonce"
    /\ payments' = [payments EXCEPT ![i].nonce = Nonce(payments[i].from),
                                    ![i].from = wallet.address,
                                    ![i].phase = "sign"]
    /\ UNCHANGED <<wallet, place, desk, slip, pool, mined>>

\* Mutant: the answer's status is not looked at.
ReadNonceUnchecked(i) ==
    /\ payments[i] # None /\ payments[i].phase = "nonce"
    /\ payments' = [payments EXCEPT ![i].phase = "sign"]
    /\ UNCHANGED <<wallet, place, desk, slip, pool, mined>>

\* The node answers with the nonce of its state.
ReadNonce(i) ==
    /\ payments[i] # None /\ payments[i].phase = "nonce"
    /\ payments' = [payments EXCEPT ![i].nonce = Nonce(payments[i].from),
                                    ![i].phase = "sign"]
    /\ UNCHANGED <<wallet, place, desk, slip, pool, mined>>

NonceFails(i) ==
    /\ payments[i] # None /\ payments[i].phase = "nonce"
    /\ PaymentOver(i, FALSE)

\* The signed transaction, which is the same whenever the same is signed.
Signed(p) == [from |-> p.from, what |-> p.what, nonce |-> p.nonce]

\* What the page learns from the route: a success when the node took the
\* transaction and its answer came back.
SendRoute(accepted, lost) == accepted /\ ~lost

\* The node takes the transaction or refuses it, as it must when the nonce is
\* used; the answer, or the request, may be lost on its way through the route.
Submit(i) ==
    /\ payments[i] # None /\ payments[i].phase = "sign"
    /\ \E accepted, lost \in BOOLEAN :
           /\ accepted => payments[i].nonce >= Nonce(payments[i].from)
           /\ pool' = IF accepted THEN pool \cup {Signed(payments[i])}
                      ELSE pool
           /\ payments' = [payments EXCEPT ![i].phase = "answer",
                                           ![i].ok = SendRoute(accepted, lost)]
    /\ UNCHANGED <<wallet, place, desk, slip, mined>>

PaymentEnds(i) ==
    /\ payments[i] # None /\ payments[i].phase = "answer"
    /\ PaymentOver(i, payments[i].ok)

----------------------------------------------------------------------------
(* What else happens                                                       *)

\* The other page is opened; the state of the one that is left is gone.
Go ==
    /\ place' = IF place = "dashboard" THEN "wallet" ELSE "dashboard"
    /\ desk' = FreshDesk /\ slip' = "none"
    /\ payments' = [i \in Calls |-> IF payments[i] = None THEN None
                       ELSE [payments[i] EXCEPT !.here = FALSE, !.dialog = FALSE]]
    /\ UNCHANGED <<wallet, pool, mined>>

\* The user locks or unlocks the wallet, or logs out and in with another one.
SetWallet(w) ==
    /\ place = "wallet"
    /\ wallet' = w
    /\ UNCHANGED <<place, desk, slip, payments, pool, mined>>

\* handleSend of SendView: it reads a wallet that it was not given, and fails.
SlipFails ==
    /\ place = "wallet" /\ wallet.unlocked
    /\ slip' = "error"
    /\ UNCHANGED <<wallet, place, desk, payments, pool, mined>>

\* fetchStats fails: the dialog is unmounted, and its state is gone.
ConnectionFails ==
    /\ OnDesk
    /\ desk' = [desk EXCEPT !.offline = TRUE, !.loading = FALSE]
    /\ payments' = [i \in Calls |-> IF payments[i] = None THEN None
                                    ELSE [payments[i] EXCEPT !.dialog = FALSE]]
    /\ UNCHANGED <<wallet, place, slip, pool, mined>>

ConnectionReturns ==
    /\ place = "dashboard" /\ desk.offline
    /\ desk' = [desk EXCEPT !.offline = FALSE]
    /\ UNCHANGED <<wallet, place, slip, payments, pool, mined>>

\* A block takes the transaction with the next nonce of its sender.
Mine ==
    /\ \E tx \in pool :
           /\ tx.nonce = Nonce(tx.from)
           /\ pool' = pool \ {tx}
           /\ mined' = mined \cup {tx}
    /\ UNCHANGED <<wallet, place, desk, slip, payments>>

Next ==
    \/ \E what \in Drafts : HandleSend(what)
    \/ HandleCancel
    \/ \E i \in Calls :
           \/ HandleConfirm(i)
           \/ ReadNonce(i)
           \/ NonceFails(i)
           \/ Submit(i)
           \/ PaymentEnds(i)
    \/ Go
    \/ \E w \in [address : Addresses, unlocked : BOOLEAN] : SetWallet(w)
    \/ SlipFails
    \/ ConnectionFails
    \/ ConnectionReturns
    \/ Mine

\* A request is answered or fails, and the page goes on.
Fairness ==
    \A i \in Calls : /\ WF_vars(ReadNonce(i) \/ NonceFails(i))
                     /\ WF_vars(Submit(i))
                     /\ WF_vars(PaymentEnds(i))

Spec == Init /\ [][Next]_vars /\ Fairness

----------------------------------------------------------------------------
(* Properties                                                              *)

\* Types; and a transaction is signed only with a nonce that the node gave.
TypeOK ==
    /\ wallet \in [address : Addresses, unlocked : BOOLEAN]
    /\ place \in {"dashboard", "wallet"}
    /\ desk \in Desk
    /\ slip \in {"none", "error"}
    /\ payments \in [Calls -> Payment \cup {None}]
    /\ \A i \in Calls :
          payments[i] # None /\ payments[i].phase \in {"sign", "answer"} =>
              payments[i].nonce # None
    /\ pool \subseteq Transaction /\ mined \subseteq Transaction

\* Every transaction the node took from this page was shown by a dialog that
\* the user confirmed, sender, recipient and amount; and the node has taken it
\* no more often, under different nonces, than the user has confirmed it:
\* whatever happened to wallet, page and connection between press and signature.
PaymentsAreConfirmed ==
    \A s \in Shown :
        Cardinality({tx \in pool \cup mined : tx.from = s.from /\ tx.what = s.what})
            <= Cardinality({i \in Calls : payments[i] # None /\ payments[i].shown = s})

\* A page pays one thing at a time: two payments of one dashboard overlap only
\* when the connection was lost and came back, which brings the dialog back with
\* its button enabled, or when the page has paid a large amount: Enter confirms
\* one again, and the first to end then enables the button over the other.
OneAtATime ==
    \A i, j \in Calls :
        (/\ i < j /\ InFlight(i) /\ InFlight(j)
         /\ payments[i].here /\ payments[j].here)
        => \/ ~payments[i].dialog
           \/ \E k \in 1..j : /\ payments[k] # None /\ payments[k].here
                             /\ payments[k].what \in Large

\* The form does not stay disabled: what is being sent comes to an end, under
\* the assumption that requests are answered or fail.
SendingEnds == desk.sending ~> ~desk.sending
=============================================================================
