-------------------------------- MODULE Vault --------------------------------
(***************************************************************************)
(* What the browser wallet promises its user: one wallet is kept under one *)
(* password; only who types that password, or puts a wallet in, opens it   *)
(* or gets to see its recovery phrase; what is on a screen goes away, and  *)
(* appears in no other way.                                                *)
(***************************************************************************)
CONSTANTS Tabs, Wallets, Passwords, None

VARIABLES
    holds,   \* the wallet kept and its password, or None
    open,    \* whether it can be used without the password
    shown,   \* for each tab the phrase on its screen, or None
    typed    \* the password submitted by the last step, or None

vars == <<holds, open, shown, typed>>

Init ==
    /\ holds = None
    /\ open = FALSE
    /\ shown = [t \in Tabs |-> None]
    /\ typed = None

\* Screens lose phrases at any time; tab t may come to show w.
Hides == \A t \in Tabs : shown'[t] \in {shown[t], None}
Shows(t, w) ==
    \A u \in Tabs : shown'[u] \in {shown[u], None} \cup
                                    (IF u = t THEN {w} ELSE {})

\* A wallet replaces what was kept; the tab it is made in may show its phrase.
Keep(t, w, p) ==
    /\ typed' = p
    /\ holds' = [wallet |-> w, password |-> p]
    /\ open' = TRUE
    /\ Shows(t, w)

\* The right password opens the vault or shows its phrase.
Right(t, p) ==
    /\ holds # None
    /\ p = holds.password
    /\ typed' = p
    /\ \/ open' = TRUE /\ Hides
       \/ open' = open /\ Shows(t, holds.wallet)
    /\ UNCHANGED holds

\* Any other password does neither; it may close an open vault.
Wrong(p) ==
    /\ typed' = p
    /\ open' \in {open, FALSE}
    /\ Hides
    /\ UNCHANGED holds

Close ==
    /\ typed' = None
    /\ open' \in {open, FALSE}
    /\ Hides
    /\ UNCHANGED holds

Erase ==
    /\ typed' = None
    /\ holds' = None /\ open' = FALSE
    /\ Hides

Next ==
    \/ \E t \in Tabs, p \in Passwords :
          Right(t, p) \/ Wrong(p) \/ \E w \in Wallets : Keep(t, w, p)
    \/ Close
    \/ Erase

Spec == Init /\ [][Next]_vars
=============================================================================
