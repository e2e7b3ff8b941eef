-------------------------------- MODULE Pages --------------------------------
(***************************************************************************)
(* A screen of the web site while the node behind it changes, fails and    *)
(* comes back: the effects that fetch when a component is mounted and at   *)
(* an interval after that, their answers, which may overtake each other,   *)
(* and the requests that change something (faucet, validator registration, *)
(* contact form).  Screens says what an answer does to the screen.         *)
(*                                                                         *)
(* Payments are in Payments, the wallet itself is in WalletTabs; here the  *)
(* wallet is the address that the effects of a page read.                  *)
(***************************************************************************)
EXTENDS Screens

CONSTANTS
    Lanes,       \* bound: for each kind, how many requests for a resource
                 \* may be on their way at a time
    MaxOutages   \* bound: how often the node or the user's own node fails

ASSUME PagesAssumption ==
    /\ Lanes \in [Kinds -> Nat \ {0}]
    /\ MaxOutages \in Nat

VARIABLES
    world,    \* the node: what it holds, who is up, the outages so far
    wallet,   \* the address of the connected wallet, or None
    screen,   \* the component that is mounted
    view,     \* its state
    calls,    \* its fetches that are under way
    post,     \* the state of its form and the request that the form sent
    told      \* history: for each resource what the answers since the mount
              \* said, and whether the last press of the form had its effect

vars == <<world, wallet, screen, view, calls, post, told>>

Nodes == {"node", "local"}
Up(r) == IF r = "local" THEN world.up["local"] ELSE world.up["node"]

\* wellFormed: whether the address in the page's URL is one.
Screen == [kind : Kinds, of : Addresses \cup {None}, wellFormed : BOOLEAN]

Resources == UNION {Fetched(k) : k \in Kinds}
Call == [of : Addresses \cup {None}, resp : Response \cup {None}]

\* The request of a form.
PostCall == [filled : BOOLEAN, resp : Response \cup {None}]

ASSUME NoneAssumption == None \notin Content \cup Call \cup PostCall

NoCalls(kind) == [r \in Fetched(kind) |-> [s \in 1..Lanes[kind] |-> None]]

\* The form of a page, and what it asks of the node or of the mail server.
PostOf(kind) ==
    CASE kind = "dashboard" -> {"faucet"}
      [] kind = "validator" -> {"register"}
      [] kind = "contact" -> {"contact"}
      [] OTHER -> {}

NoPost == [shown |-> "idle", call |-> None]

----------------------------------------------------------------------------
(* Fetching                                                                *)

OfWallet == {"account", "history", "validator"}

\* The pages of the explorer that are about the address in their URL.
OfAddress == {"address", "history"}

ReadsWallet(kind) == kind \notin OfAddress /\ Fetched(kind) \cap OfWallet # {}

\* The address in the request for r: that of the URL, or of the wallet.
Asked(r) ==
    CASE screen.kind \in OfAddress -> screen.of
      [] screen.kind \notin OfAddress /\ r \in OfWallet -> wallet
      [] OTHER -> None

\* The effects return early without an address.
CanAsk(r) == r \in OfWallet => Asked(r) # None

Free(c, r) == {s \in DOMAIN c[r] : c[r][s] = None}

\* The requests c after one more for r of the address a.
Sent(c, r, a) ==
    [c EXCEPT ![r][CHOOSE s \in Free(c, r) : TRUE] = [of |-> a, resp |-> None]]

\* What the page may get for a request: while its server or the node cannot be
\* reached, a failure.
Answers(r, a) ==
    IF Up(r) THEN {Route(r, NodeAnswer(r, a, world.version, screen.wellFormed))}
    ELSE {Unreachable, Route(r, Unreachable), Route(r, NodeFailure)}

\* The requests of the first effects of a component: one for everything but
\* what the server had asked for when it rendered the page.
FirstCalls(kind, a) ==
    [r \in Fetched(kind) |-> [s \in 1..Lanes[kind] |->
        IF s = 1 /\ kind # "explorer" /\ (r \in OfWallet => a # None)
        THEN [of |-> IF r \in OfWallet THEN a ELSE None, resp |-> None]
        ELSE None]]

\* What an answer denies of a resource, for the history.
Outcome(resp) ==
    CASE IsOk(resp) -> IF resp.body.at \in AbsentIn THEN {"absent"} ELSE {}
      [] ~IsOk(resp) -> IF resp.status = 404 THEN {"absent"} ELSE {"failed"}

NothingTold(kind) == [answers |-> [r \in Fetched(kind) |-> {}], effect |-> FALSE]
Heard(h, r, resp) == [h EXCEPT !.answers[r] = @ \cup Outcome(resp)]

\* getData of ExplorerPage: the blocks that the server puts into the page.
ServerRendered(v, resp) == IF IsOk(resp) THEN Receive(v, "blocks", resp.body) ELSE v

\* A component is mounted, on a fresh page or on one with the wallet in memory.
\* Without a wallet the validator page waits for nothing.  A behaviour is its
\* life: what is on its way when it is unmounted changes nothing any more.
Init ==
    /\ world \in [version : {0}, up : [Nodes -> BOOLEAN], outages : {0}]
    /\ world.up["node"]
    /\ screen \in Screen
    /\ wallet \in IF ReadsWallet(screen.kind) THEN Addresses \cup {None} ELSE {None}
    /\ screen.kind \in OfAddress <=> screen.of # None
    /\ screen.kind # "address" => screen.wellFormed
    /\ screen.kind = "activity" => wallet # None
    /\ LET kind == screen.kind
           fresh == [NewView(kind) EXCEPT !.loading =
                        IF kind = "validator" /\ wallet = None THEN {} ELSE @]
       IN
       IF kind = "explorer"
       THEN \E resp \in Answers("blocks", None) :
                /\ view = ServerRendered(fresh, resp)
                /\ told = Heard(NothingTold(kind), "blocks", resp)
       ELSE view = fresh /\ told = NothingTold(kind)
    /\ calls = FirstCalls(screen.kind, IF screen.kind \in OfAddress
                                       THEN screen.of ELSE wallet)
    /\ post = NoPost

\* WalletProvider reads the wallet after the first effects of the page, or the
\* user comes or goes on the wallet page: the effects on the address run anew.
Rerun(a) == IF a = None THEN {} ELSE Fetched(screen.kind) \cap OfWallet

SetWallet(a) ==
    /\ ReadsWallet(screen.kind)
    /\ IF a = None THEN wallet # None /\ screen.kind = "wallet" ELSE wallet = None
    /\ wallet' = a
    /\ \A r \in Rerun(a) : Free(calls, r) # {}
    /\ calls' = [r \in DOMAIN calls |->
                    IF r \in Rerun(a) THEN Sent(calls, r, a)[r] ELSE calls[r]]
    /\ view' = [view EXCEPT !.loading = @ \cup (Rerun(a) \cap {"validator"})]
    /\ UNCHANGED <<world, screen, post, told>>

\* The interval of an effect fires.
Poll(r) ==
    /\ r \in Polled(screen.kind) /\ CanAsk(r)
    /\ Free(calls, r) # {}
    /\ calls' = Sent(calls, r, Asked(r))
    /\ UNCHANGED <<world, wallet, screen, view, post, told>>

Answer(r, s) ==
    /\ r \in DOMAIN calls /\ s \in DOMAIN calls[r]
    /\ calls[r][s] # None /\ calls[r][s].resp = None
    /\ \E resp \in Answers(r, calls[r][s].of) :
           calls' = [calls EXCEPT ![r][s].resp = resp]
    /\ UNCHANGED <<world, wallet, screen, view, post, told>>

Deliver(r, s) ==
    /\ r \in DOMAIN calls /\ s \in DOMAIN calls[r]
    /\ calls[r][s] # None /\ calls[r][s].resp # None
    /\ view' = After(screen.kind, r, view, calls[r][s].resp)
    /\ told' = Heard(told, r, calls[r][s].resp)
    /\ calls' = [calls EXCEPT ![r][s] = None]
    /\ UNCHANGED <<world, wallet, screen, post>>

----------------------------------------------------------------------------
(* The forms                                                               *)

\* Where each form is shown: the faucet's card to a connected wallet, with the
\* node there; the registration to who is said to be no validator; the message
\* until it is sent.
FaucetMay == wallet # None /\ "offline" \notin Says(screen.kind, view)
RegisterMay == "absent" \in Says(screen.kind, view)
ContactMay == post.shown # "success"

\* The buttons are disabled while their request is under way.  Only the field
\* of the stake may be left empty.
Press(p, filled) ==
    /\ p \in PostOf(screen.kind) /\ post.call = None
    /\ p = "faucet" => FaucetMay
    /\ p = "register" => RegisterMay
    /\ p = "contact" => ContactMay
    /\ p # "register" => filled
    /\ post' = [shown |-> "busy", call |-> [filled |-> filled, resp |-> None]]
    /\ told' = [told EXCEPT !.effect = FALSE]
    /\ UNCHANGED <<world, wallet, screen, view, calls>>

\* The node or the mail server does it, or refuses.  Its answer may be lost.
PostAnswer(p) ==
    /\ p \in PostOf(screen.kind) /\ post.call # None /\ post.call.resp = None
    /\ \E done \in IF post.call.filled THEN BOOLEAN ELSE {FALSE} :
           /\ \E answer \in IF Up(p) THEN {IF done THEN Ok(None) ELSE Failed(400)}
                            ELSE {Unreachable, NodeFailure} :
                  post' = [post EXCEPT !.call.resp =
                              PostRoute(p, post.call.filled, answer)]
           /\ told' = [told EXCEPT !.effect = done]
    /\ UNCHANGED <<world, wallet, screen, view, calls>>

\* After a success the faucet and the registration fetch what they changed.
Refetched(p) ==
    CASE p = "faucet" -> {"account"}
      [] p = "register" /\ wallet # None -> {"validator"}
      [] OTHER -> {}

\* Mutant: the state that disables the button is reset after a success only.
PostDeliveredStuck(p) ==
    /\ p \in PostOf(screen.kind) /\ post.call # None /\ post.call.resp # None
    /\ post' = [shown |-> IF IsOk(post.call.resp) THEN "success" ELSE "busy",
                call |-> None]
    /\ UNCHANGED <<world, wallet, screen, view, calls, told>>

PostDelivered(p) ==
    /\ p \in PostOf(screen.kind) /\ post.call # None /\ post.call.resp # None
    /\ post' = [shown |-> IF IsOk(post.call.resp) THEN "success" ELSE "error",
                call |-> None]
    /\ IF IsOk(post.call.resp)
       THEN /\ \A r \in Refetched(p) : Free(calls, r) # {}
            /\ calls' = [r \in DOMAIN calls |->
                            IF r \in Refetched(p) THEN Sent(calls, r, wallet)[r]
                            ELSE calls[r]]
       ELSE UNCHANGED calls
    /\ UNCHANGED <<world, wallet, screen, view, told>>

\* "Send Another Message".
Again ==
    /\ screen.kind = "contact" /\ post.shown = "success"
    /\ post' = NoPost
    /\ UNCHANGED <<world, wallet, screen, view, calls, told>>

----------------------------------------------------------------------------
(* The node                                                                *)

NodeChanges ==
    /\ world.version + 1 \in Versions
    /\ world' = [world EXCEPT !.version = @ + 1]
    /\ UNCHANGED <<wallet, screen, view, calls, post, told>>

Outage(n) ==
    /\ world.up[n] /\ world.outages < MaxOutages
    /\ world' = [world EXCEPT !.up[n] = FALSE, !.outages = @ + 1]
    /\ UNCHANGED <<wallet, screen, view, calls, post, told>>

Recover(n) ==
    /\ ~world.up[n]
    /\ world' = [world EXCEPT !.up[n] = TRUE]
    /\ UNCHANGED <<wallet, screen, view, calls, post, told>>

Slots == UNION {1..Lanes[k] : k \in Kinds}

\* The user comes or goes.
Moves == \E a \in Addresses \cup {None} : SetWallet(a)

Next ==
    \/ Moves
    \/ \E r \in Resources : Poll(r)
    \/ \E r \in Resources, s \in Slots : Answer(r, s) \/ Deliver(r, s)
    \/ \E p \in {"faucet", "register", "contact"} :
           \/ \E filled \in BOOLEAN : Press(p, filled)
           \/ PostAnswer(p)
           \/ PostDelivered(p)
    \/ Again
    \/ NodeChanges
    \/ \E n \in Nodes : Outage(n) \/ Recover(n)

\* The browser's timers fire and its requests are answered or fail.
Fairness ==
    /\ \A r \in Resources : WF_vars(Poll(r))
    /\ \A r \in Resources, s \in Slots : WF_vars(Answer(r, s)) /\ WF_vars(Deliver(r, s))

Spec == Init /\ [][Next]_vars /\ Fairness

----------------------------------------------------------------------------
(* Properties                                                              *)

TypeOK ==
    /\ world \in [version : Versions, up : [Nodes -> BOOLEAN], outages : 0..MaxOutages]
    /\ wallet \in Addresses \cup {None}
    /\ screen \in Screen
    /\ view \in View(screen.kind)
    /\ calls \in [Fetched(screen.kind) -> [1..Lanes[screen.kind] -> Call \cup {None}]]
    /\ post.shown \in {"idle", "busy", "success", "error"}
    /\ (post.call # None) = (post.shown = "busy")

\* A page denies that there is something (an empty mempool, no peers, an
\* unknown block, address or transaction) only when an answer said so; the
\* pages that do not remember failures also deny it after one.  Only the
\* validator page, without a wallet to ask for, denies it unasked.
Remembers == {"network", "transaction", "address"}

AbsenceIsTold ==
    "absent" \in Says(screen.kind, view) =>
        \/ \E r \in DOMAIN told.answers :
               \/ "absent" \in told.answers[r]
               \/ screen.kind \notin Remembers /\ "failed" \in told.answers[r]
        \/ screen.kind = "validator" /\ wallet = None

\* What a form calls a success had its effect: the node or the mail server did
\* what the last press of the button asked for.
SuccessIsTrue == post.shown = "success" => told.effect

\* All that the screen fetches at an interval is shown as the node has it, for
\* the wallet of now, and a screen that shows whether a node is there is right.
ShowsStatus == {"network", "dashboard", "sidebar", "navbar"}

Current ==
    \A r \in Polled(screen.kind) : CanAsk(r) =>
        /\ Up(r) => /\ view.error[r] = "none"
                    /\ r # "local" =>
                          view.data[r] = [of |-> Asked(r), at |-> world.version]
        /\ ~Up(r) /\ screen.kind \in ShowsStatus /\ r # "account" =>
               view.error[r] = "failed"

\* However its answers overtook each other and whatever failed meanwhile: a
\* screen catches up with the node, and with the wallet when that stays.
ScreenCatchesUp == []<><<Moves>>_vars \/ <>[]Current
=============================================================================
