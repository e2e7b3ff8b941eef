----------------------------- MODULE WalletTabs -----------------------------
(***************************************************************************)
(* The wallet page in the tabs of one browser: WalletProvider of           *)
(* ui/src/contexts/WalletContext.tsx, which holds a tab's copy of the      *)
(* wallet, and ui/src/app/testnet/wallet/page.tsx, on the localStorage of  *)
(* BrowserWallet.                                                          *)
(*                                                                         *)
(* A handler runs to its end or to its await; tabs share the storage only. *)
(* The derivation of a key is awaited, so that creating or importing a     *)
(* wallet takes two steps, and anything may come between.                  *)
(***************************************************************************)
EXTENDS BrowserWallet, FiniteSets

CONSTANTS
    Tabs,
    Views        \* what the page of an unlocked wallet can be switched to

VARIABLES
    storage,   \* localStorage
    ctx,       \* for each tab the state of its WalletProvider
    page,      \* for each tab the state of its WalletPage
    job,       \* for each tab the creation or import it awaits, or None
    made,      \* history: the wallets that were created
    typed      \* history: the password that the last step submitted, or None

vars == <<storage, ctx, page, job, made, typed>>

Context == [wallet : PageWallet \cup {None},
            connected : BOOLEAN, unlocked : BOOLEAN]

Forms == {"unlock", "create", "import"}

\* phrase: generatedMnemonic of AuthScreen, secret: mnemonic of
\* RevealSecretView, busy: loading of AuthScreen.
Page == [view : Views \cup {"dashboard"}, form : Forms,
         phrase : Wallets \cup {None},
         secret : Wallets \cup {Garbage, None}, busy : BOOLEAN]

\* attached: the AuthScreen that started it is still mounted.
Job == [kind : {"create", "import"}, wallet : Wallets, password : Passwords,
        attached : BOOLEAN]

ASSUME TabsAssumption ==
    /\ Views \subseteq {"dashboard", "send", "receive", "reveal_secret",
                        "logout_confirm"}
    /\ None \notin Job

NoContext == [wallet |-> None, connected |-> FALSE, unlocked |-> FALSE]

LoggedIn(c) == c.connected /\ c.unlocked

\* The form that the first effect of AuthScreen chooses.
FormOf(c) == IF c.connected THEN "unlock" ELSE "create"

FreshPage(c) == [view |-> "dashboard", form |-> FormOf(c), phrase |-> None,
                 secret |-> None, busy |-> FALSE]

\* Mutant: the reveal view keeps its phrase while the wallet is locked.
RenderedKeepSecret(pg, c, d) ==
    [view |-> IF d.connected /\ ~c.connected THEN "dashboard" ELSE pg.view,
     form |-> FormOf(d),
     phrase |-> IF LoggedIn(d) THEN None ELSE pg.phrase,
     secret |-> pg.secret,
     busy |-> ~LoggedIn(d) /\ pg.busy]

\* What a page becomes when its context changes from c to d: the effects of
\* WalletPage and AuthScreen run, and the screen that is left loses its state.
Rendered(pg, c, d) ==
    [view |-> IF d.connected /\ ~c.connected THEN "dashboard" ELSE pg.view,
     form |-> IF <<c.connected, c.unlocked>> = <<d.connected, d.unlocked>>
              THEN pg.form ELSE FormOf(d),
     phrase |-> IF LoggedIn(d) THEN None ELSE pg.phrase,
     secret |-> IF LoggedIn(d) THEN pg.secret ELSE None,
     busy |-> ~LoggedIn(d) /\ pg.busy]

SetContext(t, d) ==
    /\ ctx' = [ctx EXCEPT ![t] = d]
    /\ page' = [page EXCEPT ![t] = Rendered(page[t], ctx[t], d)]

Init ==
    /\ storage = EmptyStorage
    /\ ctx = [t \in Tabs |-> NoContext]
    /\ page = [t \in Tabs |-> FreshPage(NoContext)]
    /\ job = [t \in Tabs |-> None]
    /\ made = {}
    /\ typed = None

----------------------------------------------------------------------------
(* WalletProvider                                                          *)

\* refreshWallet: the context that it sets and the storage that it leaves.
Refreshed(st) ==
    CASE ~HasWallet(st) -> NoContext
      [] HasWallet(st) /\ IsWalletUnlocked(st) ->
            [wallet |-> UnlockedWallet(st), connected |-> TRUE,
             unlocked |-> TRUE]
      [] HasWallet(st) /\ ~IsWalletUnlocked(st) ->
            [wallet |-> LockedWallet(st), connected |-> TRUE,
             unlocked |-> FALSE]

\* Mutant: loading the page prolongs the session.
RefreshedStorageRenews(st) == IF HasWallet(st) THEN RefreshSession(st) ELSE st

RefreshedStorage(st) == IF HasWallet(st) THEN DropExpired(st) ELSE st

\* lockWallet keeps the wallet in memory when the storage has lost its address.
Locked(c, st) ==
    [c EXCEPT !.wallet = IF HasWallet(st) THEN LockedWallet(st) ELSE c.wallet,
              !.unlocked = FALSE]

\* The interval and the listeners are made once and see the wallet of the
\* first render.
CapturedWallet == None

\* What an effect of the first render does every minute, and at every click.
SessionCheck(t) ==
    /\ typed' = None
    /\ IF CapturedWallet # None /\ ~IsWalletUnlocked(storage)
       THEN /\ storage' = DropExpired(storage)
            /\ SetContext(t, [ctx[t] EXCEPT !.wallet = None,
                                            !.unlocked = FALSE])
       ELSE UNCHANGED <<storage, ctx, page>>
    /\ UNCHANGED <<job, made>>

Activity(t) ==
    /\ typed' = None
    /\ storage' = IF CapturedWallet # None /\ IsWalletUnlocked(storage)
                  THEN RefreshSession(storage) ELSE storage
    /\ UNCHANGED <<ctx, page, job, made>>

\* The page is loaded anew: after a reload, a crash of the tab or in a new one.
Load(t) ==
    /\ typed' = None
    /\ storage' = RefreshedStorage(storage)
    /\ ctx' = [ctx EXCEPT ![t] = Refreshed(storage)]
    /\ page' = [page EXCEPT ![t] = FreshPage(ctx'[t])]
    /\ job' = [job EXCEPT ![t] = None]
    /\ UNCHANGED made

\* The user goes to another page of the testnet and comes back.
Leave(t) ==
    /\ typed' = None
    /\ page' = [page EXCEPT ![t] = FreshPage(ctx[t])]
    /\ job' = [job EXCEPT ![t] =
                  IF job[t] = None THEN None
                  ELSE [job[t] EXCEPT !.attached = FALSE]]
    /\ UNCHANGED <<storage, ctx, made>>

\* Time passes for the session.
Elapse ==
    /\ typed' = None
    /\ IsWalletUnlocked(storage)
    /\ storage' = [storage EXCEPT !.session.left = @ - 1]
    /\ UNCHANGED <<ctx, page, job, made>>

----------------------------------------------------------------------------
(* AuthScreen, which is shown while the context is not logged in           *)

OnForm(t, form) ==
    /\ ~LoggedIn(ctx[t])
    /\ page[t].phrase = None
    /\ page[t].form = form

\* The switcher between the forms is never disabled.
ChooseForm(t, form) ==
    /\ typed' = None
    /\ OnForm(t, "create") \/ OnForm(t, "import")
    /\ page' = [page EXCEPT ![t].form = form]
    /\ UNCHANGED <<storage, ctx, job, made>>

\* Bound: a tab awaits one derivation at a time.  A second one needs a user
\* who leaves the page and is back before the first one has ended.
Start(t, kind, w, p) ==
    /\ typed' = None
    /\ OnForm(t, kind)
    /\ ~page[t].busy
    /\ job[t] = None
    /\ job' = [job EXCEPT ![t] = [kind |-> kind, wallet |-> w,
                                  password |-> p, attached |-> TRUE]]
    /\ page' = [page EXCEPT ![t].busy = TRUE]
    /\ UNCHANGED <<storage, ctx>>

\* handleCreate up to the await; the phrase of a created wallet is a new one.
StartCreate(t, p) ==
    \E w \in Wallets \ made :
        /\ IsStrong(p)
        /\ Start(t, "create", w, p)
        /\ made' = made \cup {w}

\* The import looks at neither the password nor the phrase.
StartImport(t, w, p) == Start(t, "import", w, p) /\ UNCHANGED made

\* Mutant: the creation goes through the context, which logs in.
FinishCreateLogsIn(t) ==
    /\ job[t] # None
    /\ job[t].kind = "create"
    /\ typed' = job[t].password
    /\ storage' = StoreWallet(storage, job[t].wallet, job[t].password)
    /\ SetContext(t, [wallet |-> [address |-> job[t].wallet,
                                  key |-> job[t].wallet],
                      connected |-> TRUE, unlocked |-> TRUE])
    /\ job' = [job EXCEPT ![t] = None]
    /\ UNCHANGED made

\* handleCreate after the await.  It does not tell the context, so that the
\* screen stays and shows the phrase.
FinishCreate(t) ==
    /\ job[t] # None
    /\ job[t].kind = "create"
    /\ typed' = job[t].password
    /\ storage' = StoreWallet(storage, job[t].wallet, job[t].password)
    /\ page' = IF job[t].attached
               THEN [page EXCEPT ![t].phrase = job[t].wallet, ![t].busy = FALSE]
               ELSE page
    /\ job' = [job EXCEPT ![t] = None]
    /\ UNCHANGED <<ctx, made>>

\* The import after its await: the provider logs in, whatever page is shown.
FinishImport(t) ==
    /\ job[t] # None
    /\ job[t].kind = "import"
    /\ typed' = job[t].password
    /\ storage' = StoreWallet(storage, job[t].wallet, job[t].password)
    /\ SetContext(t, [wallet |-> [address |-> job[t].wallet,
                                  key |-> job[t].wallet],
                      connected |-> TRUE, unlocked |-> TRUE])
    /\ job' = [job EXCEPT ![t] = None]
    /\ UNCHANGED made

\* The derivation throws, as without WebCrypto.
JobFails(t) ==
    /\ job[t] # None
    /\ typed' = None
    /\ page' = IF job[t].attached THEN [page EXCEPT ![t].busy = FALSE] ELSE page
    /\ job' = [job EXCEPT ![t] = None]
    /\ UNCHANGED <<storage, ctx, made>>

\* handleMnemonicSaved
SavePhrase(t) ==
    /\ ~LoggedIn(ctx[t])
    /\ page[t].phrase # None
    /\ typed' = None
    /\ storage' = RefreshedStorage(storage)
    /\ LET d == Refreshed(storage)
       IN  /\ ctx' = [ctx EXCEPT ![t] = d]
           /\ page' = [page EXCEPT ![t] =
                          Rendered([page[t] EXCEPT !.phrase = None], ctx[t], d)]
    /\ UNCHANGED <<job, made>>

\* The context's unlockWallet; when it throws nobody catches it.
Unlock(t, p) ==
    /\ OnForm(t, "unlock")
    /\ typed' = p
    /\ \E key \in Opened(storage, p) :
          IF key = None THEN UNCHANGED <<storage, ctx, page>>
          ELSE /\ storage' = CreateSession(storage, key)
               /\ SetContext(t, [ctx[t] EXCEPT
                                    !.wallet = [address |-> storage.wallet.wallet,
                                                key |-> key],
                                    !.unlocked = TRUE])
    /\ UNCHANGED <<job, made>>

\* disconnect, from "Reset wallet" and from the logout dialog.
Disconnect(t) ==
    /\ typed' = None
    /\ storage' = DeleteWallet(storage)
    /\ SetContext(t, NoContext)
    /\ UNCHANGED <<job, made>>

ResetWallet(t) == OnForm(t, "unlock") /\ Disconnect(t)

----------------------------------------------------------------------------
(* The page of an unlocked wallet                                          *)

OpenView(t, view) ==
    /\ LoggedIn(ctx[t])
    /\ typed' = None
    /\ page' = [page EXCEPT ![t].view = view,
                            ![t].secret = IF view = page[t].view THEN @ ELSE None]
    /\ UNCHANGED <<storage, ctx, job, made>>

LockTab(t) ==
    /\ LoggedIn(ctx[t])
    /\ typed' = None
    /\ storage' = LockWallet(storage)
    /\ SetContext(t, Locked(ctx[t], storage))
    /\ UNCHANGED <<job, made>>

Logout(t) ==
    /\ LoggedIn(ctx[t])
    /\ page[t].view = "logout_confirm"
    /\ Disconnect(t)

\* handleReveal: the phrase of the stored wallet, which may be another one
\* than the tab's.
Reveal(t, p) ==
    /\ LoggedIn(ctx[t])
    /\ page[t].view = "reveal_secret"
    /\ page[t].secret = None
    /\ typed' = p
    /\ \E phrase \in Opened(storage, p) :
          page' = [page EXCEPT ![t].secret = phrase]
    /\ UNCHANGED <<storage, ctx, job, made>>

----------------------------------------------------------------------------
TabStep(t) ==
    \/ Load(t) \/ Leave(t)
    \/ SessionCheck(t) \/ Activity(t)
    \/ \E form \in {"create", "import"} : ChooseForm(t, form)
    \/ \E p \in Passwords :
          \/ StartCreate(t, p)
          \/ \E w \in Wallets : StartImport(t, w, p)
          \/ Unlock(t, p)
          \/ Reveal(t, p)
    \/ FinishCreate(t) \/ FinishImport(t) \/ JobFails(t)
    \/ SavePhrase(t)
    \/ ResetWallet(t)
    \/ \E view \in Views : OpenView(t, view)
    \/ LockTab(t) \/ Logout(t)

Next == Elapse \/ \E t \in Tabs : TabStep(t)

\* Time passes, whatever the user does.
Fairness == WF_vars(Elapse)

Spec == Init /\ [][Next]_vars /\ Fairness

----------------------------------------------------------------------------
(* Properties                                                              *)

TypeOK ==
    /\ storage \in Storage
    /\ ctx \in [Tabs -> Context]
    /\ page \in [Tabs -> Page]
    /\ job \in [Tabs -> Job \cup {None}]
    /\ made \subseteq Wallets
    /\ typed \in Passwords \cup {None}

\* A screen and the work it waits for stay together: while a key is derived the
\* tab cannot log in from under the screen that will show its phrase; a phrase
\* of a creation is shown only before the login and a revealed one only after
\* (page.tsx 62-64, 484-565, 784-800).
ScreensApart ==
    \A t \in Tabs :
        /\ page[t].phrase # None => ~LoggedIn(ctx[t])
        /\ page[t].secret # None => LoggedIn(ctx[t])
        /\ job[t] # None =>
              (job[t].attached =>
                  /\ page[t].busy /\ page[t].phrase = None
                  /\ page[t].form # "unlock" /\ ~LoggedIn(ctx[t]))

\* Keys and wallets stay together across the tabs (browserWallet.ts 116-234 and
\* 344-347, WalletContext.tsx 61-85 and 103-108).  A session opens the stored
\* wallet or nothing: its key is that wallet's or what a wrong password decrypted
\* to, and none is left without a wallet.
SessionOpensWallet ==
    storage.session # None =>
        /\ HasWallet(storage)
        /\ storage.session.key \in {storage.wallet.wallet, Garbage}

\* No tab signs for one address with the key of another, although the address
\* comes from the stored wallet and the key from the session; a tab that is
\* unlocked has a key.
TabKeyMatchesAddress ==
    \A t \in Tabs :
        /\ ctx[t].wallet # None =>
              ctx[t].wallet.key \in {ctx[t].wallet.address, Garbage, None}
        /\ LoggedIn(ctx[t]) => ctx[t].wallet # None /\ ctx[t].wallet.key # None

\* Both, whichever tabs store, unlock and delete wallets in whatever order.
KeysMatchWallets == SessionOpensWallet /\ TabKeyMatchesAddress

\* The screens, the store and the session of all tabs implement the Vault:
\* nothing but the right password, or a wallet put in, opens the wallet or
\* shows its phrase, whichever tabs the steps are spread over.
V == INSTANCE Vault WITH
        holds <- storage.wallet,
        open <- /\ IsWalletUnlocked(storage) /\ HasWallet(storage)
                /\ storage.session.key = storage.wallet.wallet,
        shown <- [t \in Tabs |->
                     IF page[t].phrase # None THEN page[t].phrase
                     ELSE IF page[t].secret \in Wallets THEN page[t].secret
                     ELSE None]

VaultRefined == V!Spec

\* "Prevent auto-login until mnemonic is saved" (page.tsx 516): when the key of
\* a created wallet arrives and its screen is still there, the phrase is shown,
\* and only the button of that screen, a reload or leaving it takes it away.
PhraseIsShown ==
    [][\A t \in Tabs :
        /\ (job[t] # None /\ job[t].kind = "create" /\ job[t].attached
              /\ job'[t] = None /\ storage' # storage)
                => page'[t].phrase = job[t].wallet \/ Load(t)
        /\ (page[t].phrase # None /\ page'[t].phrase = None)
                => SavePhrase(t) \/ Load(t) \/ Leave(t)]_vars

\* An idle session ends: unless a password is typed again and again, a wallet
\* put in, or the user active, the stored session is over for good
\* (browserWallet.ts 253-265).  Reloading the page does not prolong it.
Authenticate(t) ==
    FinishCreate(t) \/ FinishImport(t) \/ \E p \in Passwords : Unlock(t, p)

IdleSessionEnds ==
    \/ <>[]~IsWalletUnlocked(storage)
    \/ []<><<\E t \in Tabs : Authenticate(t)>>_vars
    \/ []<><<\E t \in Tabs : Activity(t)>>_vars

=============================================================================
