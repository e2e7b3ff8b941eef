---------------------------- MODULE WalletProofs ----------------------------
(***************************************************************************)
(* For any number of tabs, wallets and passwords: the invariants of        *)
(* WalletTabs, and that its steps are steps of the Vault.                  *)
(*                                                                         *)
(* A step changes the storage and one tab, so the invariant is a condition *)
(* on the storage and one on each tab.  PhraseIsShown needs one thing more *)
(* of a tab: that it shows no phrase while it awaits a key (NoPhraseYet).  *)
(***************************************************************************)
EXTENDS WalletTabs, TLAPS

(* A context whose key is that of its address.                             *)
KeyOK(c) ==
    /\ c.wallet # None => c.wallet.key \in {c.wallet.address, Garbage, None}
    /\ LoggedIn(c) => c.wallet # None /\ c.wallet.key # None

(* A page and a job that go with a context.                                *)
Apart(c, pg, j) ==
    /\ pg.phrase # None => ~LoggedIn(c)
    /\ pg.secret # None => LoggedIn(c)
    /\ j # None => (j.attached => /\ pg.busy /\ pg.phrase = None
                                  /\ pg.form # "unlock" /\ ~LoggedIn(c))

(* A storage whose session opens its wallet.                               *)
StorageOK(st) ==
    /\ st \in Storage
    /\ st.session # None =>
          st.wallet # None /\ st.session.key \in {st.wallet.wallet, Garbage}

TabsOK ==
    /\ ctx \in [Tabs -> Context]
    /\ page \in [Tabs -> Page]
    /\ job \in [Tabs -> Job \cup {None}]
    /\ \A t \in Tabs : KeyOK(ctx[t]) /\ Apart(ctx[t], page[t], job[t])

HistoryOK == made \subseteq Wallets /\ typed \in Passwords \cup {None}

WInv == StorageOK(storage) /\ TabsOK /\ HistoryOK

(* What the invariant says of each tab.                                    *)
LEMMA InvariantMeaning ==
    WInv <=> TypeOK /\ KeysMatchWallets /\ ScreensApart
  BY DEF WInv, StorageOK, TabsOK, HistoryOK, KeyOK, Apart, TypeOK,
         KeysMatchWallets, SessionOpensWallet, TabKeyMatchesAddress,
         ScreensApart, HasWallet

----------------------------------------------------------------------------
(* What the functions of the wallet make of the storage                    *)

(* The fields of the shared storage.                                       *)
LEMMA StorageFields ==
    ASSUME NEW st \in Storage
    PROVE  /\ st.wallet \in StoredWallet \cup {None}
           /\ st.session \in Session \cup {None}
           /\ st.wallet # None => /\ st.wallet.wallet \in Wallets
                                  /\ st.wallet.password \in Passwords
           /\ st.session # None => /\ st.session.key \in Wallets \cup {Garbage}
                                   /\ st.session.left \in -1 .. Lifetime
  BY DEF Storage, StoredWallet, Session

(* A new session is a sound one.                                           *)
LEMMA CreateSessionOK ==
    ASSUME NEW st, StorageOK(st), st.wallet # None,
           NEW k \in {st.wallet.wallet, Garbage}
    PROVE  /\ StorageOK(CreateSession(st, k))
           /\ CreateSession(st, k).wallet = st.wallet
           /\ CreateSession(st, k).session = [key |-> k, left |-> Lifetime]
  <1>1. st \in Storage
    BY DEF StorageOK
  <1>2. [key |-> k, left |-> Lifetime] \in Session
    BY <1>1, StorageFields, WalletAssumption DEF Session, WalletAssumption
  <1> QED BY <1>1, <1>2 DEF StorageOK, CreateSession, Storage

(* Storing a wallet keeps storage sound.                                   *)
LEMMA StoreWalletOK ==
    ASSUME NEW st, StorageOK(st), NEW w \in Wallets, NEW p \in Passwords
    PROVE  /\ StorageOK(StoreWallet(st, w, p))
           /\ StoreWallet(st, w, p).wallet = [wallet |-> w, password |-> p]
           /\ StoreWallet(st, w, p).session = [key |-> w, left |-> Lifetime]
  <1>1. [wallet |-> w, password |-> p] \in StoredWallet
    BY DEF StoredWallet
  <1>2. [key |-> w, left |-> Lifetime] \in Session
    BY WalletAssumption DEF Session, WalletAssumption
  <1>3. [wallet |-> w, password |-> p] # None
    BY <1>1, WalletAssumption DEF WalletAssumption
  <1> QED BY <1>1, <1>2, <1>3 DEF StorageOK, StoreWallet, CreateSession, Storage

(* Locking, or dropping a session that has expired, keeps the wallet.      *)
LEMMA LockOK ==
    ASSUME NEW st, StorageOK(st)
    PROVE  /\ StorageOK(LockWallet(st)) /\ LockWallet(st).wallet = st.wallet
           /\ LockWallet(st).session = None
           /\ StorageOK(RefreshedStorage(st))
           /\ RefreshedStorage(st).wallet = st.wallet
           /\ RefreshedStorage(st).session \in {st.session, None}
  BY DEF StorageOK, LockWallet, Storage, RefreshedStorage, DropExpired

(* A decrypted wallet is a sound context.                                  *)
LEMMA DecryptedOK ==
    ASSUME NEW st, StorageOK(st), NEW p, NEW k \in Opened(st, p), k # None
    PROVE  /\ st.wallet # None
           /\ k \in {st.wallet.wallet, Garbage}
           /\ k \in Wallets \cup {Garbage}
           /\ p # st.wallet.password => k = Garbage
  BY StorageFields DEF StorageOK, Opened, Decrypted, HasWallet

----------------------------------------------------------------------------
(* Contexts and pages                                                      *)

(* So is the context of a tab that has logged in.                          *)
LEMMA LoggedInContext ==
    ASSUME NEW a \in Wallets, NEW k \in {a, Garbage}
    PROVE  LET c == [wallet |-> [address |-> a, key |-> k],
                     connected |-> TRUE, unlocked |-> TRUE]
           IN  c \in Context /\ KeyOK(c) /\ LoggedIn(c)
  <1>1. [address |-> a, key |-> k] \in PageWallet
    BY DEF PageWallet
  <1>2. [address |-> a, key |-> k] # None /\ k # None
    BY <1>1, WalletAssumption DEF WalletAssumption
  <1> QED BY <1>1, <1>2 DEF Context, KeyOK, LoggedIn

(* So is none.                                                             *)
LEMMA NoContextOK ==
    NoContext \in Context /\ KeyOK(NoContext) /\ ~LoggedIn(NoContext)
  BY DEF NoContext, Context, KeyOK, LoggedIn

(* Refreshing a tab keeps it sound.                                        *)
LEMMA RefreshedOK ==
    ASSUME NEW st, StorageOK(st)
    PROVE  Refreshed(st) \in Context /\ KeyOK(Refreshed(st))
  <1>1. st \in Storage
    BY DEF StorageOK
  <1>2. CASE ~HasWallet(st)
    BY <1>2, NoContextOK DEF Refreshed
  <1>3. CASE HasWallet(st) /\ IsWalletUnlocked(st)
    <2>1. /\ st.wallet.wallet \in Wallets
          /\ st.session.key \in {st.wallet.wallet, Garbage}
      BY <1>1, <1>3, StorageFields DEF StorageOK, HasWallet, IsWalletUnlocked
    <2>2. Refreshed(st) =
            [wallet |-> [address |-> st.wallet.wallet, key |-> st.session.key],
             connected |-> TRUE, unlocked |-> TRUE]
      BY <1>3 DEF Refreshed, UnlockedWallet
    <2> QED BY <2>1, <2>2, LoggedInContext
  <1>4. CASE HasWallet(st) /\ ~IsWalletUnlocked(st)
    <2>1. st.wallet.wallet \in Wallets
      BY <1>1, <1>4, StorageFields DEF HasWallet
    <2>2. Refreshed(st) = [wallet |-> LockedWallet(st), connected |-> TRUE,
                           unlocked |-> FALSE]
      BY <1>4 DEF Refreshed
    <2>3. LockedWallet(st) \in PageWallet /\ LockedWallet(st).key = None
      BY <2>1 DEF LockedWallet, PageWallet
    <2> QED BY <2>2, <2>3 DEF Context, KeyOK, LoggedIn
  <1> QED BY <1>2, <1>3, <1>4

(* So does locking it,                                                     *)
LEMMA LockedOK ==
    ASSUME NEW st, StorageOK(st), NEW c \in Context, KeyOK(c)
    PROVE  /\ Locked(c, st) \in Context /\ KeyOK(Locked(c, st))
           /\ ~LoggedIn(Locked(c, st))
  <1>1. HasWallet(st) => /\ LockedWallet(st) \in PageWallet
                         /\ LockedWallet(st).key = None
    BY StorageFields DEF StorageOK, HasWallet, LockedWallet, PageWallet
  <1>2. (IF HasWallet(st) THEN LockedWallet(st) ELSE c.wallet)
           \in PageWallet \cup {None}
    BY <1>1 DEF Context
  <1>3. Locked(c, st) \in Context
    BY <1>2 DEF Locked, Context
  <1>4. /\ Locked(c, st).wallet = IF HasWallet(st) THEN LockedWallet(st)
                                  ELSE c.wallet
        /\ ~Locked(c, st).unlocked
    BY DEF Locked, Context
  <1> QED BY <1>1, <1>3, <1>4 DEF KeyOK, LoggedIn

(* loading the page anew,                                                  *)
LEMMA FreshPageOK ==
    ASSUME NEW c \in Context, NEW j \in Job \cup {None},
           j # None => ~j.attached
    PROVE  /\ FreshPage(c) \in Page /\ Apart(c, FreshPage(c), j)
           /\ FreshPage(c).phrase = None /\ FreshPage(c).secret = None
  BY DEF FreshPage, FormOf, Page, Forms, Apart

(* and rendering it.                                                       *)
LEMMA RenderedOK ==
    ASSUME NEW pg \in Page, NEW c \in Context, NEW d \in Context,
           NEW j \in Job \cup {None}, j # None => ~j.attached
    PROVE  Rendered(pg, c, d) \in Page /\ Apart(d, Rendered(pg, c, d), j)
  <1>1. Rendered(pg, c, d) \in Page
    BY DEF Rendered, Page, Context, LoggedIn, FormOf, Forms
  <1>2. Apart(d, Rendered(pg, c, d), j)
    BY DEF Rendered, Apart
  <1> QED BY <1>1, <1>2

----------------------------------------------------------------------------
(* The invariant                                                           *)

(* The invariant holds at the start.                                       *)
LEMMA InitInv == Init => WInv
  <1> SUFFICES ASSUME Init PROVE WInv
    OBVIOUS
  <1>1. StorageOK(storage)
    BY DEF Init, EmptyStorage, StorageOK, Storage
  <1>2. ASSUME NEW t \in Tabs
        PROVE  /\ page[t] = FreshPage(NoContext) /\ ctx[t] = NoContext
               /\ job[t] = None
    BY DEF Init
  <1>3. FreshPage(NoContext) \in Page /\ Apart(NoContext, FreshPage(NoContext), None)
    BY NoContextOK, FreshPageOK
  <1>4. TabsOK
    BY <1>2, <1>3, NoContextOK DEF TabsOK, Init
  <1> QED BY <1>1, <1>4 DEF WInv, HistoryOK, Init

(* A step that replaces the context, the page and the job of one tab.      *)
LEMMA OneTab ==
    ASSUME TabsOK, NEW t \in Tabs,
           NEW c \in Context, NEW pg \in Page, NEW j \in Job \cup {None},
           KeyOK(c), Apart(c, pg, j),
           ctx' = [ctx EXCEPT ![t] = c],
           page' = [page EXCEPT ![t] = pg],
           job' = [job EXCEPT ![t] = j]
    PROVE  TabsOK'
  <1>1. ASSUME NEW u \in Tabs
        PROVE  KeyOK(ctx'[u]) /\ Apart(ctx'[u], page'[u], job'[u])
    BY DEF TabsOK
  <1> QED BY <1>1 DEF TabsOK

(* The tabs of a state, each by itself.                                    *)
LEMMA EachTab ==
    ASSUME TabsOK, NEW t \in Tabs
    PROVE  /\ ctx[t] \in Context /\ page[t] \in Page
           /\ job[t] \in Job \cup {None}
           /\ KeyOK(ctx[t]) /\ Apart(ctx[t], page[t], job[t])
           /\ ctx = [ctx EXCEPT ![t] = ctx[t]]
           /\ page = [page EXCEPT ![t] = page[t]]
           /\ job = [job EXCEPT ![t] = job[t]]
  BY DEF TabsOK

(* Time may pass at any moment.                                            *)
LEMMA ElapseInv == WInv /\ Elapse => WInv'
  <1> SUFFICES ASSUME WInv, Elapse PROVE WInv'
    OBVIOUS
  <1>1. /\ storage \in Storage /\ storage.session # None
        /\ storage.session.left \in 0 .. Lifetime
    BY StorageFields DEF WInv, StorageOK, Elapse, IsWalletUnlocked
  <1>2. /\ storage'.wallet = storage.wallet
        /\ storage'.session = [storage.session EXCEPT !.left = @ - 1]
        /\ storage' \in [wallet : StoredWallet \cup {None}, session : {storage'.session}]
    BY <1>1 DEF Elapse, Storage
  <1>3. storage.session \in Session
    BY <1>1, StorageFields
  <1>4. /\ storage'.session \in Session /\ storage'.session.key = storage.session.key
    BY <1>1, <1>2, <1>3, WalletAssumption DEF Session, WalletAssumption
  <1>5. StorageOK(storage')
    BY <1>1, <1>2, <1>4 DEF WInv, StorageOK, Storage
  <1> QED BY <1>5 DEF WInv, TabsOK, HistoryOK, Elapse

(* One step for each thing that can happen in a tab.                       *)
LEMMA TabStepInv ==
    ASSUME WInv, NEW t \in Tabs, TabStep(t)
    PROVE  WInv'
  <1>0. StorageOK(storage) /\ TabsOK /\ HistoryOK
    BY DEF WInv
  <1> DEFINE c == ctx[t]
             pg == page[t]
             j == job[t]
  <1>t. /\ c \in Context /\ pg \in Page /\ j \in Job \cup {None}
        /\ KeyOK(c) /\ Apart(c, pg, j)
        /\ ctx = [ctx EXCEPT ![t] = c] /\ page = [page EXCEPT ![t] = pg]
        /\ job = [job EXCEPT ![t] = j]
    BY <1>0, EachTab
  <1>j. j # None => j \in Job /\ j.wallet \in Wallets /\ j.password \in Passwords
    BY <1>t DEF Job
  <1> HIDE DEF c, pg, j
  <1>1. CASE Load(t)
    <2>1. StorageOK(storage') /\ HistoryOK'
      BY <1>0, <1>1, LockOK DEF Load, HistoryOK
    <2>2. Refreshed(storage) \in Context /\ KeyOK(Refreshed(storage))
      BY <1>0, RefreshedOK
    <2>3. /\ ctx' = [ctx EXCEPT ![t] = Refreshed(storage)]
          /\ page' = [page EXCEPT ![t] = FreshPage(Refreshed(storage))]
          /\ job' = [job EXCEPT ![t] = None]
      BY <1>0, <1>1 DEF Load, TabsOK
    <2>4. TabsOK'
      BY <1>0, <2>2, <2>3, FreshPageOK, OneTab
    <2> QED BY <2>1, <2>4 DEF WInv
  <1>2. CASE Leave(t)
    <2> DEFINE left == IF j = None THEN None ELSE [j EXCEPT !.attached = FALSE]
    <2>1. left \in Job \cup {None} /\ (left # None => ~left.attached)
      BY <1>t DEF Job
    <2>2. /\ storage' = storage /\ ctx' = ctx /\ HistoryOK'
          /\ page' = [page EXCEPT ![t] = FreshPage(c)]
          /\ job' = [job EXCEPT ![t] = left]
      BY <1>0, <1>2 DEF Leave, HistoryOK, c, j
    <2> HIDE DEF left
    <2>3. FreshPage(c) \in Page /\ Apart(c, FreshPage(c), left)
      BY <1>t, <2>1, FreshPageOK
    <2>4. TabsOK'
      BY <1>0, <1>t, <2>1, <2>2, <2>3, OneTab
    <2> QED BY <1>0, <2>2, <2>4 DEF WInv
  <1>3. CASE SessionCheck(t) \/ Activity(t)
    BY <1>0, <1>3 DEF SessionCheck, Activity, CapturedWallet, WInv, TabsOK,
                      HistoryOK
  <1>4. ASSUME NEW form \in {"create", "import"}, ChooseForm(t, form)
        PROVE  WInv'
    <2> DEFINE q == [pg EXCEPT !.form = form]
    <2>1. q \in Page /\ Apart(c, q, j)
      BY <1>t DEF Page, Forms, Apart
    <2>2. /\ storage' = storage /\ ctx' = ctx /\ job' = job /\ HistoryOK'
          /\ page' = [page EXCEPT ![t] = q]
      BY <1>0, <1>4 DEF ChooseForm, HistoryOK, pg
    <2> HIDE DEF q
    <2>3. TabsOK'
      BY <1>0, <1>t, <2>1, <2>2, OneTab
    <2> QED BY <1>0, <2>2, <2>3 DEF WInv
  <1>5. ASSUME NEW kind \in {"create", "import"}, NEW w \in Wallets,
               NEW p \in Passwords, Start(t, kind, w, p), made' \subseteq Wallets
        PROVE  WInv'
    <2> DEFINE q == [pg EXCEPT !.busy = TRUE]
               new == [kind |-> kind, wallet |-> w, password |-> p,
                       attached |-> TRUE]
    <2>1. pg.phrase = None /\ pg.form = kind /\ ~LoggedIn(c)
      BY <1>5 DEF Start, OnForm, c, pg
    <2>2. q \in Page /\ new \in Job /\ Apart(c, q, new)
      BY <1>t, <2>1 DEF Page, Job, Apart
    <2>3. /\ storage' = storage /\ ctx' = ctx /\ HistoryOK'
          /\ page' = [page EXCEPT ![t] = q]
          /\ job' = [job EXCEPT ![t] = new]
      BY <1>0, <1>5 DEF Start, HistoryOK, pg
    <2> HIDE DEF q, new
    <2>4. TabsOK'
      BY <1>0, <1>t, <2>2, <2>3, OneTab
    <2> QED BY <1>0, <2>3, <2>4 DEF WInv
  <1>6. ASSUME NEW p \in Passwords, StartCreate(t, p) PROVE WInv'
    <2>1. PICK w \in Wallets : Start(t, "create", w, p) /\ made' = made \cup {w}
      BY <1>6 DEF StartCreate
    <2> QED BY <1>0, <1>5, <2>1 DEF HistoryOK
  <1>7. ASSUME NEW p \in Passwords, NEW w \in Wallets, StartImport(t, w, p)
        PROVE  WInv'
    BY <1>0, <1>5, <1>7 DEF StartImport, HistoryOK
  <1>8. CASE FinishCreate(t)
    <2>1. j # None
      BY <1>8 DEF FinishCreate, j
    <2>2. storage' = StoreWallet(storage, j.wallet, j.password) /\ HistoryOK'
      BY <1>0, <1>8, <1>j DEF FinishCreate, HistoryOK, j
    <2>3. StorageOK(storage')
      BY <1>0, <1>j, <2>1, <2>2, StoreWalletOK
    <2> DEFINE q == IF j.attached
                    THEN [pg EXCEPT !.phrase = j.wallet, !.busy = FALSE] ELSE pg
    <2>4. q \in Page /\ Apart(c, q, None)
      BY <1>t, <1>j, <2>1 DEF Page, Apart
    <2>5. ctx' = ctx /\ page' = [page EXCEPT ![t] = q]
          /\ job' = [job EXCEPT ![t] = None]
      BY <1>t, <1>8 DEF FinishCreate, j, pg
    <2> HIDE DEF q
    <2>6. TabsOK'
      BY <1>0, <1>t, <2>4, <2>5, OneTab
    <2> QED BY <2>2, <2>3, <2>6 DEF WInv
  <1>9. CASE FinishImport(t)
    <2> DEFINE d == [wallet |-> [address |-> j.wallet, key |-> j.wallet],
                     connected |-> TRUE, unlocked |-> TRUE]
    <2>1. j # None
      BY <1>9 DEF FinishImport, j
    <2>2. storage' = StoreWallet(storage, j.wallet, j.password) /\ HistoryOK'
      BY <1>0, <1>9, <1>j DEF FinishImport, HistoryOK, j
    <2>3. StorageOK(storage')
      BY <1>0, <1>j, <2>1, <2>2, StoreWalletOK
    <2>4. d \in Context /\ KeyOK(d)
      BY <1>j, <2>1, LoggedInContext
    <2>5. /\ ctx' = [ctx EXCEPT ![t] = d]
          /\ page' = [page EXCEPT ![t] = Rendered(pg, c, d)]
          /\ job' = [job EXCEPT ![t] = None]
      BY <1>9 DEF FinishImport, SetContext, j, pg, c
    <2> HIDE DEF d
    <2>6. TabsOK'
      BY <1>0, <1>t, <2>4, <2>5, RenderedOK, OneTab
    <2> QED BY <2>2, <2>3, <2>6 DEF WInv
  <1>10. CASE JobFails(t)
    <2> DEFINE q == IF j.attached THEN [pg EXCEPT !.busy = FALSE] ELSE pg
    <2>1. q \in Page /\ Apart(c, q, None)
      BY <1>t DEF Page, Apart
    <2>2. /\ storage' = storage /\ ctx' = ctx /\ HistoryOK'
          /\ page' = [page EXCEPT ![t] = q] /\ job' = [job EXCEPT ![t] = None]
      BY <1>0, <1>t, <1>10 DEF JobFails, HistoryOK, j, pg
    <2> HIDE DEF q
    <2>3. TabsOK'
      BY <1>0, <1>t, <2>1, <2>2, OneTab
    <2> QED BY <1>0, <2>2, <2>3 DEF WInv
  <1>11. CASE SavePhrase(t)
    <2> DEFINE d == Refreshed(storage)
               q == [pg EXCEPT !.phrase = None]
    <2>1. StorageOK(storage') /\ HistoryOK'
      BY <1>0, <1>11, LockOK DEF SavePhrase, HistoryOK
    <2>2. d \in Context /\ KeyOK(d) /\ q \in Page
      BY <1>0, <1>t, RefreshedOK DEF Page
    <2>3. j # None => ~j.attached
      BY <1>t, <1>11 DEF SavePhrase, Apart, pg
    <2>4. /\ ctx' = [ctx EXCEPT ![t] = d]
          /\ page' = [page EXCEPT ![t] = Rendered(q, c, d)]
          /\ job' = job
      BY <1>11 DEF SavePhrase, pg, c
    <2> HIDE DEF d, q
    <2>5. TabsOK'
      BY <1>0, <1>t, <2>2, <2>3, <2>4, RenderedOK, OneTab
    <2> QED BY <2>1, <2>5 DEF WInv
  <1>12. ASSUME NEW p \in Passwords, Unlock(t, p) PROVE WInv'
    <2>1. PICK k \in Opened(storage, p) :
            IF k = None THEN UNCHANGED <<storage, ctx, page>>
            ELSE /\ storage' = CreateSession(storage, k)
                 /\ SetContext(t, [c EXCEPT
                                     !.wallet = [address |-> storage.wallet.wallet,
                                                 key |-> k],
                                     !.unlocked = TRUE])
      BY <1>12 DEF Unlock, c
    <2>2. job' = job /\ HistoryOK'
      BY <1>0, <1>12 DEF Unlock, HistoryOK
    <2>3. CASE k = None
      BY <1>0, <2>1, <2>2, <2>3 DEF WInv, TabsOK
    <2>4. CASE k # None
      <3> DEFINE d == [c EXCEPT !.wallet = [address |-> storage.wallet.wallet,
                                            key |-> k],
                                !.unlocked = TRUE]
      <3>1. storage.wallet # None /\ k \in {storage.wallet.wallet, Garbage}
            /\ k \in Wallets \cup {Garbage}
        BY <1>0, <2>4, DecryptedOK
      <3>2. StorageOK(storage') /\ storage.wallet.wallet \in Wallets
        <4>1. storage' = CreateSession(storage, k)
          BY <2>1, <2>4
        <4>2. StorageOK(CreateSession(storage, k))
          BY <1>0, <3>1, CreateSessionOK
        <4>3. storage.wallet.wallet \in Wallets
          BY <1>0, <3>1, StorageFields DEF StorageOK
        <4> QED BY <4>1, <4>2, <4>3
      <3>3. [address |-> storage.wallet.wallet, key |-> k] \in PageWallet
        BY <3>1, <3>2 DEF PageWallet
      <3>4. d \in Context /\ KeyOK(d)
        BY <1>t, <2>4, <3>1, <3>3, WalletAssumption
           DEF Context, KeyOK, WalletAssumption
      <3>5. j # None => ~j.attached
        BY <1>t, <1>12 DEF Unlock, OnForm, Apart, pg
      <3>6. /\ ctx' = [ctx EXCEPT ![t] = d]
            /\ page' = [page EXCEPT ![t] = Rendered(pg, c, d)]
        BY <2>1, <2>4 DEF SetContext, pg, c
      <3> HIDE DEF d
      <3>7. TabsOK'
        BY <1>0, <1>t, <2>2, <3>4, <3>5, <3>6, RenderedOK, OneTab
      <3> QED BY <2>2, <3>2, <3>7 DEF WInv
    <2> QED BY <2>3, <2>4
  <1>13. CASE ResetWallet(t) \/ Logout(t)
    <2>1. Disconnect(t) /\ (j # None => ~j.attached)
      BY <1>t, <1>13 DEF ResetWallet, Logout, OnForm, Apart, c, pg
    <2>2. StorageOK(storage') /\ HistoryOK'
      BY <1>0, <2>1 DEF Disconnect, DeleteWallet, EmptyStorage, StorageOK,
                        Storage, HistoryOK
    <2>3. /\ ctx' = [ctx EXCEPT ![t] = NoContext]
          /\ page' = [page EXCEPT ![t] = Rendered(pg, c, NoContext)]
          /\ job' = job
      BY <2>1 DEF Disconnect, SetContext, pg, c
    <2>4. TabsOK'
      BY <1>0, <1>t, <2>1, <2>3, NoContextOK, RenderedOK, OneTab
    <2> QED BY <2>2, <2>4 DEF WInv
  <1>14. ASSUME NEW view \in Views, OpenView(t, view) PROVE WInv'
    <2> DEFINE q == [pg EXCEPT !.view = view,
                               !.secret = IF view = pg.view THEN @ ELSE None]
    <2>1. q \in Page
      BY <1>t DEF Page
    <2>2. Apart(c, q, j)
      BY <1>t, <1>14 DEF Page, Apart, OpenView, c
    <2>3. /\ storage' = storage /\ ctx' = ctx /\ job' = job /\ HistoryOK'
          /\ page' = [page EXCEPT ![t] = q]
      BY <1>0, <1>14 DEF OpenView, HistoryOK, pg
    <2> HIDE DEF q
    <2>4. TabsOK'
      BY <1>0, <1>t, <2>1, <2>2, <2>3, OneTab
    <2> QED BY <1>0, <2>3, <2>4 DEF WInv
  <1>15. CASE LockTab(t)
    <2> DEFINE d == Locked(c, storage)
    <2>1. StorageOK(storage') /\ HistoryOK'
      BY <1>0, <1>15, LockOK DEF LockTab, HistoryOK
    <2>2. d \in Context /\ KeyOK(d)
      BY <1>0, <1>t, LockedOK
    <2>3. j # None => ~j.attached
      BY <1>t, <1>15 DEF LockTab, Apart, c
    <2>4. /\ ctx' = [ctx EXCEPT ![t] = d]
          /\ page' = [page EXCEPT ![t] = Rendered(pg, c, d)]
          /\ job' = job
      BY <1>15 DEF LockTab, SetContext, pg, c
    <2> HIDE DEF d
    <2>5. TabsOK'
      BY <1>0, <1>t, <2>2, <2>3, <2>4, RenderedOK, OneTab
    <2> QED BY <2>1, <2>5 DEF WInv
  <1>16. ASSUME NEW p \in Passwords, Reveal(t, p) PROVE WInv'
    <2>1. PICK phrase \in Opened(storage, p) :
            page' = [page EXCEPT ![t] = [pg EXCEPT !.secret = phrase]]
      BY <1>16 DEF Reveal, pg
    <2> DEFINE q == [pg EXCEPT !.secret = phrase]
    <2>2. phrase \in Wallets \cup {Garbage, None}
      BY <1>0, DecryptedOK
    <2>3. q \in Page /\ Apart(c, q, j)
      BY <1>t, <1>16, <2>2 DEF Page, Apart, Reveal, c
    <2>4. /\ storage' = storage /\ ctx' = ctx /\ job' = job /\ HistoryOK'
          /\ page' = [page EXCEPT ![t] = q]
      BY <1>0, <1>16, <2>1 DEF Reveal, HistoryOK
    <2> HIDE DEF q
    <2>5. TabsOK'
      BY <1>0, <1>t, <2>3, <2>4, OneTab
    <2> QED BY <1>0, <2>4, <2>5 DEF WInv
  <1> QED BY <1>1, <1>2, <1>3, <1>4, <1>6, <1>7, <1>8, <1>9, <1>10, <1>11,
             <1>12, <1>13, <1>14, <1>15, <1>16 DEF TabStep

(* The invariant holds in every reachable state.                           *)
LEMMA InvariantHolds == Spec => []WInv
  <1>1. WInv /\ UNCHANGED vars => WInv'
    BY DEF WInv, TabsOK, HistoryOK, vars
  <1>2. WInv /\ [Next]_vars => WInv'
    BY <1>1, ElapseInv, TabStepInv DEF Next
  <1> QED BY InitInv, <1>2, PTL DEF Spec

(* The state of the storage and of every tab is well-typed.                *)
THEOREM WalletTypeCorrect == Spec => []TypeOK
  BY InvariantHolds, InvariantMeaning, PTL

(* The session opens the stored wallet or nothing, and no tab has a key    *)
(* that belongs to another address than its own.                           *)
THEOREM KeysMatchCorrect == Spec => []KeysMatchWallets
  BY InvariantHolds, InvariantMeaning, PTL

(* No screen shows a phrase that its tab should not show, and no login     *)
(* takes away a screen whose creation is under way.                        *)
THEOREM ScreensApartCorrect == Spec => []ScreensApart
  BY InvariantHolds, InvariantMeaning, PTL

----------------------------------------------------------------------------
(* The phrase of a created wallet *)

(* A tab that awaits a key shows no phrase, attached or not: a screen that *)
(* is mounted anew while the key is derived has none, and takes no second  *)
(* derivation.                                                             *)
NoPhraseYet == \A t \in Tabs : job[t] # None => page[t].phrase = None

(* What PhraseIsShown says of one tab.                                     *)
PhraseKept(t) ==
    /\ (job[t] # None /\ job[t].kind = "create" /\ job[t].attached
          /\ job'[t] = None /\ storage' # storage)
            => page'[t].phrase = job[t].wallet \/ Load(t)
    /\ (page[t].phrase # None /\ page'[t].phrase = None)
            => SavePhrase(t) \/ Load(t) \/ Leave(t)

(* A step of a tab replaces no other tab's screen or work.                 *)
LEMMA OthersStay ==
    ASSUME WInv, NEW t \in Tabs, TabStep(t), NEW u \in Tabs, u # t
    PROVE  page'[u] = page[u] /\ job'[u] = job[u]
  <1>1. page \in [Tabs -> Page] /\ job \in [Tabs -> Job \cup {None}]
    BY DEF WInv, TabsOK
  <1>2. CASE Load(t) \/ Leave(t)
    BY <1>1, <1>2 DEF Load, Leave
  <1>3. CASE SessionCheck(t) \/ Activity(t)
    BY <1>1, <1>3 DEF SessionCheck, Activity, CapturedWallet
  <1>4. CASE \E form \in {"create", "import"} : ChooseForm(t, form)
    BY <1>1, <1>4 DEF ChooseForm
  <1>5. ASSUME NEW kind, NEW w, NEW p, Start(t, kind, w, p)
        PROVE  page'[u] = page[u] /\ job'[u] = job[u]
    BY <1>1, <1>5 DEF Start
  <1>6. ASSUME NEW p \in Passwords, StartCreate(t, p) \/ \E w \in Wallets : StartImport(t, w, p)
        PROVE  page'[u] = page[u] /\ job'[u] = job[u]
    BY <1>5, <1>6 DEF StartCreate, StartImport
  <1>7. ASSUME NEW p \in Passwords, Unlock(t, p) \/ Reveal(t, p)
        PROVE  page'[u] = page[u] /\ job'[u] = job[u]
    BY <1>1, <1>7 DEF Unlock, Reveal, SetContext
  <1>8. CASE FinishCreate(t) \/ FinishImport(t) \/ JobFails(t)
    BY <1>1, <1>8 DEF FinishCreate, FinishImport, JobFails, SetContext
  <1>9. CASE SavePhrase(t)
    BY <1>1, <1>9 DEF SavePhrase
  <1>10. CASE ResetWallet(t) \/ LockTab(t) \/ Logout(t)
    BY <1>1, <1>10 DEF ResetWallet, LockTab, Logout, Disconnect, SetContext
  <1>11. CASE \E view \in Views : OpenView(t, view)
    BY <1>1, <1>11 DEF OpenView
  <1> QED
    BY <1>2, <1>3, <1>4, <1>6, <1>7, <1>8, <1>9, <1>10, <1>11 DEF TabStep

(* In the tab that steps: what happens to its phrase and its work.         *)
LEMMA PhraseStep ==
    ASSUME WInv, NoPhraseYet, NEW t \in Tabs, TabStep(t)
    PROVE  PhraseKept(t) /\ (job'[t] # None => page'[t].phrase = None)
  <1> DEFINE Goal == PhraseKept(t) /\ (job'[t] # None => page'[t].phrase = None)
             j == job[t]
  <1>1. /\ page \in [Tabs -> Page] /\ job \in [Tabs -> Job \cup {None}]
        /\ page[t] \in Page /\ job[t] \in Job \cup {None}
        /\ job[t] # None => job[t] \in Job /\ job[t].wallet \in Wallets
        /\ job[t] # None => page[t].phrase = None
        /\ page[t].phrase # None => ~LoggedIn(ctx[t])
    BY EachTab DEF WInv, TabsOK, NoPhraseYet, Apart, Job
  <1>2. None \notin Wallets /\ None \notin Job
    BY WalletAssumption, TabsAssumption DEF WalletAssumption, TabsAssumption
  <1>3. ASSUME storage' = storage \/ job'[t] = job[t],
               page'[t].phrase = page[t].phrase,
               job'[t] \in {job[t], None}
        PROVE  Goal
    BY <1>1, <1>2, <1>3 DEF PhraseKept
  <1>4. CASE Load(t)
    <2>1. job'[t] = None
      BY <1>1, <1>4 DEF Load
    <2> QED
      BY <1>4, <2>1 DEF PhraseKept
  <1>5. CASE Leave(t)
    <2>1. storage' = storage /\ page'[t].phrase = None
      BY <1>1, <1>5 DEF Leave, FreshPage
    <2> QED
      BY <1>5, <2>1 DEF PhraseKept
  <1>6. CASE SessionCheck(t) \/ Activity(t)
    <2>1. page' = page /\ job' = job
      BY <1>6 DEF SessionCheck, Activity, CapturedWallet
    <2> QED
      BY <1>3, <2>1
  <1>7. CASE \E form \in {"create", "import"} : ChooseForm(t, form)
    <2>1. job' = job /\ page'[t].phrase = page[t].phrase
      BY <1>1, <1>7 DEF ChooseForm, Page
    <2> QED
      BY <1>3, <2>1
  <1>8. ASSUME NEW kind, NEW w, NEW p, Start(t, kind, w, p)
        PROVE  Goal
    <2>1. storage' = storage /\ page[t].phrase = None /\ page'[t].phrase = None
      BY <1>1, <1>8 DEF Start, OnForm, Page
    <2> QED
      BY <2>1 DEF PhraseKept
  <1>9. ASSUME NEW p \in Passwords,
               StartCreate(t, p) \/ \E w \in Wallets : StartImport(t, w, p)
        PROVE  Goal
    <2> HIDE DEF Goal
    <2> QED
      BY <1>8, <1>9 DEF StartCreate, StartImport
  <1>10. ASSUME page[t].phrase = None, job' = job, page'[t].phrase = None
         PROVE  Goal
    BY <1>1, <1>10 DEF PhraseKept
  <1>11. ASSUME NEW d, NEW c, NEW pg, pg.phrase = None
         PROVE  Rendered(pg, c, d).phrase = None
    BY <1>11 DEF Rendered
  <1>12. ASSUME NEW d, SetContext(t, d), page[t].phrase = None
         PROVE  page'[t].phrase = None
    BY <1>1, <1>11, <1>12 DEF SetContext
  <1>13. ASSUME NEW p \in Passwords, Unlock(t, p)
         PROVE  Goal
    <2>1. page[t].phrase = None /\ job' = job
      BY <1>13 DEF Unlock, OnForm
    <2>2. page'[t].phrase = None
      <3>1. PICK key \in Opened(storage, p) :
               page' = page \/ \E d : SetContext(t, d)
        BY <1>13 DEF Unlock
      <3> QED
        BY <1>12, <2>1, <3>1
    <2> HIDE DEF Goal
    <2> QED
      BY <1>10, <2>1, <2>2
  <1>14. ASSUME NEW p \in Passwords, Reveal(t, p)
         PROVE  Goal
    <2>1. job' = job /\ page'[t].phrase = page[t].phrase
      BY <1>1, <1>14 DEF Reveal, Page
    <2> QED
      BY <1>3, <2>1
  <1>15. CASE FinishCreate(t)
    <2>1. /\ job[t] # None /\ job'[t] = None
          /\ job[t].attached => page'[t].phrase = job[t].wallet
          /\ ~job[t].attached => page' = page
      BY <1>1, <1>15 DEF FinishCreate, Page
    <2> QED
      BY <1>1, <1>2, <2>1 DEF PhraseKept
  <1>16. CASE FinishImport(t)
    <2>1. job[t] # None /\ job[t].kind = "import" /\ job'[t] = None
      BY <1>1, <1>16 DEF FinishImport
    <2> QED
      BY <1>1, <2>1 DEF PhraseKept
  <1>17. CASE JobFails(t)
    <2>1. storage' = storage /\ job'[t] = None /\ page'[t].phrase = page[t].phrase
      BY <1>1, <1>17 DEF JobFails, Page
    <2> QED
      BY <1>3, <2>1
  <1>18. CASE SavePhrase(t)
    <2>1. job' = job /\ page[t].phrase # None
      BY <1>18 DEF SavePhrase
    <2> QED
      BY <1>1, <1>18, <2>1 DEF PhraseKept
  <1>19. CASE ResetWallet(t) \/ LockTab(t) \/ Logout(t)
    <2>1. job' = job /\ page[t].phrase = None
      BY <1>1, <1>19 DEF ResetWallet, LockTab, Logout, Disconnect, OnForm
    <2>2. \E d : SetContext(t, d)
      BY <1>19 DEF ResetWallet, LockTab, Logout, Disconnect
    <2>3. page'[t].phrase = None
      BY <1>12, <2>1, <2>2
    <2> QED
      BY <1>10, <2>1, <2>3
  <1>20. CASE \E view \in Views : OpenView(t, view)
    <2>1. job' = job /\ page'[t].phrase = page[t].phrase
      BY <1>1, <1>20 DEF OpenView, Page
    <2> QED
      BY <1>3, <2>1
  <1> QED
    BY <1>4, <1>5, <1>6, <1>7, <1>9, <1>13, <1>14, <1>15, <1>16, <1>17,
       <1>18, <1>19, <1>20 DEF TabStep

(* So in every step, of any tab or of none.                                *)
LEMMA PhraseNext ==
    WInv /\ NoPhraseYet /\ [Next]_vars
        => NoPhraseYet' /\ [\A t \in Tabs : PhraseKept(t)]_vars
  <1> SUFFICES ASSUME WInv, NoPhraseYet, [Next]_vars
               PROVE  NoPhraseYet' /\ (vars' = vars \/ \A t \in Tabs : PhraseKept(t))
    OBVIOUS
  <1>1. ASSUME NEW t \in Tabs, job'[t] = job[t], page'[t] = page[t]
        PROVE  PhraseKept(t) /\ (job'[t] # None => page'[t].phrase = None)
    BY <1>1 DEF PhraseKept, NoPhraseYet
  <1>2. CASE UNCHANGED vars
    BY <1>2 DEF vars, NoPhraseYet
  <1>3. CASE Elapse
    BY <1>1, <1>3 DEF Elapse, NoPhraseYet
  <1>4. ASSUME NEW t \in Tabs, TabStep(t)
        PROVE  \A u \in Tabs : PhraseKept(u) /\ (job'[u] # None => page'[u].phrase = None)
    BY <1>1, <1>4, PhraseStep, OthersStay
  <1> QED
    BY <1>2, <1>3, <1>4 DEF Next, NoPhraseYet

(* When the key of a created wallet arrives and its screen is still there, *)
(* the phrase is shown, and only the button of that screen, a reload or    *)
(* leaving it takes it away.                                               *)
THEOREM PhraseIsShownCorrect == Spec => PhraseIsShown
  <1>1. Init => NoPhraseYet
    BY DEF Init, NoPhraseYet
  <1>2. [\A t \in Tabs : PhraseKept(t)]_vars
          => [\A t \in Tabs :
                /\ (job[t] # None /\ job[t].kind = "create" /\ job[t].attached
                      /\ job'[t] = None /\ storage' # storage)
                        => page'[t].phrase = job[t].wallet \/ Load(t)
                /\ (page[t].phrase # None /\ page'[t].phrase = None)
                        => SavePhrase(t) \/ Load(t) \/ Leave(t)]_vars
    BY DEF PhraseKept
  <1> QED
    BY <1>1, <1>2, InvariantHolds, PhraseNext, PTL DEF Spec, PhraseIsShown

----------------------------------------------------------------------------
(* The refinement of Vault                                                 *)

(* What a tab shows, and whether the vault is open.                        *)
Shown(pg) ==
    IF pg.phrase # None THEN pg.phrase
    ELSE IF pg.secret \in Wallets THEN pg.secret ELSE None

Open(st) ==
    /\ IsWalletUnlocked(st) /\ HasWallet(st)
    /\ st.session.key = st.wallet.wallet

AllShown == [t \in Tabs |-> Shown(page[t])]

(* A tab may hide its phrase, or show w; the others stay as they are.      *)
LEMMA TabShows ==
    ASSUME TabsOK, NEW t \in Tabs, NEW pg, NEW w,
           page' = [page EXCEPT ![t] = pg],
           Shown(pg) \in {Shown(page[t]), None, w}
    PROVE  /\ \A u \in Tabs : AllShown'[u] \in {AllShown[u], None} \cup
                                                 (IF u = t THEN {w} ELSE {})
           /\ Shown(pg) \in {Shown(page[t]), None} =>
                 \A u \in Tabs : AllShown'[u] \in {AllShown[u], None}
  <1>1. ASSUME NEW u \in Tabs
        PROVE  AllShown'[u] = IF u = t THEN Shown(pg) ELSE AllShown[u]
    BY DEF TabsOK, AllShown, Shown
  <1>2. AllShown[t] = Shown(page[t])
    BY DEF AllShown
  <1> QED BY <1>1, <1>2

(* A page that is rendered anew shows what it showed, or nothing.          *)
LEMMA RenderedShows ==
    ASSUME NEW pg \in Page, NEW c, NEW d, NEW j, Apart(c, pg, j)
    PROVE  /\ Shown(Rendered(pg, c, d)) \in {Shown(pg), None}
           /\ Shown(Rendered([pg EXCEPT !.phrase = None], c, d))
                 \in {Shown(pg), None}
  BY DEF Shown, Rendered, Apart, Page

(* What hides or shows in terms of the tabs is so in terms of the vault.   *)
LEMMA VaultScreens ==
    ASSUME NEW t \in Tabs, NEW w
    PROVE  /\ (\A u \in Tabs : AllShown'[u] \in {AllShown[u], None}) => V!Hides
           /\ (\A u \in Tabs : AllShown'[u] \in {AllShown[u], None} \cup
                                             (IF u = t THEN {w} ELSE {}))
                 => V!Shows(t, w)
  BY DEF V!Hides, V!Shows, AllShown, Shown

(* The vault is closed, or stays as it is.                                 *)
LEMMA VaultMayClose ==
    ASSUME Open(storage)' => Open(storage), V!Hides,
           storage'.wallet = storage.wallet
    PROVE  /\ typed' = None => V!Close
           /\ \A p : typed' = p => V!Wrong(p)
  <1>1. CASE Open(storage)'
    BY <1>1 DEF Open, V!Close, V!Wrong
  <1>2. CASE ~Open(storage)'
    BY <1>2 DEF Open, V!Close, V!Wrong
  <1> QED BY <1>1, <1>2

(* The right password opens it or shows its phrase.                        *)
LEMMA VaultRight ==
    ASSUME storage.wallet # None, storage'.wallet = storage.wallet,
           NEW t, typed' = storage.wallet.password,
           \/ Open(storage)' /\ V!Hides
           \/ storage' = storage /\ V!Shows(t, storage.wallet.wallet)
    PROVE  V!Right(t, typed')
  BY DEF Open, V!Right

(* The abstract vault may keep what it has.                                *)
LEMMA VaultKeep ==
    ASSUME NEW t, NEW w, NEW p, typed' = p, Open(storage)', V!Shows(t, w),
           storage'.wallet = [wallet |-> w, password |-> p]
    PROVE  V!Keep(t, w, p)
  BY DEF Open, V!Keep

(* It may be erased.                                                       *)
LEMMA VaultErase ==
    ASSUME typed' = None, storage'.wallet = None, ~Open(storage)', V!Hides
    PROVE  V!Erase
  BY DEF Open, V!Erase

(* The passing of time closes it, at most.                                 *)
LEMMA ElapseCloses == WInv /\ Elapse => V!Close
  <1> SUFFICES ASSUME WInv, Elapse PROVE V!Close
    OBVIOUS
  <1>1. storage \in Storage /\ storage.session \in Session
    BY StorageFields DEF WInv, StorageOK, Elapse, IsWalletUnlocked
  <1>2. /\ storage'.wallet = storage.wallet
        /\ storage'.session = [storage.session EXCEPT !.left = @ - 1]
    BY <1>1 DEF Elapse, Storage
  <1>3. /\ storage.session.left \in Int
        /\ storage'.session.left = storage.session.left - 1
        /\ storage'.session.key = storage.session.key
    BY <1>1, <1>2, WalletAssumption DEF Session, WalletAssumption
  <1>4. Open(storage)' => Open(storage)
    BY <1>1, <1>2, <1>3, WalletAssumption
       DEF Open, IsWalletUnlocked, HasWallet, WalletAssumption
  <1>5. V!Hides
    BY DEF Elapse, V!Hides
  <1> QED BY <1>2, <1>4, <1>5, VaultMayClose DEF Elapse

(* What a step does to the storage, as far as the vault is concerned.      *)
LEMMA StorageOpens ==
    ASSUME NEW st, StorageOK(st)
    PROVE  /\ Open(LockWallet(st)) => Open(st)
           /\ Open(RefreshedStorage(st)) => Open(st)
           /\ ~Open(DeleteWallet(st)) /\ DeleteWallet(st).wallet = None
           /\ \A w \in Wallets, p \in Passwords : Open(StoreWallet(st, w, p))
           /\ st.wallet # None =>
                 /\ Open(CreateSession(st, st.wallet.wallet))
                 /\ st.wallet.wallet # Garbage => ~Open(CreateSession(st, Garbage))
  <1>1. Lifetime >= 0 /\ Garbage \notin Wallets
    BY WalletAssumption DEF WalletAssumption
  <1>2. /\ Open(LockWallet(st)) => Open(st)
        /\ Open(RefreshedStorage(st)) => Open(st)
    BY DEF Open, LockWallet, RefreshedStorage, DropExpired, IsWalletUnlocked,
           HasWallet, StorageOK, Storage
  <1>3. ~Open(DeleteWallet(st)) /\ DeleteWallet(st).wallet = None
    BY DEF Open, DeleteWallet, EmptyStorage, IsWalletUnlocked, HasWallet
  <1>4. ASSUME NEW w \in Wallets, NEW p \in Passwords
        PROVE  Open(StoreWallet(st, w, p))
    <2>1. [wallet |-> w, password |-> p] # None /\ [key |-> w, left |-> Lifetime] # None
      BY WalletAssumption DEF WalletAssumption, StoredWallet, Session
    <2>2. /\ StoreWallet(st, w, p).wallet = [wallet |-> w, password |-> p]
          /\ StoreWallet(st, w, p).session = [key |-> w, left |-> Lifetime]
      BY StoreWalletOK
    <2> QED BY <1>1, <2>1, <2>2 DEF Open, IsWalletUnlocked, HasWallet
  <1>5. ASSUME st.wallet # None, NEW k \in {st.wallet.wallet, Garbage}
        PROVE  Open(CreateSession(st, k)) <=> k = st.wallet.wallet
    <2>1. /\ CreateSession(st, k).wallet = st.wallet
          /\ CreateSession(st, k).session = [key |-> k, left |-> Lifetime]
      BY <1>5, CreateSessionOK
    <2>2. [key |-> k, left |-> Lifetime] # None
      BY <1>5, StorageFields, WalletAssumption
         DEF WalletAssumption, Session, StorageOK
    <2> QED BY <1>1, <1>5, <2>1, <2>2 DEF Open, IsWalletUnlocked, HasWallet
  <1> QED BY <1>2, <1>3, <1>4, <1>5

(* Every step of a tab is a step of the vault or leaves it alone.          *)
LEMMA TabStepRefines ==
    ASSUME WInv, NEW t \in Tabs, TabStep(t)
    PROVE  V!Next
  <1>0. StorageOK(storage) /\ TabsOK
    BY DEF WInv
  <1> DEFINE c == ctx[t]
             pg == page[t]
             j == job[t]
  <1>t. /\ c \in Context /\ pg \in Page /\ j \in Job \cup {None}
        /\ Apart(c, pg, j) /\ page = [page EXCEPT ![t] = pg]
        /\ j # None => j.wallet \in Wallets /\ j.password \in Passwords
    BY <1>0, EachTab DEF Job
  <1> HIDE DEF c, pg, j
  (* It is enough that the tab's page shows what it showed, or nothing.    *)
  <1>h. ASSUME NEW q, page' = [page EXCEPT ![t] = q],
               Shown(q) \in {Shown(pg), None}
        PROVE  V!Hides
    BY <1>0, <1>h, TabShows, VaultScreens DEF pg
  <1>s. ASSUME NEW q, NEW w, page' = [page EXCEPT ![t] = q],
               Shown(q) \in {Shown(pg), None, w}
        PROVE  V!Shows(t, w)
    <2>1. \A u \in Tabs : AllShown'[u] \in {AllShown[u], None} \cup
                                             (IF u = t THEN {w} ELSE {})
      BY <1>0, <1>s, TabShows DEF pg
    <2> QED BY <2>1, VaultScreens
  <1>1. CASE Load(t)
    <2>1. /\ storage' = RefreshedStorage(storage) /\ typed' = None
          /\ page' = [page EXCEPT ![t] = FreshPage(Refreshed(storage))]
      BY <1>0, <1>1 DEF Load, TabsOK
    <2>2. Shown(FreshPage(Refreshed(storage))) = None
      BY WalletAssumption DEF FreshPage, Shown, WalletAssumption
    <2>3. V!Hides
      BY <2>1, <2>2, <1>h
    <2> QED BY <1>0, <2>1, <2>3, LockOK, StorageOpens, VaultMayClose DEF V!Next
  <1>2. CASE \/ Leave(t) \/ SessionCheck(t) \/ Activity(t)
             \/ \E form \in {"create", "import"} : ChooseForm(t, form)
             \/ \E p \in Passwords : StartCreate(t, p)
             \/ \E p \in Passwords, w \in Wallets : StartImport(t, w, p)
             \/ JobFails(t)
             \/ \E view \in Views : OpenView(t, view)
    <2>1. storage' = storage /\ typed' = None
      BY <1>2 DEF Leave, SessionCheck, Activity, CapturedWallet, ChooseForm,
                  StartCreate, StartImport, Start, JobFails, OpenView
    <2> DEFINE Fades == \E q : /\ page' = [page EXCEPT ![t] = q]
                               /\ Shown(q) \in {Shown(pg), None}
    <2>2. Fades
      <3>1. CASE Leave(t)
        <4>1. Shown(FreshPage(c)) = None
          BY WalletAssumption DEF FreshPage, Shown, WalletAssumption
        <4> QED BY <3>1, <4>1 DEF Leave, c
      <3>2. CASE SessionCheck(t) \/ Activity(t)
        BY <1>t, <3>2 DEF SessionCheck, Activity, CapturedWallet
      <3>3. ASSUME NEW form \in {"create", "import"}, ChooseForm(t, form)
            PROVE  Fades
        <4>1. Shown([pg EXCEPT !.form = form]) = Shown(pg)
          BY <1>t DEF Shown, Page
        <4> QED BY <3>3, <4>1 DEF ChooseForm, pg
      <3>4. CASE \/ \E p \in Passwords : StartCreate(t, p)
                 \/ \E p \in Passwords, w \in Wallets : StartImport(t, w, p)
                 \/ JobFails(t)
        <4>1. Shown([pg EXCEPT !.busy = TRUE]) = Shown(pg)
              /\ Shown([pg EXCEPT !.busy = FALSE]) = Shown(pg)
          BY <1>t DEF Shown, Page
        <4> QED BY <1>t, <3>4, <4>1
                DEF StartCreate, StartImport, Start, JobFails, pg
      <3>5. ASSUME NEW view \in Views, OpenView(t, view) PROVE Fades
        <4> DEFINE q == [pg EXCEPT !.view = view,
                            !.secret = IF view = pg.view THEN @ ELSE None]
        <4>1. Shown(q) \in {Shown(pg), None}
          BY <1>t, WalletAssumption DEF Shown, Page, WalletAssumption
        <4> QED BY <3>5, <4>1 DEF OpenView, pg
      <3> QED BY <1>2, <3>1, <3>2, <3>3, <3>4, <3>5
    <2>3. V!Hides
      BY <2>2, <1>h
    <2> QED BY <2>1, <2>3, VaultMayClose DEF V!Next
  <1>3. CASE FinishCreate(t) \/ FinishImport(t)
    <2>1. /\ j # None /\ typed' = j.password
          /\ storage' = StoreWallet(storage, j.wallet, j.password)
      BY <1>3 DEF FinishCreate, FinishImport, j
    <2>2. PICK w \in Wallets, p \in Passwords : w = j.wallet /\ p = j.password
      BY <1>t, <2>1
    <2>3. /\ typed' = p /\ Open(storage)'
          /\ storage'.wallet = [wallet |-> w, password |-> p]
      <3>1. Open(StoreWallet(storage, w, p))
        BY <1>0, StorageOpens
      <3>2. StoreWallet(storage, w, p).wallet = [wallet |-> w, password |-> p]
        BY <1>0, StoreWalletOK
      <3> QED BY <2>1, <2>2, <3>1, <3>2
    <2>4. V!Shows(t, w)
      <3>1. CASE FinishCreate(t)
        <4> DEFINE q == IF j.attached
                        THEN [pg EXCEPT !.phrase = j.wallet, !.busy = FALSE]
                        ELSE pg
        <4>1. page' = [page EXCEPT ![t] = q]
          BY <1>t, <3>1 DEF FinishCreate, j, pg
        <4>2. Shown(q) \in {Shown(pg), None, w}
          <5>1. CASE j.attached
            BY <1>t, <2>2, <5>1, WalletAssumption DEF Shown, Page, WalletAssumption
          <5>2. CASE ~j.attached
            BY <5>2
          <5> QED BY <5>1, <5>2
        <4> HIDE DEF q
        <4> QED BY <4>1, <4>2, <1>s
      <3>2. CASE FinishImport(t)
        <4> DEFINE d == [wallet |-> [address |-> j.wallet, key |-> j.wallet],
                         connected |-> TRUE, unlocked |-> TRUE]
        <4>1. page' = [page EXCEPT ![t] = Rendered(pg, c, d)]
          BY <3>2 DEF FinishImport, SetContext, j, pg, c
        <4>2. Shown(Rendered(pg, c, d)) \in {Shown(pg), None}
          BY <1>t, RenderedShows
        <4> QED BY <4>1, <4>2, <1>s
      <3> QED BY <1>3, <3>1, <3>2
    <2>5. V!Keep(t, w, p)
      BY <2>3, <2>4, VaultKeep
    <2> QED BY <2>5 DEF V!Next
  <1>4. CASE SavePhrase(t)
    <2> DEFINE q == [pg EXCEPT !.phrase = None]
    <2>1. /\ storage' = RefreshedStorage(storage) /\ typed' = None
          /\ page' = [page EXCEPT ![t] = Rendered(q, c, Refreshed(storage))]
      BY <1>4 DEF SavePhrase, pg, c
    <2>2. Shown(Rendered(q, c, Refreshed(storage))) \in {Shown(pg), None}
      BY <1>t, RenderedShows
    <2>3. V!Hides
      BY <2>1, <2>2, <1>h
    <2> QED BY <1>0, <2>1, <2>3, LockOK, StorageOpens, VaultMayClose DEF V!Next
  <1>5. ASSUME NEW p \in Passwords, Unlock(t, p) PROVE V!Next
    <2>1. PICK k \in Opened(storage, p) :
            IF k = None THEN UNCHANGED <<storage, ctx, page>>
            ELSE /\ storage' = CreateSession(storage, k)
                 /\ SetContext(t, [c EXCEPT
                                     !.wallet = [address |-> storage.wallet.wallet,
                                                 key |-> k],
                                     !.unlocked = TRUE])
      BY <1>5 DEF Unlock, c
    <2>2. typed' = p
      BY <1>5 DEF Unlock
    <2>3. CASE k = None
      <3>1. storage' = storage /\ page' = page
        BY <2>1, <2>3
      <3>2. V!Hides
        BY <1>t, <3>1, <1>h
      <3> QED BY <2>2, <3>1, <3>2, VaultMayClose DEF V!Next
    <2>4. CASE k # None
      <3>1. /\ storage.wallet # None /\ k \in {storage.wallet.wallet, Garbage}
            /\ p # storage.wallet.password => k = Garbage
        BY <1>0, <2>4, DecryptedOK
      <3>2. storage' = CreateSession(storage, k) /\ storage'.wallet = storage.wallet
        BY <1>0, <2>1, <2>4, <3>1, CreateSessionOK
      <3>3. V!Hides
        <4> DEFINE d == [c EXCEPT !.wallet = [address |-> storage.wallet.wallet,
                                              key |-> k],
                                  !.unlocked = TRUE]
        <4>1. page' = [page EXCEPT ![t] = Rendered(pg, c, d)]
          BY <2>1, <2>4 DEF SetContext, pg, c
        <4>2. Shown(Rendered(pg, c, d)) \in {Shown(pg), None}
          BY <1>t, RenderedShows
        <4> QED BY <4>1, <4>2, <1>h
      <3>4. CASE p = storage.wallet.password /\ k = storage.wallet.wallet
        <4>1. Open(storage)'
          BY <1>0, <3>1, <3>2, <3>4, StorageOpens
        <4>2. V!Right(t, p)
          BY <2>2, <3>1, <3>2, <3>3, <3>4, <4>1, VaultRight
        <4> QED BY <4>2 DEF V!Next
      <3>5. CASE p # storage.wallet.password
        <4>1. storage.wallet.wallet # Garbage
          BY <1>0, <3>1, StorageFields, WalletAssumption
             DEF StorageOK, WalletAssumption
        <4>2. ~Open(storage)'
          BY <1>0, <3>1, <3>2, <3>5, <4>1, StorageOpens
        <4> QED BY <2>2, <3>2, <3>3, <4>2, VaultMayClose DEF V!Next
      <3>6. p = storage.wallet.password => k = storage.wallet.wallet
        BY <3>1 DEF Opened, Decrypted, HasWallet
      <3> QED BY <3>4, <3>5, <3>6
    <2> QED BY <2>3, <2>4
  <1>6. CASE ResetWallet(t) \/ Logout(t)
    <2>1. /\ storage' = DeleteWallet(storage) /\ typed' = None
          /\ page' = [page EXCEPT ![t] = Rendered(pg, c, NoContext)]
      BY <1>6 DEF ResetWallet, Logout, Disconnect, SetContext, pg, c
    <2>2. V!Hides
      BY <1>t, <2>1, <1>h, RenderedShows
    <2>3. V!Erase
      BY <1>0, <2>1, <2>2, StorageOpens, VaultErase
    <2> QED BY <2>3 DEF V!Next
  <1>7. CASE LockTab(t)
    <2>1. /\ storage' = LockWallet(storage) /\ typed' = None
          /\ page' = [page EXCEPT ![t] = Rendered(pg, c, Locked(c, storage))]
      BY <1>7 DEF LockTab, SetContext, pg, c
    <2>2. V!Hides
      BY <1>t, <2>1, <1>h, RenderedShows
    <2> QED BY <1>0, <2>1, <2>2, LockOK, StorageOpens, VaultMayClose DEF V!Next
  <1>8. ASSUME NEW p \in Passwords, Reveal(t, p) PROVE V!Next
    <2>1. PICK phrase \in Opened(storage, p) :
            page' = [page EXCEPT ![t] = [pg EXCEPT !.secret = phrase]]
      BY <1>8 DEF Reveal, pg
    <2>2. /\ storage' = storage /\ typed' = p /\ pg.phrase = None
          /\ pg.secret = None
      BY <1>t, <1>8 DEF Reveal, Apart, c, pg
    <2> DEFINE q == [pg EXCEPT !.secret = phrase]
    <2>3. Shown(q) = IF phrase \in Wallets THEN phrase ELSE None
      BY <1>t, <2>2 DEF Shown, Page
    <2>4. CASE phrase \in Wallets
      <3>1. /\ storage.wallet # None /\ p = storage.wallet.password
            /\ phrase = storage.wallet.wallet
        BY <1>0, <2>4, DecryptedOK, WalletAssumption
           DEF WalletAssumption, Opened, Decrypted, HasWallet
      <3>2. V!Shows(t, phrase)
        BY <2>1, <2>3, <1>s
      <3>3. V!Shows(t, storage.wallet.wallet)
        BY <3>1, <3>2 DEF V!Shows
      <3>4. V!Right(t, p)
        BY <2>2, <3>1, <3>3, VaultRight
      <3> QED BY <3>4 DEF V!Next
    <2>5. CASE phrase \notin Wallets
      <3>1. V!Hides
        BY <2>1, <2>3, <2>5, <1>h
      <3> QED BY <2>2, <3>1, VaultMayClose DEF V!Next
    <2> QED BY <2>4, <2>5
  <1> QED BY <1>1, <1>2, <1>3, <1>4, <1>5, <1>6, <1>7, <1>8 DEF TabStep

(* Whatever is done in any number of tabs, in whatever order: nothing but  *)
(* the right password, or a wallet put in, opens the wallet or shows its   *)
(* phrase.                                                                 *)
THEOREM WalletVaultRefined == Spec => VaultRefined
  <1>1. Init => V!Init
    BY WalletAssumption
       DEF Init, V!Init, EmptyStorage, FreshPage, NoContext, IsWalletUnlocked,
           WalletAssumption
  <1>2. WInv /\ [Next]_vars => [V!Next]_(V!vars)
    <2>1. WInv /\ Next => V!Next
      BY ElapseCloses, TabStepRefines DEF Next, V!Next
    <2>2. UNCHANGED vars => UNCHANGED V!vars
      BY DEF vars, V!vars, IsWalletUnlocked, HasWallet
    <2> QED BY <2>1, <2>2
  <1> QED BY <1>1, <1>2, InvariantHolds, PTL DEF Spec, VaultRefined, V!Spec
=============================================================================
