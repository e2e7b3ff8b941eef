---------------------------- MODULE PagesProofs -----------------------------
(***************************************************************************)
(* For any number of addresses, versions, requests at a time and outages:  *)
(* the invariants of Pages.                                                *)
(*                                                                         *)
(* What a screen says is a matter of all its state.  PagesInv says where   *)
(* that state comes from: each resource is shown, denied or missing as the *)
(* answers for it since the mount said (Backed), whatever order they came  *)
(* in.  Backed is kept by each handler of an answer; what the screens say  *)
(* is looked at only once, in BackedTold.                                  *)
(***************************************************************************)
EXTENDS Pages, TLAPS

-----------------------------------------------------------------------------
(* What a screen is made of. *)

(* The parts of a view.                                                    *)
LEMMA ViewParts ==
    ASSUME NEW kind, NEW v \in View(kind)
    PROVE  /\ v = [data |-> v.data, loading |-> v.loading, error |-> v.error]
           /\ v.data \in [Fetched(kind) -> Content \cup {None}]
           /\ v.loading \in SUBSET Fetched(kind)
           /\ v.error \in [Fetched(kind) -> {"none", "absent", "failed"}]
  BY DEF View

(* A view is one if its parts are.                                         *)
LEMMA ViewType ==
    ASSUME NEW kind, NEW data \in [Fetched(kind) -> Content \cup {None}],
           NEW loading \in SUBSET Fetched(kind),
           NEW error \in [Fetched(kind) -> {"none", "absent", "failed"}]
    PROVE  [data |-> data, loading |-> loading, error |-> error] \in View(kind)
  BY DEF View

(* Receiving changes what is shown of one resource, *)
LEMMA ReceiveParts ==
    ASSUME NEW kind, NEW v \in View(kind), NEW r \in Fetched(kind),
           NEW body \in Content \cup {None}
    PROVE  /\ Receive(v, r, body) \in View(kind)
           /\ Receive(v, r, body).data = [v.data EXCEPT ![r] = body]
           /\ Receive(v, r, body).loading = v.loading
           /\ Receive(v, r, body).error = v.error
  <1> DEFINE data == [v.data EXCEPT ![r] = body]
  <1>1. data \in [Fetched(kind) -> Content \cup {None}]
    BY ViewParts
  <1>2. Receive(v, r, body) = [v EXCEPT !.data = data]
    BY DEF Receive
  <1> HIDE DEF data
  <1>3. Receive(v, r, body)
          = [data |-> data, loading |-> v.loading, error |-> v.error]
    BY <1>2, ViewParts
  <1>4. Receive(v, r, body) \in View(kind)
    <2>1. v.loading \in SUBSET Fetched(kind)
          /\ v.error \in [Fetched(kind) -> {"none", "absent", "failed"}]
      BY ViewParts
    <2>2. [data |-> data, loading |-> v.loading, error |-> v.error] \in View(kind)
      BY <1>1, <2>1, ViewType
    <2> QED
      BY <1>3, <2>2
  <1> QED
    BY <1>3, <1>4 DEF data

(* What may be remembered of a fetch.                                      *)
Marks == {"none", "absent", "failed"}

(* marking what is remembered of one,                                      *)
LEMMA MarkParts ==
    ASSUME NEW kind, NEW v \in View(kind), NEW r \in Fetched(kind),
           NEW e \in Marks
    PROVE  /\ Mark(v, r, e) \in View(kind)
           /\ Mark(v, r, e).data = v.data
           /\ Mark(v, r, e).loading = v.loading
           /\ Mark(v, r, e).error = [v.error EXCEPT ![r] = e]
  <1> DEFINE error == [v.error EXCEPT ![r] = e]
  <1>1. error \in [Fetched(kind) -> {"none", "absent", "failed"}]
    BY ViewParts DEF Marks
  <1>2. Mark(v, r, e) = [v EXCEPT !.error = error]
    BY DEF Mark
  <1> HIDE DEF error
  <1>3. Mark(v, r, e) = [data |-> v.data, loading |-> v.loading, error |-> error]
    BY <1>2, ViewParts
  <1>4. Mark(v, r, e) \in View(kind)
    BY <1>1, <1>3, ViewParts, ViewType
  <1> QED
    BY <1>3, <1>4 DEF error

(* and the end of a wait what is waited for.                               *)
LEMMA LoadedParts ==
    ASSUME NEW kind, NEW v \in View(kind), NEW r
    PROVE  /\ Loaded(v, r) \in View(kind)
           /\ Loaded(v, r).data = v.data
           /\ Loaded(v, r).loading = v.loading \ {r}
           /\ Loaded(v, r).error = v.error
  <1> DEFINE loading == v.loading \ {r}
  <1>1. loading \in SUBSET Fetched(kind)
    BY ViewParts
  <1>2. Loaded(v, r) = [v EXCEPT !.loading = loading]
    BY DEF Loaded
  <1> HIDE DEF loading
  <1>3. Loaded(v, r) = [data |-> v.data, loading |-> loading, error |-> v.error]
    BY <1>2, ViewParts
  <1>4. Loaded(v, r) \in View(kind)
    BY <1>1, <1>3, ViewParts, ViewType
  <1> QED
    BY <1>3, <1>4 DEF loading

-----------------------------------------------------------------------------
(* What a screen says rests on what it was told. *)

(* An answer that comes with content or with a failure's status.           *)
Sound(resp) ==
    /\ resp \in Response
    /\ IsOk(resp) => resp.body \in Content
    /\ ~IsOk(resp) => resp.body = None

(* What is shown, denied or missing of the resource r, when T is what the  *)
(* answers for it said.                                                    *)
Backed(kind, a, v, r, T) ==
    /\ v.data[r] # None /\ v.data[r].at \in AbsentIn => "absent" \in T
    /\ v.error[r] = "absent" => "absent" \in T
    /\ r \notin v.loading /\ v.data[r] = None /\ r # "local"
         /\ kind \notin {"sidebar", "navbar"} =>
            \/ T \cap {"absent", "failed"} # {}
            \/ kind = "validator" /\ a = None
    /\ kind = "network" /\ r = "peers" /\ v.error[r] = "none" => v.data[r] # None

(* What an answer says.                                                    *)
LEMMA OutcomeSays ==
    ASSUME NEW resp, Sound(resp)
    PROVE  /\ Outcome(resp) \in SUBSET {"absent", "failed"}
           /\ IsOk(resp) /\ resp.body.at \in AbsentIn => "absent" \in Outcome(resp)
           /\ ~IsOk(resp) => Outcome(resp) \cap {"absent", "failed"} # {}
           /\ resp.status = 404 => "absent" \in Outcome(resp)
  BY DEF Outcome, Sound, IsOk

(* The handler of an answer changes one resource, and ends the wait for it.*)
Changes(kind, r, v, w) ==
    /\ w \in View(kind)
    /\ w.loading = v.loading \ {r}
    /\ \A q \in Fetched(kind) \ {r} :
          w.data[q] = v.data[q] /\ w.error[q] = v.error[q]

(* A failed fetch is logged: nothing is shown that did not come.           *)
LEMMA KeptBacked ==
    ASSUME NEW kind, NEW a, NEW v \in View(kind), NEW r \in Fetched(kind),
           NEW T, Backed(kind, a, v, r, T), NEW resp, Sound(resp),
           kind # "network"
    PROVE  LET w == KeptOnFailure(v, r, resp)
           IN  /\ Changes(kind, r, v, w)
               /\ Backed(kind, a, w, r, T \cup Outcome(resp))
  <1> DEFINE u == IF IsOk(resp) THEN Receive(v, r, resp.body) ELSE v
             w == KeptOnFailure(v, r, resp)
  <1>1. resp.body \in Content \cup {None}
    BY DEF Sound
  <1>2. /\ u \in View(kind)
        /\ u.data = IF IsOk(resp) THEN [v.data EXCEPT ![r] = resp.body] ELSE v.data
        /\ u.loading = v.loading /\ u.error = v.error
    BY <1>1, ReceiveParts
  <1>3. w = Loaded(u, r)
    BY DEF KeptOnFailure
  <1> HIDE DEF u, w
  <1>4. /\ w \in View(kind) /\ w.data = u.data
        /\ w.loading = v.loading \ {r} /\ w.error = v.error
    BY <1>2, <1>3, LoadedParts
  <1>5. v.data \in [Fetched(kind) -> Content \cup {None}]
    BY ViewParts
  <1>6. Changes(kind, r, v, w)
    BY <1>2, <1>4, <1>5 DEF Changes
  <1>7. w.data[r] = IF IsOk(resp) THEN resp.body ELSE v.data[r]
    BY <1>2, <1>4, <1>5
  <1>8. None \notin Content
    BY NoneAssumption
  <1>9. Backed(kind, a, w, r, T \cup Outcome(resp))
    BY <1>4, <1>7, <1>8, OutcomeSays DEF Backed, Sound
  <1> QED
    BY <1>6, <1>9 DEF w

(* A failed fetch is marked, until one succeeds.                           *)
LEMMA MarkedBacked ==
    ASSUME NEW kind, NEW a, NEW v \in View(kind), NEW r \in Fetched(kind),
           NEW T, Backed(kind, a, v, r, T), NEW resp, Sound(resp)
    PROVE  LET w == MarkedOnFailure(v, r, resp)
           IN  /\ Changes(kind, r, v, w)
               /\ Backed(kind, a, w, r, T \cup Outcome(resp))
  <1> DEFINE got == Receive(v, r, resp.body)
             e == IF IsOk(resp) THEN "none" ELSE "failed"
             u == IF IsOk(resp) THEN Mark(got, r, "none") ELSE Mark(v, r, "failed")
             w == MarkedOnFailure(v, r, resp)
  <1>1. resp.body \in Content \cup {None}
    BY DEF Sound
  <1>2. /\ got \in View(kind) /\ got.data = [v.data EXCEPT ![r] = resp.body]
        /\ got.loading = v.loading /\ got.error = v.error
    BY <1>1, ReceiveParts
  <1> HIDE DEF got
  <1>3. /\ u \in View(kind) /\ u.loading = v.loading
        /\ u.data = IF IsOk(resp) THEN [v.data EXCEPT ![r] = resp.body] ELSE v.data
        /\ u.error = [v.error EXCEPT ![r] = e]
    <2>1. CASE IsOk(resp)
      <3>1. u = Mark(got, r, "none") /\ e = "none"
        BY <2>1
      <3> HIDE DEF u, e
      <3>2. "none" \in Marks
        BY DEF Marks
      <3>3. /\ Mark(got, r, "none") \in View(kind)
            /\ Mark(got, r, "none").data = got.data
            /\ Mark(got, r, "none").loading = got.loading
            /\ Mark(got, r, "none").error = [got.error EXCEPT ![r] = "none"]
        BY <1>2, <3>2, MarkParts
      <3> QED
        BY <1>2, <2>1, <3>1, <3>3
    <2>2. CASE ~IsOk(resp)
      <3>1. u = Mark(v, r, "failed") /\ e = "failed"
        BY <2>2
      <3> HIDE DEF u, e
      <3>2. "failed" \in Marks
        BY DEF Marks
      <3>3. /\ Mark(v, r, "failed") \in View(kind)
            /\ Mark(v, r, "failed").data = v.data
            /\ Mark(v, r, "failed").loading = v.loading
            /\ Mark(v, r, "failed").error = [v.error EXCEPT ![r] = "failed"]
        BY <3>2, MarkParts
      <3> QED
        BY <2>2, <3>1, <3>3
    <2> QED
      BY <2>1, <2>2
  <1>4. w = Loaded(u, r)
    BY DEF MarkedOnFailure, got
  <1> HIDE DEF u, w
  <1>5. /\ w \in View(kind) /\ w.data = u.data
        /\ w.loading = v.loading \ {r} /\ w.error = u.error
    BY <1>3, <1>4, LoadedParts
  <1>6. /\ v.data \in [Fetched(kind) -> Content \cup {None}]
        /\ v.error \in [Fetched(kind) -> {"none", "absent", "failed"}]
    BY ViewParts
  <1>7. /\ w.data[r] = IF IsOk(resp) THEN resp.body ELSE v.data[r]
        /\ w.error[r] = IF IsOk(resp) THEN "none" ELSE "failed"
        /\ \A q \in Fetched(kind) \ {r} :
              w.data[q] = v.data[q] /\ w.error[q] = v.error[q]
    BY <1>3, <1>5, <1>6
  <1>8. None \notin Content
    BY NoneAssumption
  <1>9. Backed(kind, a, w, r, T \cup Outcome(resp))
    BY <1>5, <1>7, <1>8, OutcomeSays DEF Backed, Sound
  <1> QED
    BY <1>5, <1>7, <1>9 DEF w, Changes

(* What is only marked: the user's own node, and what is not known.        *)
LEMMA OnlyMarkedBacked ==
    ASSUME NEW kind, NEW a, NEW v \in View(kind), NEW r \in Fetched(kind),
           NEW T, Backed(kind, a, v, r, T), NEW resp, Sound(resp),
           NEW e \in Marks,
           r = "local" \/ (resp.status = 404 /\ kind # "network"),
           e = "absent" => resp.status = 404
    PROVE  LET w == Loaded(Mark(v, r, e), r)
           IN  /\ Changes(kind, r, v, w)
               /\ Backed(kind, a, w, r, T \cup Outcome(resp))
  <1> DEFINE u == Mark(v, r, e)
             w == Loaded(u, r)
  <1>1. /\ u \in View(kind) /\ u.data = v.data /\ u.loading = v.loading
        /\ u.error = [v.error EXCEPT ![r] = e]
    <2> HIDE DEF u
    <2>1. u = Mark(v, r, e)
      BY DEF u
    <2>2. /\ Mark(v, r, e) \in View(kind)
          /\ Mark(v, r, e).data = v.data
          /\ Mark(v, r, e).loading = v.loading
          /\ Mark(v, r, e).error = [v.error EXCEPT ![r] = e]
      BY MarkParts
    <2> QED
      BY <2>1, <2>2
  <1> HIDE DEF u
  <1>2. /\ w \in View(kind) /\ w.data = v.data
        /\ w.loading = v.loading \ {r} /\ w.error = u.error
    BY <1>1, LoadedParts
  <1>3. v.error \in [Fetched(kind) -> {"none", "absent", "failed"}]
    BY ViewParts
  <1> HIDE DEF w
  <1>4. /\ w.error[r] = e
        /\ \A q \in Fetched(kind) \ {r} : w.error[q] = v.error[q]
    BY <1>1, <1>2, <1>3
  <1>5. Backed(kind, a, w, r, T \cup Outcome(resp))
    BY <1>2, <1>4, OutcomeSays DEF Backed
  <1> QED
    BY <1>2, <1>4, <1>5 DEF Changes, w, u

(* The validator page takes what it gets for the status, if it gets        *)
(* anything.                                                               *)
LEMMA ValidatorBacked ==
    ASSUME NEW a, NEW v \in View("validator"), NEW T,
           Backed("validator", a, v, "validator", T), NEW resp, Sound(resp)
    PROVE  LET w == ValidatorAfter(v, resp)
           IN  /\ Changes("validator", "validator", v, w)
               /\ Backed("validator", a, w, "validator", T \cup Outcome(resp))
  <1> DEFINE r == "validator"
             u == IF resp = Unreachable THEN v ELSE Receive(v, r, resp.body)
             w == ValidatorAfter(v, resp)
  <1>1. r \in Fetched(r) /\ resp.body \in Content \cup {None}
    BY DEF Sound, Fetched
  <1>2. /\ u \in View(r) /\ u.loading = v.loading /\ u.error = v.error
        /\ u.data = IF resp = Unreachable THEN v.data
                    ELSE [v.data EXCEPT ![r] = resp.body]
    BY <1>1, ReceiveParts
  <1>3. w = Loaded(u, r)
    BY DEF ValidatorAfter
  <1>4. resp = Unreachable => ~IsOk(resp)
    BY DEF Unreachable, Failed, IsOk
  <1> HIDE DEF u, w
  <1>5. /\ w \in View(r) /\ w.data = u.data
        /\ w.loading = v.loading \ {r} /\ w.error = v.error
    BY <1>2, <1>3, LoadedParts
  <1>6. v.data \in [Fetched(r) -> Content \cup {None}]
    BY ViewParts
  <1>7. /\ w.data[r] = IF resp = Unreachable THEN v.data[r] ELSE resp.body
        /\ \A q \in Fetched(r) \ {r} : w.data[q] = v.data[q]
    BY <1>1, <1>2, <1>5, <1>6
  <1>8. None \notin Content
    BY NoneAssumption
  <1>9. Backed(r, a, w, r, T \cup Outcome(resp))
    BY <1>4, <1>5, <1>7, <1>8, OutcomeSays DEF Backed, Sound
  <1> QED
    BY <1>5, <1>7, <1>9 DEF Changes, w

(* The handlers of the answers that are kept: they only log a failure.     *)
LEMMA KeptAfter ==
    ASSUME NEW kind \in Kinds, NEW r \in Fetched(kind), NEW v, NEW resp,
           \/ kind \in {"mempool", "peers", "explorer", "block", "history",
                        "activity", "wallet"}
           \/ kind = "dashboard" /\ r = "account"
    PROVE  After(kind, r, v, resp) = KeptOnFailure(v, r, resp)
  <1>1. CASE kind = "mempool"
    <2>1. r = "mempool"
      BY <1>1 DEF Fetched
    <2> QED
      BY <1>1, <2>1 DEF After, MempoolAfter
  <1>2. CASE kind = "peers"
    <2>1. r = "peers"
      BY <1>2 DEF Fetched
    <2> QED
      BY <1>2, <2>1 DEF After, PeersAfter
  <1>3. CASE kind = "explorer"
    <2>1. r = "blocks"
      BY <1>3 DEF Fetched
    <2> QED
      BY <1>3, <2>1 DEF After, ExplorerAfter
  <1>4. CASE kind = "block"
    <2>1. r = "block"
      BY <1>4 DEF Fetched
    <2> QED
      BY <1>4, <2>1 DEF After, BlockAfter
  <1>5. CASE kind = "history"
    <2>1. r = "history"
      BY <1>5 DEF Fetched
    <2> QED
      BY <1>5, <2>1 DEF After, AddressHistoryAfter
  <1>6. CASE kind = "activity"
    <2>1. r = "history"
      BY <1>6 DEF Fetched
    <2> QED
      BY <1>6, <2>1 DEF After, ActivityAfter
  <1>7. CASE kind = "wallet"
    <2>1. r = "account"
      BY <1>7 DEF Fetched
    <2> QED
      BY <1>7, <2>1 DEF After, WalletAfter
  <1>8. CASE kind = "dashboard" /\ r = "account"
    BY <1>8 DEF After, DashboardBalanceAfter
  <1> QED
    BY <1>1, <1>2, <1>3, <1>4, <1>5, <1>6, <1>7, <1>8

(* The handlers that mark a failure.                                       *)
LEMMA MarkedAfter ==
    ASSUME NEW kind \in Kinds, NEW r \in Fetched(kind), NEW v, NEW resp,
           \/ kind = "network" /\ r = "peers"
           \/ kind = "dashboard" /\ r = "stats"
           \/ kind \in {"sidebar", "navbar"}
           \/ kind \in {"transaction", "address"} /\ resp.status # 404
    PROVE  After(kind, r, v, resp) = MarkedOnFailure(v, r, resp)
  <1>1. CASE kind = "network" /\ r = "peers"
    BY <1>1 DEF After, NetworkPeersAfter
  <1>2. CASE kind = "dashboard" /\ r = "stats"
    BY <1>2 DEF After, DashboardStatsAfter
  <1>3. CASE kind = "sidebar"
    <2>1. r = "stats"
      BY <1>3 DEF Fetched
    <2> QED
      BY <1>3, <2>1 DEF After, SidebarAfter
  <1>4. CASE kind = "navbar"
    <2>1. r = "stats"
      BY <1>4 DEF Fetched
    <2> QED
      BY <1>4, <2>1 DEF After, NavbarAfter
  <1>5. CASE kind = "transaction" /\ resp.status # 404
    <2>1. r = "transaction"
      BY <1>5 DEF Fetched
    <2> QED
      BY <1>5, <2>1 DEF After, TransactionAfter
  <1>6. CASE kind = "address" /\ resp.status # 404
    <2>1. r = "account"
      BY <1>6 DEF Fetched
    <2> QED
      BY <1>6, <2>1 DEF After, AddressAfter
  <1> QED
    BY <1>1, <1>2, <1>3, <1>4, <1>5, <1>6

(* Every screen shows only what it was told, after any answer.             *)
LEMMA AfterBacked ==
    ASSUME NEW kind \in Kinds, NEW a, NEW v \in View(kind),
           NEW r \in Fetched(kind), NEW T, Backed(kind, a, v, r, T),
           NEW resp, Sound(resp)
    PROVE  /\ Changes(kind, r, v, After(kind, r, v, resp))
           /\ Backed(kind, a, After(kind, r, v, resp), r, T \cup Outcome(resp))
  <1>1. CASE \/ kind \in {"mempool", "peers", "explorer", "block", "history",
                          "activity", "wallet"}
             \/ kind = "dashboard" /\ r = "account"
    <2>1. After(kind, r, v, resp) = KeptOnFailure(v, r, resp)
      BY <1>1, KeptAfter
    <2>2. kind # "network"
      BY <1>1
    <2> QED
      BY <2>1, <2>2, KeptBacked
  <1>2. CASE \/ kind = "network" /\ r = "peers"
             \/ kind = "dashboard" /\ r = "stats"
             \/ kind \in {"sidebar", "navbar"}
             \/ kind \in {"transaction", "address"} /\ resp.status # 404
    <2>1. After(kind, r, v, resp) = MarkedOnFailure(v, r, resp)
      BY <1>2, MarkedAfter
    <2> QED
      BY <2>1, MarkedBacked
  <1>3. CASE kind \in {"transaction", "address"} /\ resp.status = 404
    <2>1. After(kind, r, v, resp) = Loaded(Mark(v, r, "absent"), r)
      <3>1. ~IsOk(resp)
        BY <1>3 DEF IsOk
      <3>2. CASE kind = "transaction"
        <4>1. r = "transaction"
          BY <3>2 DEF Fetched
        <4> QED
          BY <1>3, <3>1, <3>2, <4>1 DEF After, TransactionAfter
      <3>3. CASE kind = "address"
        <4>1. r = "account"
          BY <3>3 DEF Fetched
        <4> QED
          BY <1>3, <3>1, <3>3, <4>1 DEF After, AddressAfter
      <3> QED
        BY <1>3, <3>2, <3>3
    <2>2. "absent" \in Marks /\ kind # "network"
      BY <1>3 DEF Marks
    <2> QED
      BY <1>3, <2>1, <2>2, OnlyMarkedBacked
  <1>4. CASE kind = "network" /\ r = "local"
    <2>1. PICK e \in Marks : /\ e # "absent"
                             /\ After(kind, r, v, resp) = Loaded(Mark(v, r, e), r)
      <3>1. After(kind, r, v, resp)
              = Loaded(Mark(v, r, IF IsOk(resp) THEN "none" ELSE "failed"), r)
        BY <1>4 DEF After, LocalNodeAfter
      <3> QED
        BY <3>1 DEF Marks
    <2> QED
      BY <1>4, <2>1, OnlyMarkedBacked
  <1>5. CASE kind = "validator"
    <2>1. r = "validator"
      BY <1>5 DEF Fetched
    <2>2. After(kind, r, v, resp) = ValidatorAfter(v, resp)
      BY <1>5, <2>1 DEF After
    <2> QED
      BY <1>5, <2>1, <2>2, ValidatorBacked
  <1>6. kind = "network" => r \in {"peers", "local"}
    BY DEF Fetched
  <1>7. kind = "dashboard" => r \in {"stats", "account"}
    BY DEF Fetched
  <1>8. kind # "contact"
    BY DEF Fetched
  <1> QED
    BY <1>1, <1>2, <1>3, <1>4, <1>5, <1>6, <1>7, <1>8 DEF Kinds

-----------------------------------------------------------------------------
(* What a page may get. *)

(* A failure carries no content.                                           *)
LEMMA FailedSound ==
    ASSUME NEW code \in Codes \ {200}
    PROVE  Sound(Failed(code))
  BY DEF Sound, Failed, IsOk, Response

(* Nor does the failure that a route makes of an unreachable node.         *)
LEMMA RelaySound ==
    ASSUME NEW answer, Sound(answer)
    PROVE  Sound(Relay(answer))
  <1>1. 500 \in Codes \ {200}
    BY DEF Codes
  <1> QED
    BY <1>1, FailedSound DEF Relay

(* Every route hands on what is sound as something sound.                  *)
LEMMA RouteSound ==
    ASSUME NEW r \in Resources, NEW answer, Sound(answer)
    PROVE  Sound(Route(r, answer))
  <1>1. r \in {"stats", "peers", "mempool", "blocks", "block", "transaction",
               "account", "history", "validator", "local"}
    <2>1. PICK k \in Kinds : r \in Fetched(k)
      BY DEF Resources
    <2> QED
      BY <2>1 DEF Kinds, Fetched
  <1>2. Route(r, answer) \in {Relay(answer), answer}
    BY <1>1 DEF Route, StatsRoute, PeersRoute, MempoolRoute, BlocksRoute,
       BlockRoute, TransactionRoute, AccountRoute, HistoryRoute, ValidatorRoute
  <1> QED
    BY <1>2, RelaySound

(* Whatever the node, its routes and the network do, the answer that a page*)
(* gets is sound: content with a 200, nothing with anything else.          *)
LEMMA AnswersSound ==
    ASSUME world.version \in Versions, screen.wellFormed \in BOOLEAN,
           NEW r \in Resources, NEW a \in Addresses \cup {None},
           NEW resp \in Answers(r, a)
    PROVE  Sound(resp)
  <1> USE NoneAssumption
  <1>1. Sound(Unreachable) /\ Sound(NodeFailure)
    BY FailedSound DEF Unreachable, NodeFailure, Codes
  <1>2. \A w \in BOOLEAN : Sound(NodeAnswer(r, a, world.version, w))
    <2> TAKE w \in BOOLEAN
    <2>1. CASE NodeAnswer(r, a, world.version, w) = Failed(404)
      <3>1. 404 \in Codes \ {200}
        BY DEF Codes
      <3> QED
        BY <2>1, <3>1, FailedSound
    <2>2. CASE NodeAnswer(r, a, world.version, w)
                 = Ok([of |-> a, at |-> world.version])
      <3>1. [of |-> a, at |-> world.version] \in Content
        BY DEF Content
      <3> DEFINE c == [of |-> a, at |-> world.version]
      <3> HIDE DEF c
      <3>2. Sound(Ok(c))
        BY <3>1 DEF c, Sound, Ok, IsOk, Response, Codes
      <3> QED
        BY <2>2, <3>2 DEF c
    <2> QED
      BY <2>1, <2>2 DEF NodeAnswer
  <1> QED
    BY <1>1, <1>2, RouteSound DEF Answers

-----------------------------------------------------------------------------
(* The requests of a page. *)

(* For each resource its requests that are under way.                      *)
CallsOf(kind) == [Fetched(kind) -> [1..Lanes[kind] -> Call \cup {None}]]

(* No answer that is on its way is unsound.                                *)
SoundCalls(c) ==
    \A r \in DOMAIN c : \A s \in DOMAIN c[r] :
        c[r][s] # None /\ c[r][s].resp # None => Sound(c[r][s].resp)

(* Changing one request keeps the rest.                                    *)
LEMMA CallChanged ==
    ASSUME NEW kind, NEW c \in CallsOf(kind), SoundCalls(c),
           NEW r \in Fetched(kind), NEW s \in 1..Lanes[kind],
           NEW m \in Call \cup {None},
           m # None /\ m.resp # None => Sound(m.resp)
    PROVE  LET d == [c EXCEPT ![r][s] = m]
           IN  d \in CallsOf(kind) /\ SoundCalls(d)
  <1> DEFINE row == [c[r] EXCEPT ![s] = m]
             d == [c EXCEPT ![r] = row]
  <1>1. c[r] \in [1..Lanes[kind] -> Call \cup {None}]
    BY DEF CallsOf
  <1>2. row \in [1..Lanes[kind] -> Call \cup {None}]
    BY <1>1
  <1>3. \A t \in DOMAIN row : row[t] # None /\ row[t].resp # None => Sound(row[t].resp)
    <2> TAKE t \in DOMAIN row
    <2>1. CASE t = s
      <3>1. row[t] = m
        BY <1>1, <2>1
      <3> QED
        BY <3>1
    <2>2. CASE t # s
      <3>1. row[t] = c[r][t] /\ t \in DOMAIN c[r]
        BY <1>1, <2>2
      <3>2. r \in DOMAIN c
        BY DEF CallsOf
      <3> QED
        BY <3>1, <3>2 DEF SoundCalls
    <2> QED
      BY <2>1, <2>2
  <1> HIDE DEF row
  <1>4. d \in CallsOf(kind)
    BY <1>2 DEF CallsOf
  <1>5. SoundCalls(d)
    <2>1. DOMAIN d = Fetched(kind) /\ DOMAIN c = Fetched(kind)
      BY DEF CallsOf
    <2>2. \A q \in Fetched(kind) : d[q] = IF q = r THEN row ELSE c[q]
      BY DEF CallsOf
    <2> HIDE DEF d
    <2> QED
      BY <1>3, <2>1, <2>2 DEF SoundCalls
  <1>6. d = [c EXCEPT ![r][s] = m]
    BY DEF row
  <1> QED
    BY <1>4, <1>5, <1>6

(* A new request has no answer yet.                                        *)
LEMMA SentSound ==
    ASSUME NEW kind, NEW c \in CallsOf(kind), SoundCalls(c),
           NEW r \in Fetched(kind), NEW a \in Addresses \cup {None},
           Free(c, r) # {}
    PROVE  Sent(c, r, a) \in CallsOf(kind) /\ SoundCalls(Sent(c, r, a))
  <1> DEFINE s == CHOOSE t \in Free(c, r) : TRUE
             m == [of |-> a, resp |-> None]
  <1>1. s \in Free(c, r)
    OBVIOUS
  <1>2. s \in 1..Lanes[kind]
    BY <1>1 DEF Free, CallsOf
  <1>3. m \in Call /\ m.resp = None
    BY DEF Call
  <1>4. Sent(c, r, a) = [c EXCEPT ![r][s] = m]
    BY DEF Sent
  <1> HIDE DEF s, m
  <1>5. LET d == [c EXCEPT ![r][s] = m] IN d \in CallsOf(kind) /\ SoundCalls(d)
    BY <1>2, <1>3, CallChanged
  <1> QED
    BY <1>4, <1>5

(* d: the requests c after one more for each resource in R.                *)
SendsAll(kind, c, R, a, d) ==
    /\ d = [r \in Fetched(kind) |-> d[r]]
    /\ \A r \in Fetched(kind) :
          /\ d[r] = IF r \in R THEN Sent(c, r, a)[r] ELSE c[r]
          /\ r \in R => Free(c, r) # {}

(* Nor have several.                                                       *)
LEMMA AllSentSound ==
    ASSUME NEW kind, NEW c \in CallsOf(kind), SoundCalls(c),
           NEW R, NEW a \in Addresses \cup {None},
           NEW d, SendsAll(kind, c, R, a, d)
    PROVE  d \in CallsOf(kind) /\ SoundCalls(d)
  <1>1. \A r \in Fetched(kind) :
           /\ d[r] \in [1..Lanes[kind] -> Call \cup {None}]
           /\ \A s \in DOMAIN d[r] :
                 d[r][s] # None /\ d[r][s].resp # None => Sound(d[r][s].resp)
    <2> TAKE r \in Fetched(kind)
    <2> DEFINE e == IF r \in R THEN Sent(c, r, a) ELSE c
    <2>1. e \in CallsOf(kind) /\ SoundCalls(e)
      BY SentSound DEF SendsAll
    <2>2. d[r] = e[r]
      BY DEF SendsAll
    <2> HIDE DEF e
    <2>3. e[r] \in [1..Lanes[kind] -> Call \cup {None}] /\ r \in DOMAIN e
      BY <2>1 DEF CallsOf
    <2> QED
      BY <2>1, <2>2, <2>3 DEF SoundCalls
  <1>2. d \in CallsOf(kind)
    BY <1>1 DEF CallsOf, SendsAll
  <1>3. DOMAIN d = Fetched(kind)
    BY <1>2 DEF CallsOf
  <1> QED
    BY <1>1, <1>2, <1>3 DEF SoundCalls

-----------------------------------------------------------------------------
(* The invariant. *)

(* The history is one of this screen.                                      *)
ToldOK ==
    /\ told = [answers |-> told.answers, effect |-> told.effect]
    /\ told.answers \in [Fetched(screen.kind) -> SUBSET {"absent", "failed"}]
    /\ told.effect \in BOOLEAN

(* The form has a request only while it waits.                             *)
PostOK ==
    /\ post = [shown |-> post.shown, call |-> post.call]
    /\ post.call \in PostCall \cup {None}

(* What is shown is what was told, resource by resource.                   *)
AllBacked ==
    \A r \in Fetched(screen.kind) :
        Backed(screen.kind, wallet, view, r, told.answers[r])

(* A success that is shown, or on its way, is one.                         *)
Effective ==
    /\ SuccessIsTrue
    /\ post.call # None /\ post.call.resp # None /\ IsOk(post.call.resp) =>
          told.effect

(* The inductive invariant.                                                *)
PagesInv ==
    /\ TypeOK
    /\ SoundCalls(calls)
    /\ ToldOK
    /\ PostOK
    /\ AllBacked
    /\ Effective

(* What an answer says is remembered of its resource.                      *)
LEMMA HeardParts ==
    ASSUME NEW kind, NEW h,
           h = [answers |-> h.answers, effect |-> h.effect],
           h.answers \in [Fetched(kind) -> SUBSET {"absent", "failed"}],
           h.effect \in BOOLEAN,
           NEW r \in Fetched(kind), NEW resp, Sound(resp)
    PROVE  LET k == Heard(h, r, resp)
           IN  /\ k = [answers |-> k.answers, effect |-> k.effect]
               /\ k.answers \in [Fetched(kind) -> SUBSET {"absent", "failed"}]
               /\ k.effect = h.effect
               /\ k.answers = [h.answers EXCEPT ![r] = h.answers[r] \cup Outcome(resp)]
  <1> DEFINE m == [h.answers EXCEPT ![r] = h.answers[r] \cup Outcome(resp)]
             k == Heard(h, r, resp)
  <1>1. m \in [Fetched(kind) -> SUBSET {"absent", "failed"}]
    <2>1. Outcome(resp) \in SUBSET {"absent", "failed"}
      BY OutcomeSays
    <2>2. h.answers[r] \cup Outcome(resp) \in SUBSET {"absent", "failed"}
      BY <2>1
    <2> QED
      BY <2>2
  <1>2. k = [h EXCEPT !.answers = m]
    BY DEF Heard
  <1> HIDE DEF m
  <1>3. k = [answers |-> m, effect |-> h.effect]
    BY <1>2
  <1> HIDE DEF k
  <1> QED
    BY <1>1, <1>3 DEF k, m

(* A fresh screen says nothing that it was not told.                       *)
LEMMA InitPages == Init => PagesInv
  <1> SUFFICES ASSUME Init PROVE PagesInv
    OBVIOUS
  <1> DEFINE kind == screen.kind
             start == IF kind = "validator" /\ wallet = None THEN {}
                      ELSE NewView(kind).loading
             fresh == [NewView(kind) EXCEPT !.loading = start]
             nothing == NothingTold(kind)
             asker == IF kind \in OfAddress THEN screen.of ELSE wallet
  <1>1. screen \in Screen /\ kind \in Kinds /\ wallet \in Addresses \cup {None}
    BY DEF Init, Screen
  <1>2. world \in [version : Versions, up : [Nodes -> BOOLEAN],
                   outages : 0..MaxOutages]
    <2>1. 0 \in Versions /\ 0 \in 0..MaxOutages
      BY RoutesAssumption, PagesAssumption
    <2> QED
      BY <2>1 DEF Init
  <1>3. /\ fresh \in View(kind)
        /\ fresh.data = [r \in Fetched(kind) |-> None]
        /\ fresh.loading = start
        /\ fresh.error = NewView(kind).error
    <2> DEFINE data == [r \in Fetched(kind) |-> None]
               error == [r \in Fetched(kind) |->
                            IF kind \in {"network", "sidebar", "navbar"}
                            THEN "failed" ELSE "none"]
    <2>1. data \in [Fetched(kind) -> Content \cup {None}]
      OBVIOUS
    <2>2. error \in [Fetched(kind) -> {"none", "absent", "failed"}]
      OBVIOUS
    <2>3. NewView(kind) = [data |-> data, loading |-> NewView(kind).loading,
                           error |-> error]
      BY DEF NewView
    <2>4. start \in SUBSET Fetched(kind)
      BY DEF NewView
    <2>5. error = NewView(kind).error
      BY <2>3
    <2> HIDE DEF data, error, start
    <2>6. fresh = [data |-> data, loading |-> start, error |-> error]
      BY <2>3
    <2> HIDE DEF fresh
    <2>7. fresh \in View(kind)
      BY <2>1, <2>2, <2>4, <2>6, ViewType
    <2> QED
      BY <2>5, <2>6, <2>7 DEF data
  <1>4. /\ nothing = [answers |-> nothing.answers, effect |-> nothing.effect]
        /\ nothing.answers = [r \in Fetched(kind) |-> {}]
        /\ nothing.answers \in [Fetched(kind) -> SUBSET {"absent", "failed"}]
        /\ nothing.effect = FALSE
    BY DEF NothingTold
  <1>5. calls \in CallsOf(kind) /\ SoundCalls(calls)
    <2>1. asker \in Addresses \cup {None}
      BY <1>1 DEF Screen
    <2> HIDE DEF asker
    <2>2. calls = FirstCalls(kind, asker)
      BY DEF Init, asker
    <2>3. \A r \in Fetched(kind), s \in 1..Lanes[kind] :
             calls[r][s] \in Call \cup {None}
             /\ (calls[r][s] # None => calls[r][s].resp = None)
      BY <2>1, <2>2 DEF FirstCalls, Call
    <2>4. calls = [r \in Fetched(kind) |-> [s \in 1..Lanes[kind] |-> calls[r][s]]]
      BY <2>2 DEF FirstCalls
    <2>5. calls \in CallsOf(kind)
      BY <2>3, <2>4 DEF CallsOf
    <2>6. \A r \in DOMAIN calls : \A s \in DOMAIN calls[r] :
             r \in Fetched(kind) /\ s \in 1..Lanes[kind]
      BY <2>5 DEF CallsOf
    <2> QED
      BY <2>3, <2>5, <2>6 DEF SoundCalls
  <1>6. /\ post = [shown |-> "idle", call |-> None]
        /\ PostOK /\ post.shown = "idle" /\ post.call = None
    BY DEF Init, NoPost, PostOK
  <1> HIDE DEF fresh, nothing, start
  <1>7. /\ view \in View(kind)
        /\ ToldOK
        /\ told.effect = FALSE
        /\ AllBacked
    <2>1. CASE kind = "explorer"
      <3>1. PICK resp \in Answers("blocks", None) :
               view = ServerRendered(fresh, resp) /\ told = Heard(nothing, "blocks", resp)
        BY <2>1 DEF Init, fresh, nothing, start
      <3>2. "blocks" \in Fetched(kind) /\ Fetched(kind) = {"blocks"}
        BY <2>1 DEF Fetched
      <3>3. Sound(resp)
        <4>1. "blocks" \in Resources
          BY <1>1, <3>2 DEF Resources
        <4>2. world.version \in Versions /\ screen.wellFormed \in BOOLEAN
          BY <1>1, <1>2 DEF Screen
        <4> QED
          BY <4>1, <4>2, AnswersSound
      <3>4. /\ told = [answers |-> told.answers, effect |-> told.effect]
            /\ told.answers \in [Fetched(kind) -> SUBSET {"absent", "failed"}]
            /\ told.effect = nothing.effect
            /\ told.answers = [nothing.answers EXCEPT
                                  !["blocks"] = nothing.answers["blocks"] \cup Outcome(resp)]
        <4>1. nothing.effect \in BOOLEAN /\ told = Heard(nothing, "blocks", resp)
          BY <1>4, <3>1
        <4> DEFINE k == Heard(nothing, "blocks", resp)
        <4>2. /\ k = [answers |-> k.answers, effect |-> k.effect]
              /\ k.answers \in [Fetched(kind) -> SUBSET {"absent", "failed"}]
              /\ k.effect = nothing.effect
              /\ k.answers = [nothing.answers EXCEPT
                                !["blocks"] = nothing.answers["blocks"] \cup Outcome(resp)]
          BY <1>4, <4>1, <3>2, <3>3, HeardParts
        <4> QED
          BY <4>1, <4>2
      <3>5. told.answers["blocks"] = Outcome(resp)
        BY <1>4, <3>2, <3>4
      <3>6. resp.body \in Content \cup {None}
        BY <3>3 DEF Sound
      <3>7. /\ view \in View(kind)
            /\ view.error = fresh.error /\ view.loading = fresh.loading
            /\ view.data = IF IsOk(resp) THEN [fresh.data EXCEPT !["blocks"] = resp.body]
                           ELSE fresh.data
        BY <1>3, <3>1, <3>2, <3>6, ReceiveParts DEF ServerRendered
      <3>8. view.data["blocks"] = IF IsOk(resp) THEN resp.body ELSE None
        BY <1>3, <3>2, <3>7
      <3>9. view.error["blocks"] = "none"
        BY <1>3, <2>1, <3>2, <3>7 DEF NewView
      <3>10. None \notin Content
        BY NoneAssumption
      <3>11. Backed(kind, wallet, view, "blocks", told.answers["blocks"])
        BY <2>1, <3>3, <3>5, <3>8, <3>9, <3>10, OutcomeSays DEF Backed, Sound
      <3> QED
        BY <1>4, <3>2, <3>4, <3>7, <3>11 DEF ToldOK, AllBacked
    <2>2. CASE kind # "explorer"
      <3>1. view = fresh /\ told = nothing
        BY <2>2 DEF Init, fresh, nothing, start
      <3>2. ToldOK
        BY <1>4, <3>1 DEF ToldOK
      <3>3. ASSUME NEW r \in Fetched(kind)
            PROVE  Backed(kind, wallet, view, r, told.answers[r])
        <4>1. view.data[r] = None
          BY <1>3, <3>1
        <4>2. view.error[r] = IF kind \in {"network", "sidebar", "navbar"}
                              THEN "failed" ELSE "none"
          BY <1>3, <3>1 DEF NewView
        <4>3. \/ r \in view.loading
              \/ kind \in {"sidebar", "navbar"}
              \/ kind = "validator" /\ wallet = None
          BY <1>3, <2>2, <3>1 DEF start, NewView
        <4> QED
          BY <4>1, <4>2, <4>3 DEF Backed
      <3> QED
        BY <1>3, <1>4, <3>1, <3>2, <3>3 DEF AllBacked
    <2> QED
      BY <2>1, <2>2
  <1>8. TypeOK
    BY <1>1, <1>2, <1>5, <1>6, <1>7 DEF TypeOK, CallsOf
  <1>9. Effective
    BY <1>6 DEF Effective, SuccessIsTrue
  <1> QED
    BY <1>5, <1>6, <1>7, <1>8, <1>9 DEF PagesInv

-----------------------------------------------------------------------------
(* The steps. *)

(* The wallet comes, or goes from the wallet page: what the validator page *)
(* said without one it no longer says, for it waits again.                 *)
LEMMA SetWalletStep ==
    ASSUME PagesInv, NEW a \in Addresses \cup {None}, SetWallet(a)
    PROVE  PagesInv'
  <1> DEFINE kind == screen.kind
  <1>1. /\ screen' = screen /\ world' = world /\ post' = post /\ told' = told
        /\ wallet' = a
        /\ view' = [view EXCEPT !.loading = @ \cup (Rerun(a) \cap {"validator"})]
    BY DEF SetWallet
  <1>2. calls \in CallsOf(kind) /\ SoundCalls(calls) /\ view \in View(kind)
    BY DEF PagesInv, TypeOK, CallsOf
  <1>3. calls' \in CallsOf(kind) /\ SoundCalls(calls')
    <2>1. \A r \in Fetched(kind) : r \in Rerun(a) => Free(calls, r) # {}
      BY DEF SetWallet
    <2>2. calls' = [r \in DOMAIN calls |->
                       IF r \in Rerun(a) THEN Sent(calls, r, a)[r] ELSE calls[r]]
      BY DEF SetWallet
    <2>3. DOMAIN calls = Fetched(kind)
      BY <1>2 DEF CallsOf
    <2>4. calls' = [r \in Fetched(kind) |-> calls'[r]]
      BY <2>2, <2>3
    <2>5. \A r \in Fetched(kind) :
             calls'[r] = IF r \in Rerun(a) THEN Sent(calls, r, a)[r] ELSE calls[r]
      BY <2>2, <2>3
    <2>6. SendsAll(kind, calls, Rerun(a), a, calls')
      BY <2>1, <2>4, <2>5 DEF SendsAll
    <2> QED
      BY <1>2, <2>6, AllSentSound
  <1>4. /\ view' \in View(kind)
        /\ view'.data = view.data /\ view'.error = view.error
        /\ view'.loading = view.loading \cup (Rerun(a) \cap {"validator"})
    <2> DEFINE more == view.loading \cup (Rerun(a) \cap {"validator"})
    <2>1. more \in SUBSET Fetched(kind)
      BY <1>2, ViewParts DEF Rerun
    <2>2. view' = [view EXCEPT !.loading = more]
      BY <1>1
    <2> HIDE DEF more
    <2>3. view' = [data |-> view.data, loading |-> more, error |-> view.error]
      BY <1>2, <2>2, ViewParts
    <2>4. view' \in View(kind)
      BY <1>2, <2>1, <2>3, ViewParts, ViewType
    <2> QED
      BY <2>3, <2>4 DEF more
  <1>5. kind = "validator" => "validator" \in view'.loading
    <2> SUFFICES ASSUME kind = "validator" PROVE "validator" \in view'.loading
      OBVIOUS
    <2>1. a # None
      BY DEF SetWallet
    <2> QED
      BY <1>4, <2>1 DEF Rerun, Fetched, OfWallet
  <1>6. AllBacked'
    <2> SUFFICES ASSUME NEW r \in Fetched(kind)
                 PROVE  Backed(kind, wallet', view', r, told.answers[r])
      BY <1>1 DEF AllBacked
    <2>1. Backed(kind, wallet, view, r, told.answers[r])
      BY DEF PagesInv, AllBacked
    <2>2. kind = "validator" => r = "validator"
      BY DEF Fetched
    <2> QED
      BY <1>4, <1>5, <2>1, <2>2 DEF Backed
  <1>7. TypeOK'
    BY <1>1, <1>3, <1>4 DEF PagesInv, TypeOK, CallsOf
  <1> QED
    BY <1>1, <1>3, <1>6, <1>7
       DEF PagesInv, ToldOK, PostOK, Effective, SuccessIsTrue

(* A request and an answer on its way change nothing on the screen.        *)
LEMMA CallsStep ==
    ASSUME PagesInv, calls' \in CallsOf(screen.kind), SoundCalls(calls'),
           UNCHANGED <<world, wallet, screen, view, post, told>>
    PROVE  PagesInv'
  BY DEF PagesInv, TypeOK, CallsOf, ToldOK, PostOK, AllBacked, Effective,
         SuccessIsTrue

(* An interval fires: the new request has no answer.                       *)
LEMMA PollStep ==
    ASSUME PagesInv, NEW r \in Resources, Poll(r)
    PROVE  PagesInv'
  <1>1. calls \in CallsOf(screen.kind) /\ SoundCalls(calls)
    BY DEF PagesInv, TypeOK, CallsOf
  <1>2. r \in Fetched(screen.kind)
    BY DEF Poll, Polled
  <1>3. Asked(r) \in Addresses \cup {None}
    BY DEF PagesInv, TypeOK, Screen, Asked
  <1>4. calls' = Sent(calls, r, Asked(r)) /\ Free(calls, r) # {}
    BY DEF Poll
  <1>5. calls' \in CallsOf(screen.kind) /\ SoundCalls(calls')
    BY <1>1, <1>2, <1>3, <1>4, SentSound
  <1> QED
    BY <1>5, CallsStep DEF Poll

(* The node, or its absence, answers a request with something sound.       *)
LEMMA AnswerStep ==
    ASSUME PagesInv, NEW r \in Resources, NEW s \in Slots, Answer(r, s)
    PROVE  PagesInv'
  <1> DEFINE kind == screen.kind
  <1>1. calls \in CallsOf(kind) /\ SoundCalls(calls)
    BY DEF PagesInv, TypeOK, CallsOf
  <1>2. r \in Fetched(kind) /\ s \in 1..Lanes[kind]
    BY <1>1 DEF Answer, CallsOf
  <1>3. calls[r][s] \in Call
    BY <1>1, <1>2 DEF Answer, CallsOf
  <1>4. PICK resp \in Answers(r, calls[r][s].of) : calls' = [calls EXCEPT ![r][s].resp = resp]
    BY DEF Answer
  <1>5. Sound(resp)
    <2>1. /\ world.version \in Versions /\ screen.wellFormed \in BOOLEAN
          /\ calls[r][s].of \in Addresses \cup {None}
      BY <1>3 DEF PagesInv, TypeOK, Screen, Call
    <2> QED
      BY <2>1, AnswersSound
  <1> DEFINE m == [calls[r][s] EXCEPT !.resp = resp]
  <1>6. m \in Call \cup {None} /\ m.resp = resp
    BY <1>3, <1>5 DEF Call, Sound
  <1>7. calls' = [calls EXCEPT ![r][s] = m]
    BY <1>4
  <1> HIDE DEF m
  <1>8. LET d == [calls EXCEPT ![r][s] = m] IN d \in CallsOf(kind) /\ SoundCalls(d)
    BY <1>1, <1>2, <1>5, <1>6, CallChanged
  <1> QED
    BY <1>7, <1>8, CallsStep DEF Answer

(* An answer changes what is shown of its resource, as AfterBacked has it. *)
LEMMA DeliverStep ==
    ASSUME PagesInv, NEW r \in Resources, NEW s \in Slots, Deliver(r, s)
    PROVE  PagesInv'
  <1> DEFINE kind == screen.kind
             resp == calls[r][s].resp
  <1>1. /\ calls \in CallsOf(kind) /\ SoundCalls(calls) /\ view \in View(kind)
        /\ kind \in Kinds
    BY DEF PagesInv, TypeOK, CallsOf, Screen
  <1>2. r \in Fetched(kind) /\ s \in 1..Lanes[kind]
    BY <1>1 DEF Deliver, CallsOf
  <1>3. Sound(resp)
    <2>1. r \in DOMAIN calls /\ s \in DOMAIN calls[r] /\ calls[r][s] # None /\ resp # None
      BY DEF Deliver
    <2> QED
      BY <1>1, <2>1 DEF SoundCalls
  <1>4. /\ screen' = screen /\ world' = world /\ wallet' = wallet /\ post' = post
        /\ view' = After(kind, r, view, resp)
        /\ told' = Heard(told, r, resp)
        /\ calls' = [calls EXCEPT ![r][s] = None]
    BY DEF Deliver
  <1> HIDE DEF resp
  <1>5. calls' \in CallsOf(kind) /\ SoundCalls(calls')
    <2>1. LET d == [calls EXCEPT ![r][s] = None] IN d \in CallsOf(kind) /\ SoundCalls(d)
      BY <1>1, <1>2, CallChanged
    <2> QED
      BY <1>4, <2>1
  <1>6. /\ told' = [answers |-> told'.answers, effect |-> told'.effect]
        /\ told'.answers \in [Fetched(kind) -> SUBSET {"absent", "failed"}]
        /\ told'.effect = told.effect
        /\ told'.answers = [told.answers EXCEPT ![r] = told.answers[r] \cup Outcome(resp)]
    <2> DEFINE k == Heard(told, r, resp)
    <2>1. /\ told = [answers |-> told.answers, effect |-> told.effect]
          /\ told.answers \in [Fetched(kind) -> SUBSET {"absent", "failed"}]
          /\ told.effect \in BOOLEAN
      BY DEF PagesInv, ToldOK
    <2>2. /\ k = [answers |-> k.answers, effect |-> k.effect]
          /\ k.answers \in [Fetched(kind) -> SUBSET {"absent", "failed"}]
          /\ k.effect = told.effect
          /\ k.answers = [told.answers EXCEPT ![r] = told.answers[r] \cup Outcome(resp)]
      BY <1>2, <1>3, <2>1, HeardParts
    <2> QED
      BY <1>4, <2>2
  <1>7. \A q \in Fetched(kind) :
           told'.answers[q] = IF q = r THEN told.answers[q] \cup Outcome(resp)
                              ELSE told.answers[q]
    BY <1>6 DEF PagesInv, ToldOK
  <1>8. /\ Changes(kind, r, view, view')
        /\ Backed(kind, wallet, view', r, told.answers[r] \cup Outcome(resp))
    <2>1. Backed(kind, wallet, view, r, told.answers[r])
      BY <1>2 DEF PagesInv, AllBacked
    <2> QED
      BY <1>1, <1>2, <1>3, <1>4, <2>1, AfterBacked
  <1>9. AllBacked'
    <2> SUFFICES ASSUME NEW q \in Fetched(kind)
                 PROVE  Backed(kind, wallet, view', q, told'.answers[q])
      BY <1>4 DEF AllBacked
    <2>1. CASE q = r
      <3>1. told'.answers[r] = told.answers[r] \cup Outcome(resp)
        BY <1>2, <1>7
      <3> QED
        BY <1>8, <2>1, <3>1
    <2>2. CASE q # r
      <3>1. Backed(kind, wallet, view, q, told.answers[q])
        BY DEF PagesInv, AllBacked
      <3>2. told'.answers[q] = told.answers[q]
        BY <1>7, <2>2
      <3>3. /\ view'.loading = view.loading \ {r}
            /\ view'.data[q] = view.data[q] /\ view'.error[q] = view.error[q]
        BY <1>8, <2>2 DEF Changes
      <3> QED
        BY <2>2, <3>1, <3>2, <3>3 DEF Backed
    <2> QED
      BY <2>1, <2>2
  <1>10. TypeOK'
    BY <1>4, <1>5, <1>8 DEF PagesInv, TypeOK, CallsOf, Changes
  <1>11. told'.effect \in BOOLEAN
    BY <1>6 DEF PagesInv, ToldOK
  <1> QED
    BY <1>4, <1>5, <1>6, <1>9, <1>10, <1>11
       DEF PagesInv, ToldOK, PostOK, Effective, SuccessIsTrue

(* Pressing the button takes the last success from the screen.             *)
LEMMA PressStep ==
    ASSUME PagesInv, NEW p, NEW filled \in BOOLEAN, Press(p, filled)
    PROVE  PagesInv'
  <1> DEFINE m == [filled |-> filled, resp |-> None]
  <1>1. m \in PostCall /\ m.resp = None /\ m # None
    BY NoneAssumption DEF PostCall
  <1>2. post' = [shown |-> "busy", call |-> m]
    BY DEF Press
  <1> HIDE DEF m
  <1>3. PostOK' /\ post'.shown = "busy" /\ post'.call = m
    BY <1>1, <1>2 DEF PostOK
  <1>4. /\ ToldOK' /\ told'.answers = told.answers
        /\ UNCHANGED <<world, wallet, screen, view, calls>>
    BY DEF Press, PagesInv, ToldOK
  <1>5. TypeOK' /\ AllBacked' /\ SoundCalls(calls')
    BY <1>1, <1>3, <1>4 DEF PagesInv, TypeOK, AllBacked
  <1>6. Effective'
    BY <1>1, <1>3 DEF Effective, SuccessIsTrue
  <1> QED
    BY <1>3, <1>4, <1>5, <1>6 DEF PagesInv

(* What a form gets is a success only when what it asked for was done.     *)
LEMMA PostRouteHonest ==
    ASSUME NEW p \in {"faucet", "register", "contact"}, NEW filled \in BOOLEAN,
           NEW answer \in {Ok(None), Failed(400), Unreachable, NodeFailure}
    PROVE  /\ PostRoute(p, filled, answer) \in Response
           /\ IsOk(PostRoute(p, filled, answer)) => answer = Ok(None)
  <1>1. answer \in Response /\ (IsOk(answer) => answer = Ok(None))
    BY DEF Ok, Failed, Unreachable, NodeFailure, Response, Codes, IsOk
  <1>2. \A code \in {400, 500} : Failed(code) \in Response /\ ~IsOk(Failed(code))
    BY DEF Failed, Response, Codes, IsOk
  <1>3. PostRoute(p, filled, answer) \in {answer, Failed(400), Failed(500)}
    BY DEF PostRoute, FaucetRoute, RegisterRoute, ContactRoute, Relay
  <1> QED
    BY <1>1, <1>2, <1>3

(* The form's request is answered: a success only if it was done.          *)
LEMMA PostAnswerStep ==
    ASSUME PagesInv, NEW p \in {"faucet", "register", "contact"}, PostAnswer(p)
    PROVE  PagesInv'
  <1>1. /\ post = [shown |-> post.shown, call |-> post.call]
        /\ post.call \in PostCall /\ post.shown = "busy"
        /\ post.shown \in {"idle", "busy", "success", "error"}
    BY DEF PostAnswer, PagesInv, PostOK, TypeOK
  <1>2. PICK done \in IF post.call.filled THEN BOOLEAN ELSE {FALSE} :
           /\ \E answer \in IF Up(p) THEN {IF done THEN Ok(None) ELSE Failed(400)}
                            ELSE {Unreachable, NodeFailure} :
                  post' = [post EXCEPT !.call.resp =
                              PostRoute(p, post.call.filled, answer)]
           /\ told' = [told EXCEPT !.effect = done]
    BY DEF PostAnswer
  <1>3. done \in BOOLEAN
    BY <1>2
  <1>4. PICK answer \in IF Up(p) THEN {IF done THEN Ok(None) ELSE Failed(400)}
                        ELSE {Unreachable, NodeFailure} :
           post' = [post EXCEPT !.call.resp =
                       PostRoute(p, post.call.filled, answer)]
    BY <1>2
  <1> DEFINE resp == PostRoute(p, post.call.filled, answer)
             m == [post.call EXCEPT !.resp = resp]
  <1>5. /\ answer \in {Ok(None), Failed(400), Unreachable, NodeFailure}
        /\ answer = Ok(None) => done
    BY <1>4, <1>3 DEF Ok, Failed, Unreachable, NodeFailure
  <1>6. resp \in Response /\ (IsOk(resp) => done)
    <2>1. post.call.filled \in BOOLEAN
      BY <1>1 DEF PostCall
    <2> QED
      BY <1>5, <2>1, PostRouteHonest
  <1> HIDE DEF resp
  <1>7. m \in PostCall /\ m # None /\ m.resp = resp
    BY <1>1, <1>6, NoneAssumption DEF PostCall
  <1>8. post' = [shown |-> "busy", call |-> m]
    BY <1>1, <1>4 DEF resp
  <1> HIDE DEF m
  <1>9. PostOK' /\ post'.shown = "busy" /\ post'.call = m
    BY <1>7, <1>8 DEF PostOK
  <1>10. /\ ToldOK' /\ told'.answers = told.answers /\ told'.effect = done
        /\ UNCHANGED <<world, wallet, screen, view, calls>>
    BY <1>2, <1>3 DEF PostAnswer, PagesInv, ToldOK
  <1>11. TypeOK' /\ AllBacked' /\ SoundCalls(calls')
    BY <1>7, <1>9, <1>10 DEF PagesInv, TypeOK, AllBacked
  <1>12. Effective'
    BY <1>6, <1>7, <1>9, <1>10 DEF Effective, SuccessIsTrue
  <1> QED
    BY <1>9, <1>10, <1>11, <1>12 DEF PagesInv

(* The form shows the outcome, and fetches what it changed.                *)
LEMMA PostDeliveredStep ==
    ASSUME PagesInv, NEW p, PostDelivered(p)
    PROVE  PagesInv'
  <1> DEFINE kind == screen.kind
             ok == IsOk(post.call.resp)
  <1>1. /\ calls \in CallsOf(kind) /\ SoundCalls(calls)
        /\ wallet \in Addresses \cup {None}
    BY DEF PagesInv, TypeOK, CallsOf
  <1>2. calls' \in CallsOf(kind) /\ SoundCalls(calls')
    <2>1. CASE ok
      <3>1. /\ calls' = [r \in DOMAIN calls |->
                            IF r \in Refetched(p) THEN Sent(calls, r, wallet)[r]
                            ELSE calls[r]]
            /\ \A r \in Refetched(p) : Free(calls, r) # {}
        BY <2>1 DEF PostDelivered
      <3>2. DOMAIN calls = Fetched(kind)
        BY <1>1 DEF CallsOf
      <3>3. SendsAll(kind, calls, Refetched(p), wallet, calls')
        BY <3>1, <3>2 DEF SendsAll
      <3> QED
        BY <1>1, <3>3, AllSentSound
    <2>2. CASE ~ok
      BY <1>1, <2>2 DEF PostDelivered
    <2> QED
      BY <2>1, <2>2
  <1>3. /\ post' = [shown |-> IF ok THEN "success" ELSE "error", call |-> None]
        /\ ok => told.effect
        /\ UNCHANGED <<world, wallet, screen, view, told>>
    BY DEF PostDelivered, PagesInv, Effective
  <1> HIDE DEF ok
  <1>4. /\ PostOK' /\ post'.call = None
        /\ post'.shown = IF ok THEN "success" ELSE "error"
    BY <1>3 DEF PostOK
  <1>5. TypeOK'
    BY <1>2, <1>3, <1>4 DEF PagesInv, TypeOK, CallsOf
  <1>6. ToldOK' /\ AllBacked'
    BY <1>3 DEF PagesInv, ToldOK, AllBacked
  <1>7. Effective'
    BY <1>3, <1>4 DEF Effective, SuccessIsTrue
  <1> QED
    BY <1>2, <1>4, <1>5, <1>6, <1>7 DEF PagesInv

(* The contact form is emptied.                                            *)
LEMMA AgainStep ==
    ASSUME PagesInv, Again
    PROVE  PagesInv'
  <1>1. /\ post' = [shown |-> "idle", call |-> None]
        /\ UNCHANGED <<world, wallet, screen, view, calls, told>>
    BY DEF Again, NoPost
  <1>2. PostOK' /\ post'.shown = "idle" /\ post'.call = None
    BY <1>1 DEF PostOK
  <1>3. TypeOK'
    BY <1>1, <1>2 DEF PagesInv, TypeOK
  <1> QED
    BY <1>1, <1>2, <1>3
       DEF PagesInv, ToldOK, AllBacked, Effective, SuccessIsTrue

(* What the node does shows nowhere until an answer tells.                 *)
LEMMA WorldStep ==
    ASSUME PagesInv,
           \/ NodeChanges
           \/ \E n \in Nodes : Outage(n) \/ Recover(n)
    PROVE  PagesInv'
  <1>1. /\ world' \in [version : Versions, up : [Nodes -> BOOLEAN],
                       outages : 0..MaxOutages]
        /\ UNCHANGED <<wallet, screen, view, calls, post, told>>
    <2> DEFINE W == [version : Versions, up : [Nodes -> BOOLEAN],
                     outages : 0..MaxOutages]
    <2>1. world \in W
      BY DEF PagesInv, TypeOK
    <2>2. CASE NodeChanges
      BY <2>1, <2>2 DEF NodeChanges
    <2>3. ASSUME NEW n \in Nodes, Outage(n)
          PROVE  world' \in W /\ UNCHANGED <<wallet, screen, view, calls, post, told>>
      <3>1. world.outages + 1 \in 0..MaxOutages
        <4>1. world.outages \in 0..MaxOutages
          BY <2>1
        <4>2. world.outages < MaxOutages
          BY <2>3 DEF Outage
        <4> QED
          BY <4>1, <4>2, PagesAssumption
      <3>2. [world.up EXCEPT ![n] = FALSE] \in [Nodes -> BOOLEAN]
        BY <2>1
      <3>3. world' = [version |-> world.version,
                      up |-> [world.up EXCEPT ![n] = FALSE],
                      outages |-> world.outages + 1]
        BY <2>1, <2>3 DEF Outage
      <3> QED
        BY <2>1, <2>3, <3>1, <3>2, <3>3 DEF Outage
    <2>4. ASSUME NEW n \in Nodes, Recover(n)
          PROVE  world' \in W /\ UNCHANGED <<wallet, screen, view, calls, post, told>>
      BY <2>1, <2>4 DEF Recover
    <2> QED
      BY <2>2, <2>3, <2>4
  <1> QED
    BY <1>1 DEF PagesInv, TypeOK, ToldOK, PostOK, AllBacked, Effective, SuccessIsTrue

(* Every step keeps the invariant.                                         *)
LEMMA PagesStep == PagesInv /\ [Next]_vars => PagesInv'
  <1> SUFFICES ASSUME PagesInv, [Next]_vars PROVE PagesInv'
    OBVIOUS
  <1>1. CASE Moves
    BY <1>1, SetWalletStep DEF Moves
  <1>2. ASSUME NEW r \in Resources, Poll(r) PROVE PagesInv'
    BY <1>2, PollStep
  <1>3. ASSUME NEW r \in Resources, NEW s \in Slots, Answer(r, s) PROVE PagesInv'
    BY <1>3, AnswerStep
  <1>4. ASSUME NEW r \in Resources, NEW s \in Slots, Deliver(r, s) PROVE PagesInv'
    BY <1>4, DeliverStep
  <1>5. ASSUME NEW p \in {"faucet", "register", "contact"},
               NEW filled \in BOOLEAN, Press(p, filled)
        PROVE  PagesInv'
    BY <1>5, PressStep
  <1>6. ASSUME NEW p \in {"faucet", "register", "contact"}, PostAnswer(p)
        PROVE  PagesInv'
    BY <1>6, PostAnswerStep
  <1>7. ASSUME NEW p \in {"faucet", "register", "contact"}, PostDelivered(p)
        PROVE  PagesInv'
    BY <1>7, PostDeliveredStep
  <1>8. CASE Again
    BY <1>8, AgainStep
  <1>9. CASE NodeChanges \/ \E n \in Nodes : Outage(n) \/ Recover(n)
    BY <1>9, WorldStep
  <1>10. CASE UNCHANGED vars
    BY <1>10 DEF vars, PagesInv, TypeOK, ToldOK, PostOK, AllBacked, Effective,
                 SuccessIsTrue
  <1> QED
    BY <1>1, <1>2, <1>3, <1>4, <1>5, <1>6, <1>7, <1>8, <1>9, <1>10 DEF Next

(* In every behaviour each resource's view rests on the answers to it.     *)
LEMMA PagesInvariant == Spec => []PagesInv
  BY InitPages, PagesStep, PTL DEF Spec

-----------------------------------------------------------------------------
(* The theorems. *)

(* Screen, requests and form keep their types, whatever arrives when.      *)
THEOREM PagesTypeCorrect == Spec => []TypeOK
  <1>1. PagesInv => TypeOK
    BY DEF PagesInv
  <1> QED
    BY <1>1, PagesInvariant, PTL

(* Says: what a screen that is backed denies, an answer denied.            *)
LEMMA BackedTold == PagesInv => AbsenceIsTold
  <1> SUFFICES ASSUME PagesInv, "absent" \in Says(screen.kind, view)
               PROVE  \/ \E r \in DOMAIN told.answers :
                            \/ "absent" \in told.answers[r]
                            \/ /\ screen.kind \notin Remembers
                               /\ "failed" \in told.answers[r]
                      \/ screen.kind = "validator" /\ wallet = None
    BY DEF AbsenceIsTold
  <1> DEFINE kind == screen.kind
  <1>1. /\ kind \in Kinds
        /\ DOMAIN told.answers = Fetched(kind)
        /\ \A r \in Fetched(kind) :
              /\ told.answers[r] \in SUBSET {"absent", "failed"}
              /\ Backed(kind, wallet, view, r, told.answers[r])
    BY DEF PagesInv, TypeOK, Screen, ToldOK, AllBacked
  <1>2. ASSUME NEW r \in Fetched(kind), kind \notin Remembers \cup {"sidebar", "navbar"},
               r # "local", r \notin view.loading, Empty(view, r)
        PROVE  \/ "absent" \in told.answers[r] \/ "failed" \in told.answers[r]
               \/ kind = "validator" /\ wallet = None
    BY <1>1, <1>2 DEF Backed, Empty
  <1>3. CASE kind = "network"
    <2>1. /\ "peers" \in Fetched(kind)
          /\ view.error["peers"] = "none" /\ Empty(view, "peers")
      BY <1>3 DEF Says, NetworkSays, If, Fetched
    <2> QED
      BY <1>1, <1>3, <2>1 DEF Backed, Empty
  <1>4. ASSUME NEW r, ListSays(view, r) = Says(kind, view), r # "absent"
        PROVE  r \notin view.loading /\ Empty(view, r)
    BY <1>4 DEF ListSays
  <1>5. CASE kind \in {"mempool", "explorer", "history", "activity", "peers"}
    <2>1. PICK r \in Fetched(kind) : /\ ListSays(view, r) = Says(kind, view)
                                     /\ r \notin {"absent", "local"}
      <3>1. CASE kind = "mempool"
        BY <3>1 DEF Says, MempoolSays, Fetched
      <3>2. CASE kind = "explorer"
        BY <3>2 DEF Says, ExplorerSays, Fetched
      <3>3. CASE kind = "history"
        BY <3>3 DEF Says, AddressHistorySays, Fetched
      <3>4. CASE kind = "activity"
        BY <3>4 DEF Says, ActivitySays, Fetched
      <3>5. CASE kind = "peers"
        BY <3>5 DEF Says, PeersSays, Fetched
      <3> QED
        BY <1>5, <3>1, <3>2, <3>3, <3>4, <3>5
    <2>2. r \notin view.loading /\ Empty(view, r)
      BY <1>4, <2>1
    <2>3. kind \notin Remembers \cup {"sidebar", "navbar"}
      BY <1>5 DEF Remembers
    <2> QED
      BY <1>1, <1>2, <2>1, <2>2, <2>3 DEF Remembers
  <1>6. CASE kind \in {"block", "validator"}
    <2>1. /\ kind \in Fetched(kind) /\ kind \notin view.loading
          /\ view.data[kind] = None
      BY <1>6 DEF Says, BlockSays, ValidatorSays, Fetched
    <2>2. kind \notin Remembers \cup {"sidebar", "navbar"} /\ kind # "local"
      BY <1>6 DEF Remembers
    <2> QED
      BY <1>1, <1>2, <2>1, <2>2 DEF Remembers, Empty
  <1>7. CASE kind \in {"transaction", "address"}
    <2>1. PICK r \in Fetched(kind) : view.error[r] = "absent"
      BY <1>7 DEF Says, TransactionSays, AddressSays, Fetched, If
    <2> QED
      BY <1>1, <2>1 DEF Backed
  <1>8. CASE kind \in {"dashboard", "wallet", "sidebar", "navbar", "contact"}
    <2>1. "absent" \notin Says(kind, view)
      BY <1>8 DEF Says, DashboardSays, WalletSays, SidebarSays, NavbarSays
    <2> QED
      BY <2>1
  <1> QED
    BY <1>1, <1>3, <1>5, <1>6, <1>7, <1>8 DEF Kinds

(* No screen denies that there is something unless an answer denied it, or *)
(* failed where the screen does not tell the two apart.                    *)
THEOREM AbsenceIsToldCorrect == Spec => []AbsenceIsTold
  BY BackedTold, PagesInvariant, PTL

(* A form that shows a success had its effect.                             *)
THEOREM SuccessIsTrueCorrect == Spec => []SuccessIsTrue
  <1>1. PagesInv => SuccessIsTrue
    BY DEF PagesInv, Effective
  <1> QED
    BY <1>1, PagesInvariant, PTL
=============================================================================
