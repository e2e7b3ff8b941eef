------------------------------- MODULE Screens -------------------------------
(***************************************************************************)
(* The parts of the web site that show what the node holds: what each asks *)
(* for, what an answer makes of its state, and what it then says.          *)
(*                                                                         *)
(* A screen is a component with state of its own: a page of                *)
(* ui/src/app/testnet, the sidebar beside it, or the status in the         *)
(* navigation bar of the web site.  Components do not share their state,   *)
(* so each screen can be looked at alone.                                  *)
(***************************************************************************)
EXTENDS NodeRoutes

\* What a screen fetches when it is mounted.
Fetched(kind) ==
    CASE kind = "network" -> {"peers", "local"}
      [] kind = "mempool" -> {"mempool"}
      [] kind = "peers" -> {"peers"}
      [] kind = "explorer" -> {"blocks"}
      [] kind = "block" -> {"block"}
      [] kind = "transaction" -> {"transaction"}
      [] kind = "address" -> {"account"}
      [] kind = "validator" -> {"validator"}
      [] kind = "dashboard" -> {"stats", "account"}
      [] kind = "wallet" -> {"account"}
      [] kind \in {"history", "activity"} -> {"history"}
      [] kind \in {"sidebar", "navbar"} -> {"stats"}
      [] kind = "contact" -> {}

Kinds == {"network", "mempool", "peers", "explorer", "block", "transaction",
          "address", "history", "validator", "dashboard", "wallet",
          "activity", "sidebar", "navbar", "contact"}

\* What it fetches only then; the rest it fetches at an interval as well.
OnceOnly == {"block", "transaction", "address", "history", "validator"}
Polled(kind) == IF kind \in OnceOnly THEN {} ELSE Fetched(kind)

\* data: what is shown of each resource, None where nothing came yet; loading:
\* what is still waited for; error: the resources whose fetch failed, as far as
\* the component remembers that.
View(kind) ==
    [data : [Fetched(kind) -> Content \cup {None}],
     loading : SUBSET Fetched(kind),
     error : [Fetched(kind) -> {"none", "absent", "failed"}]]

\* NetworkPage, the sidebar and the navbar begin as offline.
NewView(kind) ==
    [data |-> [r \in Fetched(kind) |-> None],
     loading |-> IF kind \in {"explorer", "sidebar", "navbar"} THEN {}
                 ELSE Fetched(kind),
     error |-> [r \in Fetched(kind) |->
                   IF kind \in {"network", "sidebar", "navbar"}
                   THEN "failed" ELSE "none"]]

Receive(v, r, body) == [v EXCEPT !.data[r] = body]
Mark(v, r, e) == [v EXCEPT !.error[r] = e]
Loaded(v, r) == [v EXCEPT !.loading = @ \ {r}]

\* Nothing to list, or nothing received.
Empty(v, r) == v.data[r] = None \/ v.data[r].at \in AbsentIn

----------------------------------------------------------------------------
(* The handlers of answers                                                 *)

\* A failed fetch is only logged.
KeptOnFailure(v, r, resp) ==
    Loaded(IF IsOk(resp) THEN Receive(v, r, resp.body) ELSE v, r)

\* Mutant: a failed fetch is remembered for good.
MarkedForGood(v, r, resp) ==
    Loaded(IF IsOk(resp) THEN Receive(v, r, resp.body)
           ELSE Mark(v, r, "failed"), r)

\* A failed fetch is remembered until one succeeds.
MarkedOnFailure(v, r, resp) ==
    Loaded(IF IsOk(resp) THEN Mark(Receive(v, r, resp.body), r, "none")
           ELSE Mark(v, r, "failed"), r)

MempoolAfter(v, resp) == KeptOnFailure(v, "mempool", resp)
PeersAfter(v, resp) == KeptOnFailure(v, "peers", resp)
ExplorerAfter(v, resp) == KeptOnFailure(v, "blocks", resp)
BlockAfter(v, resp) == KeptOnFailure(v, "block", resp)
AddressHistoryAfter(v, resp) == KeptOnFailure(v, "history", resp)
ActivityAfter(v, resp) == KeptOnFailure(v, "history", resp)
WalletAfter(v, resp) == KeptOnFailure(v, "account", resp)

NetworkPeersAfter(v, resp) == MarkedOnFailure(v, "peers", resp)
SidebarAfter(v, resp) == MarkedOnFailure(v, "stats", resp)
NavbarAfter(v, resp) == MarkedOnFailure(v, "stats", resp)
DashboardStatsAfter(v, resp) == MarkedOnFailure(v, "stats", resp)
DashboardBalanceAfter(v, resp) == KeptOnFailure(v, "account", resp)

\* The user's own node: only whether it answers.
LocalNodeAfter(v, resp) ==
    Loaded(Mark(v, "local", IF IsOk(resp) THEN "none" ELSE "failed"), "local")

TransactionAfter(v, resp) ==
    IF IsOk(resp) \/ resp.status # 404 THEN MarkedOnFailure(v, "transaction", resp)
    ELSE Loaded(Mark(v, "transaction", "absent"), "transaction")

\* An address that the node does not know is shown with a balance of zero.
AddressAfter(v, resp) ==
    IF IsOk(resp) \/ resp.status # 404 THEN MarkedOnFailure(v, "account", resp)
    ELSE Loaded(Mark(v, "account", "absent"), "account")

\* Any answer but a good one makes the status null; without one it stays.
ValidatorAfter(v, resp) ==
    IF resp = Unreachable THEN Loaded(v, "validator")
    ELSE Loaded(Receive(v, "validator", resp.body), "validator")

After(kind, r, v, resp) ==
    CASE kind = "network" -> IF r = "local" THEN LocalNodeAfter(v, resp)
                             ELSE NetworkPeersAfter(v, resp)
      [] kind = "mempool" -> MempoolAfter(v, resp)
      [] kind = "peers" -> PeersAfter(v, resp)
      [] kind = "explorer" -> ExplorerAfter(v, resp)
      [] kind = "block" -> BlockAfter(v, resp)
      [] kind = "transaction" -> TransactionAfter(v, resp)
      [] kind = "address" -> AddressAfter(v, resp)
      [] kind = "history" -> AddressHistoryAfter(v, resp)
      [] kind = "validator" -> ValidatorAfter(v, resp)
      [] kind = "dashboard" -> IF r = "stats" THEN DashboardStatsAfter(v, resp)
                               ELSE DashboardBalanceAfter(v, resp)
      [] kind = "wallet" -> WalletAfter(v, resp)
      [] kind = "activity" -> ActivityAfter(v, resp)
      [] kind = "sidebar" -> SidebarAfter(v, resp)
      [] kind = "navbar" -> NavbarAfter(v, resp)

----------------------------------------------------------------------------
(* What the screens say: {"absent"}: there is nothing; the resource itself: *)
(* it is shown; "wait", "error", "online", "offline", "local".             *)

If(cond, says) == IF cond THEN says ELSE {}

\* A list behind a sign that it is loading.
ListSays(v, r) ==
    CASE r \in v.loading /\ Empty(v, r) -> {"wait"}
      [] r \notin v.loading /\ Empty(v, r) -> {"absent"}
      [] ~Empty(v, r) -> {r}

\* Mutant: that there are no peers is said while the node is offline, too.
NetworkSaysOffline(v) ==
    LET online == v.error["peers"] = "none" IN
    If(online, {"online"}) \cup If(~online, {"offline"})
      \cup If(v.error["local"] = "none", {"local"})
      \cup If(~Empty(v, "peers"), {"peers"})
      \cup If(Empty(v, "peers") /\ "peers" \notin v.loading, {"absent"})

NetworkSays(v) ==
    LET online == v.error["peers"] = "none" IN
    If(online, {"online"}) \cup If(~online, {"offline"})
      \cup If(v.error["local"] = "none", {"local"})
      \cup If(~Empty(v, "peers"), {"peers"})
      \cup If(Empty(v, "peers") /\ "peers" \notin v.loading /\ online, {"absent"})

MempoolSays(v) == ListSays(v, "mempool")

PeersSays(v) ==
    IF "peers" \in v.loading THEN {"wait"} ELSE ListSays(v, "peers")

ExplorerSays(v) == ListSays(v, "blocks")

AddressHistorySays(v) == ListSays(v, "history")
ActivitySays(v) == ListSays(v, "history")

BlockSays(v) ==
    CASE "block" \in v.loading -> {"wait"}
      [] "block" \notin v.loading /\ v.data["block"] = None -> {"absent"}
      [] OTHER -> {"block"}

TransactionSays(v) ==
    CASE "transaction" \in v.loading -> {"wait"}
      [] v.error["transaction"] = "absent" -> {"absent"}
      [] v.error["transaction"] = "failed" -> {"error"}
      [] OTHER -> If(v.data["transaction"] # None, {"transaction"})

\* The history below the account is a component of its own.
AddressSays(v) ==
    CASE "account" \in v.loading -> {"wait"}
      [] v.error["account"] = "failed" -> {"error"}
      [] v.error["account"] = "absent" -> {"absent"}
      [] OTHER -> If(v.data["account"] # None, {"account"})

ValidatorSays(v) ==
    CASE "validator" \in v.loading -> {"wait"}
      [] "validator" \notin v.loading /\ v.data["validator"] = None -> {"absent"}
      [] OTHER -> {"validator"}

DashboardSays(v) ==
    IF v.error["stats"] = "failed" THEN {"offline"} ELSE {"online"}

WalletSays(v) == IF "account" \in v.loading THEN {"wait"} ELSE {"account"}

SidebarSays(v) == IF v.error["stats"] = "none" THEN {"online"} ELSE {"offline"}

NavbarSays(v) ==
    IF v.error["stats"] = "none" /\ ~Empty(v, "stats") THEN {"stats"}
    ELSE {"online"}

Says(kind, v) ==
    CASE kind = "network" -> NetworkSays(v)
      [] kind = "mempool" -> MempoolSays(v)
      [] kind = "peers" -> PeersSays(v)
      [] kind = "explorer" -> ExplorerSays(v)
      [] kind = "block" -> BlockSays(v)
      [] kind = "transaction" -> TransactionSays(v)
      [] kind = "address" -> AddressSays(v)
      [] kind = "history" -> AddressHistorySays(v)
      [] kind = "validator" -> ValidatorSays(v)
      [] kind = "dashboard" -> DashboardSays(v)
      [] kind = "wallet" -> WalletSays(v)
      [] kind = "activity" -> ActivitySays(v)
      [] kind = "sidebar" -> SidebarSays(v)
      [] kind = "navbar" -> NavbarSays(v)
      [] kind = "contact" -> {}
=============================================================================
