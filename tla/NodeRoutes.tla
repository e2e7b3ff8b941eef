----------------------------- MODULE NodeRoutes -----------------------------
(***************************************************************************)
(* The way of a request from a page to the node and back: the route        *)
(* handlers of ui/src/app/api, which stand between the two, and the        *)
(* answers of the node's HTTP server (core/src/api.rs, core/src/node.rs).  *)
(*                                                                         *)
(* What the node holds of a resource changes over time; a content is the   *)
(* version the node held when it answered, and in some versions there is   *)
(* nothing there: an empty list, or an unknown hash.                       *)
(***************************************************************************)
EXTENDS Integers

CONSTANTS
    Addresses,   \* the addresses of wallets
    Versions,    \* what the node holds, one version after the other
    AbsentIn,    \* the versions in which there is nothing
    None

ASSUME RoutesAssumption ==
    /\ Versions \subseteq Nat /\ 0 \in Versions
    /\ AbsentIn \subseteq Versions
    /\ None \notin Addresses

\* of: the address that an account or a history belongs to.
Content == [of : Addresses \cup {None}, at : Versions]

Codes == {0, 200, 400, 404, 500}
Response == [status : Codes, body : Content \cup {None}]

Ok(body) == [status |-> 200, body |-> body]
Failed(code) == [status |-> code, body |-> None]

\* The fetch throws: no connection, or one that breaks off before the body ends.
Unreachable == Failed(0)

IsOk(resp) == resp.status = 200

----------------------------------------------------------------------------
(* The node.  A list may be empty; a block, a transaction or a validator    *)
(* that is not there is 404, and so is an account under an ill-formed      *)
(* address; a well-formed address always has an account.                   *)

Keyed == {"block", "transaction", "validator"}

NodeAnswer(r, of, v, wellFormed) ==
    IF \/ r \in Keyed /\ v \in AbsentIn
       \/ r = "account" /\ ~wellFormed
    THEN Failed(404)
    ELSE Ok([of |-> of, at |-> v])

\* The channel to the node's loop is closed before or after the request: 500,
\* or 408, which no page tells apart from it.
NodeFailure == Failed(500)

----------------------------------------------------------------------------
(* The routes.  All of them hand on status and body, and answer 500 when    *)
(* the node cannot be reached or its body is not JSON.                     *)

Relay(answer) == IF answer = Unreachable THEN Failed(500) ELSE answer

StatsRoute(answer) == Relay(answer)
PeersRoute(answer) == Relay(answer)
MempoolRoute(answer) == Relay(answer)
BlocksRoute(answer) == Relay(answer)
BlockRoute(answer) == Relay(answer)
TransactionRoute(answer) == Relay(answer)
AccountRoute(answer) == Relay(answer)
HistoryRoute(answer) == Relay(answer)
ValidatorRoute(answer) == Relay(answer)

\* The path of a read: "local" is asked of the user's own node without a route.
Route(r, answer) ==
    CASE r = "stats" -> StatsRoute(answer)
      [] r = "peers" -> PeersRoute(answer)
      [] r = "mempool" -> MempoolRoute(answer)
      [] r = "blocks" -> BlocksRoute(answer)
      [] r = "block" -> BlockRoute(answer)
      [] r = "transaction" -> TransactionRoute(answer)
      [] r = "account" -> AccountRoute(answer)
      [] r = "history" -> HistoryRoute(answer)
      [] r = "validator" -> ValidatorRoute(answer)
      [] r = "local" -> answer

\* The writes.  A registration without a stake, or a message with an empty
\* field, is refused before anything is sent.  Payments has the one that sends
\* a transaction.

\* Mutant: the route hands on the body without the status.
FaucetRouteNoStatus(answer) ==
    IF answer = Unreachable THEN Failed(500) ELSE Ok(answer.body)

FaucetRoute(answer) == Relay(answer)

RegisterRoute(stake, answer) == IF stake = 0 THEN Failed(400) ELSE Relay(answer)
ContactRoute(filled, answer) ==
    IF ~filled THEN Failed(400)
    ELSE IF IsOk(answer) THEN answer ELSE Failed(500)

PostRoute(p, filled, answer) ==
    CASE p = "faucet" -> FaucetRoute(answer)
      [] p = "register" -> RegisterRoute(IF filled THEN 1 ELSE 0, answer)
      [] p = "contact" -> ContactRoute(filled, answer)
=============================================================================
