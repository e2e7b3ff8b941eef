------------------------------- MODULE Ledger -------------------------------
(***************************************************************************)
(* The execution pipeline of one node: how Chain::add_block runs a block's *)
(* transactions on the ledger and the validator set                        *)
(* (core/src/chain.rs 107-203, core/src/state.rs, core/src/validator.rs).  *)
(*                                                                         *)
(* A block is any sequence of at most MaxBlockTxs transactions: BeginBlock *)
(* discards the overlay, ExecTx executes one more transaction, and the     *)
(* block ends in RejectBlock (a transaction failed), AbandonBlock (a later *)
(* check or write failed) or CommitBlock, after which IndexTx handles the  *)
(* committed transactions one by one.  The node does all this on one task: *)
(* `phase` says where in the handler it stands.                            *)
(***************************************************************************)
EXTENDS LedgerOps, ValidatorOps, Sequences, Functions

CONSTANTS
    Transactions,      \* the transactions that blocks may carry
    InitialAccounts,   \* the accounts in storage at the start
    MaxBlockTxs        \* bound on the transactions of a block

ASSUME PipelineAssumption ==
    /\ Transactions \subseteq Transaction
    /\ IsAccounts(InitialAccounts)
    /\ MaxBlockTxs \in Nat

VARIABLES
    ledger,       \* Chain::state
    validators,   \* Chain::validators
    phase,        \* "idle", "executing" or "indexing"
    done,         \* the transactions of the block executed, not yet indexed
    before,       \* history: the registries when the block was begun
    intact        \* history: no block ended without effect on the accounts
                  \* but with one on the registries

vars == <<ledger, validators, phase, done, before, intact>>

Registries(st) == <<st.assets, st.collections, st.channels>>

Init ==
    /\ ledger = OpenLedger(InitialAccounts)
    /\ validators = NoValidators
    /\ phase = "idle"
    /\ done = <<>>
    /\ before = Registries(ledger)
    /\ intact = TRUE

BeginBlock ==
    /\ phase = "idle"
    /\ phase' = "executing"
    /\ ledger' = DiscardChanges(ledger)
    /\ before' = Registries(ledger)
    /\ UNCHANGED <<validators, done, intact>>

ExecTx(tx) ==
    LET outcome == ProcessTransaction(ledger, tx) IN
    /\ phase = "executing"
    /\ Len(done) < MaxBlockTxs
    /\ outcome.ok
    /\ ledger' = outcome.st
    /\ done' = Append(done, tx)
    /\ UNCHANGED <<validators, phase, before, intact>>

(* The block ends and the overlay is dropped: all that discard_changes     *)
(* does.                                                                   *)
Discard(st) ==
    /\ ledger' = DiscardChanges(st)
    /\ phase' = "idle"
    /\ done' = <<>>
    /\ intact' = (intact /\ Registries(st) = before)
    /\ UNCHANGED <<validators, before>>

RejectBlock(tx) ==
    LET outcome == ProcessTransaction(ledger, tx) IN
    /\ phase = "executing"
    /\ Len(done) < MaxBlockTxs
    /\ ~outcome.ok
    /\ Discard(outcome.st)

(* The state root differs or the block cannot be stored. *)
AbandonBlock ==
    /\ phase = "executing"
    /\ Discard(ledger)

CommitBlock ==
    /\ phase = "executing"
    /\ ledger' = ApplyChanges(ledger)
    /\ phase' = "indexing"
    /\ UNCHANGED <<validators, done, before, intact>>

(* What follows apply_changes for one transaction.  A registration that    *)
(* fails is only logged.  A refund is staged in the overlay.               *)
IndexTx ==
    /\ phase = "indexing"
    /\ done # <<>>
    /\ LET tx == Head(done) IN
       /\ CASE tx.data.type = "RegisterValidator" ->
                 /\ validators' = RegisterValidator(validators, tx.sender,
                                                    tx.data.stake)
                 /\ UNCHANGED ledger
            [] /\ tx.data.type = "UnregisterValidator"
               /\ IsValidator(validators, tx.sender) ->
                 /\ validators' = UnregisterValidator(validators, tx.sender)
                 /\ ledger' = Credit(ledger, tx.sender,
                                     validators.members[tx.sender].stake)
            [] OTHER -> UNCHANGED <<validators, ledger>>
    /\ done' = Tail(done)
    /\ UNCHANGED <<phase, before, intact>>

EndBlock ==
    /\ phase = "indexing"
    /\ done = <<>>
    /\ phase' = "idle"
    /\ UNCHANGED <<ledger, validators, done, before, intact>>

Next ==
    \/ BeginBlock
    \/ \E tx \in Transactions : ExecTx(tx) \/ RejectBlock(tx)
    \/ AbandonBlock
    \/ CommitBlock
    \/ IndexTx
    \/ EndBlock

Spec == Init /\ [][Next]_vars

-----------------------------------------------------------------------------
(* Types. *)

(* Every variable has its type; in particular no balance, stake or deposit *)
(* leaves the u64 range although the code subtracts without checking.      *)
TypeOK ==
    /\ IsLedger(ledger)
    /\ validators = [members |-> validators.members,
                     total_stake |-> validators.total_stake]
    /\ IsMap(validators.members, Address, ValidatorInfo)
    /\ validators.total_stake \in Int
    /\ phase \in {"idle", "executing", "indexing"}
    /\ done \in Seq(Transactions)
    /\ Len(done) <= MaxBlockTxs
    /\ intact \in BOOLEAN

-----------------------------------------------------------------------------
(* Native coins. *)

(* The coins that a channel holds.                                         *)
Deposit(channel) == IF channel.is_closed THEN 0 ELSE channel.total_deposit

(* Stake deducted by a transaction that the validator set has yet to see.  *)
BondedBy(tx) == IF tx.data.type = "RegisterValidator" THEN tx.data.stake ELSE 0

NativeTotal ==
    SumFunction([a \in Address |-> GetBalance(ledger, a)])
    + SumFunction([id \in DOMAIN ledger.channels |-> Deposit(ledger.channels[id])])
    + validators.total_stake
    + SumFunction([i \in DOMAIN done |-> BondedBy(done[i])])

InitialSupply ==
    SumFunction([a \in Address |-> Lookup(InitialAccounts, a, NewAccount).balance])

(* Coins are neither created nor destroyed by any sequence of blocks,      *)
(* committed or not, as long as no discarded block has left a mark on the  *)
(* registries: what accounts hold and what open channels hold add up to    *)
(* the initial supply, modulo the width of u64 because close_channel adds  *)
(* client-chosen amounts before it compares them with the deposit.         *)
SupplyConserved ==
    intact => NativeTotal % U64Mod = InitialSupply % U64Mod

(* Every transaction that executes conserves coins, whatever the history   *)
(* of the registries is.                                                   *)
ExecutedTxConserves ==
    [][Len(done') > Len(done) => (NativeTotal' - NativeTotal) % U64Mod = 0]_vars

(* Staking, with its refunds and its failed registrations, never creates   *)
(* coins ("Inflation: None planned"): refunding stake twice, or refunding  *)
(* it while it still counts as stake, would.                               *)
SupplyNeverGrows == NativeTotal <= InitialSupply

-----------------------------------------------------------------------------
(* Assets, collections and nonces. *)

(* The supply of an asset is in accounts as a whole, or, when the block    *)
(* that created it was discarded, not at all.  This holds in the overlay   *)
(* at every transaction and in storage at every commit.                    *)
AssetSupplyConserved ==
    \A id \in DOMAIN ledger.assets :
        LET supply == ledger.assets[id].total_supply
            held(a) == AssetBalance(ledger, a, id)
            stored(a) == Lookup(Lookup(ledger.accounts, a, NewAccount).assets,
                                id, 0)
        IN  /\ SumFunction([a \in Address |-> held(a)]) \in {0, supply}
            /\ SumFunction([a \in Address |-> stored(a)]) \in {0, supply}

(* An account never holds units of an asset that the registry does not     *)
(* know, neither in the overlay nor in storage, although the registry and  *)
(* the accounts are rolled back differently.                               *)
HeldAssetsRegistered ==
    \A accounts \in {ledger.pending, ledger.accounts} :
        \A a \in DOMAIN accounts :
            DOMAIN accounts[a].assets \subseteq DOMAIN ledger.assets

(* The registry's owner of an item is the one account that lists it, and   *)
(* lists it once, as long as no discarded block has changed the registry.  *)
OwnerListsItem ==
    intact =>
        \A id \in DOMAIN ledger.collections :
            \A item \in DOMAIN ledger.collections[id].owner :
                \A a \in Address :
                    Lookup(GetAccount(ledger, a).nfts, <<id, item>>, 0) =
                        IF a = ledger.collections[id].owner[item] THEN 1 ELSE 0

(* Replay protection inside a block: the transactions of one sender carry  *)
(* consecutive nonces, the first of them the stored one.                   *)
NoncesConsecutive ==
    LET stored(a) == Lookup(ledger.accounts, a, NewAccount).nonce
        by(a, positions) == {i \in positions : done[i].sender = a}
    IN
    phase = "executing" =>
        /\ \A a \in Addrs : GetNonce(ledger, a) =
              stored(a) + Cardinality(by(a, DOMAIN done))
        /\ \A i \in DOMAIN done : done[i].nonce =
              stored(done[i].sender) + Cardinality(by(done[i].sender, 1 .. i - 1))
=============================================================================
