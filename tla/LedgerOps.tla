----------------------------- MODULE LedgerOps ------------------------------
(***************************************************************************)
(* The account ledger (core/src/state.rs) and the transactions that act on *)
(* it (core/src/transaction.rs), as operators on a ledger value.           *)
(*                                                                         *)
(* A ledger is the record that `struct State` is:                          *)
(*   accounts     the accounts in RocksDB                                  *)
(*   pending      `pending_changes`, the overlay a block executes in       *)
(*   assets, collections, channels                                         *)
(*                the registries, which live in memory only and outside    *)
(*                the overlay                                              *)
(* An operation returns an outcome [ok, st].  An operation that fails      *)
(* still returns the ledger it leaves behind, because several of them      *)
(* write before their last check.                                          *)
(***************************************************************************)
EXTENDS Integers, FiniteSets, HashMaps

CONSTANTS
    Addrs,    \* addresses that hold a key: wallets and consensus keys
    NoAddr,   \* the empty byte vector, an address nobody holds
    Names,    \* names of assets and collections
    Items,    \* item ids of NFT collections
    U64Mod    \* 2^64 in the code: u64 arithmetic wraps (release build)

ASSUME LedgerAssumption ==
    /\ U64Mod \in Nat \ {0}
    /\ NoAddr \notin Addrs
    /\ IsFiniteSet(Addrs)      \* keys have a fixed length

U64 == 0 .. U64Mod - 1
Address == Addrs \cup {NoAddr}
Nonce == Nat

(* calculate_asset_id hashes (sender, nonce, name): the id is that triple. *)
ChannelName == "channel"
AssetId == Address \X Nonce \X (Names \cup {ChannelName})
NoId == <<>>
Id == AssetId \cup {NoId}
NftId == AssetId \X Items

-----------------------------------------------------------------------------
(* Accounts, assets, collections and channels. *)

NewAccount ==
    [balance |-> 0, nonce |-> 0, assets |-> EmptyMap,
     nfts |-> EmptyMap, allowance |-> EmptyMap]

(* `nfts` counts how often an item occurs in the account's vector: the     *)
(* vector's order is not told apart, its duplicates are.                   *)
IsAccount(acc) ==
    /\ acc = [balance |-> acc.balance, nonce |-> acc.nonce,
              assets |-> acc.assets, nfts |-> acc.nfts,
              allowance |-> acc.allowance]
    /\ acc.balance \in U64
    /\ acc.nonce \in Nonce
    /\ IsMap(acc.assets, AssetId, U64)
    /\ IsMap(acc.nfts, NftId, Nat)
    /\ IsMap(acc.allowance, Address, U64)

IsAccounts(m) ==
    /\ m = [a \in DOMAIN m |-> m[a]]
    /\ DOMAIN m \subseteq Address
    /\ \A a \in DOMAIN m : IsAccount(m[a])

Asset == [issuer : Address, total_supply : U64]

IsCollection(c) ==
    /\ c = [issuer |-> c.issuer, owner |-> c.owner]
    /\ c.issuer \in Address
    /\ IsMap(c.owner, Items, Address)

Channel ==
    [partner_a : Address, partner_b : Address,
     total_deposit : U64, is_closed : BOOLEAN]

IsLedger(st) ==
    /\ st = [accounts |-> st.accounts, pending |-> st.pending,
             assets |-> st.assets, collections |-> st.collections,
             channels |-> st.channels]
    /\ IsAccounts(st.accounts)
    /\ IsAccounts(st.pending)
    /\ IsMap(st.assets, AssetId, Asset)
    /\ st.collections = [id \in DOMAIN st.collections |-> st.collections[id]]
    /\ DOMAIN st.collections \subseteq AssetId
    /\ \A id \in DOMAIN st.collections : IsCollection(st.collections[id])
    /\ IsMap(st.channels, AssetId, Channel)

(* A ledger opened on the given stored accounts: the registries start      *)
(* empty whatever they held before.                                        *)
OpenLedger(stored) ==
    [accounts |-> stored, pending |-> EmptyMap, assets |-> EmptyMap,
     collections |-> EmptyMap, channels |-> EmptyMap]

-----------------------------------------------------------------------------
(* Transactions. *)

TransactionData ==
    [type : {"NativeTransfer"}, amount : U64]
    \cup [type : {"CreateAsset"}, name : Names, supply : U64]
    \cup [type : {"TransferAsset"}, id : Id, amount : U64]
    \cup [type : {"CreateCollection"}, name : Names]
    \cup [type : {"MintNFT"}, id : Id, item : Items, recipient : Address]
    \cup [type : {"TransferNFT"}, id : Id, item : Items]
    \cup [type : {"OpenChannel"}, partner : Address, amount : U64]
    \cup [type : {"CloseChannel"}, id : Id,
          final_balance_a : U64, final_balance_b : U64]
    \cup [type : {"DelegateSpend"}, delegate : Address, allowance : U64]
    \cup [type : {"RegisterValidator"}, stake : U64]
    \cup [type : {"UnregisterValidator"}]

(* `signed` says whether the signature verifies under the sender's key. *)
Transaction ==
    [sender : Address, receiver : Address, nonce : Nonce,
     signed : BOOLEAN, data : TransactionData]

AssetIdOf(tx) ==
    <<tx.sender, tx.nonce,
      IF tx.data.type = "OpenChannel" THEN ChannelName ELSE tx.data.name>>

(* validate_logic, one conjunct for each transaction type that it checks. *)
ValidLogic(tx) ==
    LET d == tx.data IN
    /\ tx.sender # NoAddr
    /\ d.type = "NativeTransfer" =>
          d.amount # 0 /\ tx.receiver # NoAddr /\ tx.sender # tx.receiver
    /\ d.type = "CreateAsset" => d.supply # 0
    /\ d.type = "TransferAsset" => d.amount # 0 /\ tx.receiver # NoAddr
    /\ d.type = "MintNFT" => d.id # NoId
    /\ d.type = "TransferNFT" => d.id # NoId /\ tx.receiver # NoAddr
    /\ d.type = "OpenChannel" => d.partner # NoAddr /\ d.amount # 0
    /\ d.type = "CloseChannel" => d.id # NoId
    /\ d.type = "DelegateSpend" => d.delegate # NoAddr /\ d.allowance # 0
    /\ d.type = "RegisterValidator" => d.stake # 0

Validate(tx) == ValidLogic(tx) /\ tx.signed

-----------------------------------------------------------------------------
(* Reading through the overlay, and staging a change in it. *)

Ok(st) == [ok |-> TRUE, st |-> st]
Err(st) == [ok |-> FALSE, st |-> st]

HasAccount(st, a) == a \in DOMAIN st.pending \cup DOMAIN st.accounts

GetAccount(st, a) ==
    Lookup(st.pending, a, Lookup(st.accounts, a, NewAccount))

GetBalance(st, a) == GetAccount(st, a).balance
GetNonce(st, a) == GetAccount(st, a).nonce

Stage(st, a, account) == [st EXCEPT !.pending = Put(st.pending, a, account)]

SetBalance(st, a, b) == Stage(st, a, [GetAccount(st, a) EXCEPT !.balance = b])

Add64(x, y) == (x + y) % U64Mod

Credit(st, a, amount) == SetBalance(st, a, Add64(GetBalance(st, a), amount))
Debit(st, a, amount) == SetBalance(st, a, GetBalance(st, a) - amount)

(* Mutant: any account that exists can pay. *)
CanPayUnchecked(st, a, amount) == HasAccount(st, a)

CanPay(st, a, amount) == HasAccount(st, a) /\ GetBalance(st, a) >= amount

AssetBalance(st, a, id) == Lookup(GetAccount(st, a).assets, id, 0)

SetAsset(st, a, id, amount) ==
    LET acc == GetAccount(st, a)
    IN  Stage(st, a, [acc EXCEPT !.assets = Put(acc.assets, id, amount)])

(* Vec::push and Vec::retain on the account's list of items. *)
PushNft(st, a, nft) ==
    LET acc == GetAccount(st, a)
    IN  Stage(st, a, [acc EXCEPT !.nfts =
                        Put(acc.nfts, nft, Lookup(acc.nfts, nft, 0) + 1)])

(* Mutant: the item stays in the list it should leave. *)
RemoveNftForgotten(st, a, nft) == st

RemoveNft(st, a, nft) ==
    LET acc == GetAccount(st, a)
    IN  Stage(st, a, [acc EXCEPT !.nfts = Drop(acc.nfts, nft)])

-----------------------------------------------------------------------------
(* One operator per arm of apply_transaction's match. *)

TransferNative(st, tx) ==
    IF tx.sender # tx.receiver /\ CanPay(st, tx.sender, tx.data.amount)
    THEN Ok(Credit(Debit(st, tx.sender, tx.data.amount),
                   tx.receiver, tx.data.amount))
    ELSE Err(st)

(* Mutant: the supply is issued but the asset is not registered. *)
IssueAssetUnregistered(st, tx) ==
    SetAsset(st, tx.sender, AssetIdOf(tx), tx.data.supply)

IssueAsset(st, tx) ==
    [SetAsset(st, tx.sender, AssetIdOf(tx), tx.data.supply)
        EXCEPT !.assets =
            Put(st.assets, AssetIdOf(tx),
                [issuer |-> tx.sender, total_supply |-> tx.data.supply])]

CreateAsset(st, tx) ==
    IF AssetIdOf(tx) \in DOMAIN st.assets THEN Err(st) ELSE Ok(IssueAsset(st, tx))

(* Mutant: the receiver's balance is read before the sender's is staged. *)
MoveAssetStaleRead(st, from, to, id, amount) ==
    SetAsset(SetAsset(st, from, id, AssetBalance(st, from, id) - amount),
             to, id, Add64(AssetBalance(st, to, id), amount))

(* The receiver's account is read after the sender's is staged, so that a  *)
(* transfer to oneself leaves the balance as it was.                       *)
MoveAsset(st, from, to, id, amount) ==
    LET paid == SetAsset(st, from, id, AssetBalance(st, from, id) - amount)
    IN  SetAsset(paid, to, id, Add64(AssetBalance(paid, to, id), amount))

TransferAsset(st, tx) ==
    LET d == tx.data
    IN  IF /\ d.id \in DOMAIN st.assets
           /\ HasAccount(st, tx.sender)
           /\ AssetBalance(st, tx.sender, d.id) >= d.amount
        THEN Ok(MoveAsset(st, tx.sender, tx.receiver, d.id, d.amount))
        ELSE Err(st)

CreateCollection(st, tx) ==
    LET id == AssetIdOf(tx)
        collection == [issuer |-> tx.sender, owner |-> EmptyMap]
    IN  IF id \in DOMAIN st.collections
        THEN Err(st)
        ELSE Ok([st EXCEPT !.collections = Put(st.collections, id, collection)])

SetOwner(st, id, item, a) ==
    LET c == st.collections[id]
    IN  [st EXCEPT !.collections =
            Put(st.collections, id, [c EXCEPT !.owner = Put(c.owner, item, a)])]

MintNFT(st, tx) ==
    LET id == tx.data.id
        item == tx.data.item
    IN  IF /\ id \in DOMAIN st.collections
           /\ st.collections[id].issuer = tx.sender
           /\ item \notin DOMAIN st.collections[id].owner
        THEN Ok(PushNft(SetOwner(st, id, item, tx.data.recipient),
                        tx.data.recipient, <<id, item>>))
        ELSE Err(st)

(* The registry's owner is rewritten before the sender's account is looked *)
(* up.                                                                     *)
TransferNFT(st, tx) ==
    LET id == tx.data.id
        item == tx.data.item
        owned == SetOwner(st, id, item, tx.receiver)
    IN  IF /\ id \in DOMAIN st.collections
           /\ item \in DOMAIN st.collections[id].owner
           /\ st.collections[id].owner[item] = tx.sender
        THEN IF HasAccount(st, tx.sender)
             THEN Ok(PushNft(RemoveNft(owned, tx.sender, <<id, item>>),
                             tx.receiver, <<id, item>>))
             ELSE Err(owned)
        ELSE Err(st)

(* The deposit is deducted before the id is looked up. *)
OpenChannel(st, tx) ==
    LET id == AssetIdOf(tx)
        paid == Debit(st, tx.sender, tx.data.amount)
        channel == [partner_a |-> tx.sender, partner_b |-> tx.data.partner,
                    total_deposit |-> tx.data.amount, is_closed |-> FALSE]
    IN  IF ~CanPay(st, tx.sender, tx.data.amount) THEN Err(st)
        ELSE IF id \in DOMAIN st.channels THEN Err(paid)
        ELSE Ok([paid EXCEPT !.channels = Put(st.channels, id, channel)])

(* Mutant: the channel is paid out but stays open. *)
MarkClosedForgotten(st, id) == st

MarkClosed(st, id) ==
    [st EXCEPT !.channels =
        Put(st.channels, id, [st.channels[id] EXCEPT !.is_closed = TRUE])]

(* Mutant: both partners' accounts are read before either is staged. *)
PayOutStaleRead(st, channel, a, b) ==
    LET paid == Credit(st, channel.partner_a, a)
    IN  Stage(paid, channel.partner_b,
              Credit(st, channel.partner_b, b).pending[channel.partner_b])

PayOut(st, channel, a, b) ==
    Credit(Credit(st, channel.partner_a, a), channel.partner_b, b)

(* The channel is marked closed before the final balances are checked. *)
CloseChannel(st, tx) ==
    LET id == tx.data.id
        channel == st.channels[id]
        a == tx.data.final_balance_a
        b == tx.data.final_balance_b
        closed == MarkClosed(st, id)
    IN  IF /\ id \in DOMAIN st.channels
           /\ ~channel.is_closed
           /\ tx.sender \in {channel.partner_a, channel.partner_b}
        THEN IF Add64(a, b) = channel.total_deposit
             THEN Ok(PayOut(closed, channel, a, b))
             ELSE Err(closed)
        ELSE Err(st)

DelegateSpend(st, tx) ==
    LET acc == GetAccount(st, tx.sender)
    IN  Ok(Stage(st, tx.sender,
             [acc EXCEPT !.allowance =
                Put(acc.allowance, tx.data.delegate, tx.data.allowance)]))

BondStake(st, tx) ==
    IF CanPay(st, tx.sender, tx.data.stake)
    THEN Ok(Debit(st, tx.sender, tx.data.stake))
    ELSE Err(st)

UnbondCheck(st, tx) == IF HasAccount(st, tx.sender) THEN Ok(st) ELSE Err(st)

Dispatch(st, tx) ==
    CASE tx.data.type = "NativeTransfer" -> TransferNative(st, tx)
      [] tx.data.type = "CreateAsset" -> CreateAsset(st, tx)
      [] tx.data.type = "TransferAsset" -> TransferAsset(st, tx)
      [] tx.data.type = "CreateCollection" -> CreateCollection(st, tx)
      [] tx.data.type = "MintNFT" -> MintNFT(st, tx)
      [] tx.data.type = "TransferNFT" -> TransferNFT(st, tx)
      [] tx.data.type = "OpenChannel" -> OpenChannel(st, tx)
      [] tx.data.type = "CloseChannel" -> CloseChannel(st, tx)
      [] tx.data.type = "DelegateSpend" -> DelegateSpend(st, tx)
      [] tx.data.type = "RegisterValidator" -> BondStake(st, tx)
      [] tx.data.type = "UnregisterValidator" -> UnbondCheck(st, tx)

IncrementNonce(st, a) ==
    Stage(st, a, [GetAccount(st, a) EXCEPT !.nonce = @ + 1])

(* Mutant: the mempool's check, which lets gaps through. *)
NonceNotBelow(st, tx) == tx.nonce >= GetNonce(st, tx.sender)

(* Mutant: a nonce that was used before passes. *)
NonceNotAbove(st, tx) == tx.nonce <= GetNonce(st, tx.sender)

NonceMatches(st, tx) == tx.nonce = GetNonce(st, tx.sender)

ApplyTransaction(st, tx) ==
    LET done == Dispatch(st, tx)
    IN  IF ~NonceMatches(st, tx) THEN Err(st)
        ELSE IF done.ok THEN Ok(IncrementNonce(done.st, tx.sender))
        ELSE done

(* Chain::process_transaction *)
ProcessTransaction(st, tx) ==
    IF Validate(tx) THEN ApplyTransaction(st, tx) ELSE Err(st)

DiscardChanges(st) == [st EXCEPT !.pending = EmptyMap]

(* State::apply_changes when every write succeeds. *)
ApplyChanges(st) ==
    [DiscardChanges(st) EXCEPT !.accounts = Overlay(st.pending, st.accounts)]
=============================================================================
