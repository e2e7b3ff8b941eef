---------------------------- MODULE LedgerProofs ----------------------------
(***************************************************************************)
(* Proofs about the execution pipeline, for every value of the constants:  *)
(* any set of transactions, any initial accounts, blocks of any length.    *)
(*   types: no balance, deposit or allowance leaves the u64 range;         *)
(*   assets: held units are registered, supplies are whole;                *)
(*   nonces: consecutive inside a block;                                   *)
(*   items: listed by their registered owner;                              *)
(*   coins: conserved by every transaction, by every sequence of blocks    *)
(*   without staking, and never more of them by staking.                   *)
(* Where a theorem needs a hypothesis on the constants, it is an operator  *)
(* (NoUnitsAtStart, NoItemsAtStart, NoStakingTxs, NoChannelTxs).           *)
(***************************************************************************)
EXTENDS Ledger, LedgerOpsProofs

(* Crediting changes no registry and nothing in storage.                   *)
LEMMA CreditKeepsRest ==
    ASSUME NEW st, IsLedger(st), NEW a, NEW n
    PROVE  /\ Credit(st, a, n).accounts = st.accounts
           /\ Registries(Credit(st, a, n)) = Registries(st)
  BY DEF Credit, SetBalance, Stage, IsLedger, Registries

(* What IndexTx does to the ledger and to the validator set is well-typed: *)
(* a refund is a natural number.                                           *)
LEMMA IndexTxType ==
    ASSUME TypeOK, IndexTx
    PROVE  IsLedger(ledger') /\ IsValidatorSet(validators')
  <1> DEFINE tx == Head(done)
  <1>1. tx \in Transaction /\ tx.sender \in Address /\ tx.data \in TransactionData
    BY PipelineAssumption DEF TypeOK, IndexTx, Transaction
  <1>2. IsValidatorSet(validators) /\ IsLedger(ledger)
    BY DEF TypeOK, IsValidatorSet
  <1>3. CASE tx.data.type = "RegisterValidator"
    <2>1. tx.data.stake \in Nat
      BY <1>1, <1>3, DataType DEF U64
    <2>2. validators' = RegisterValidator(validators, tx.sender, tx.data.stake)
          /\ ledger' = ledger
      BY <1>3 DEF IndexTx
    <2> QED
      BY <1>1, <1>2, <2>1, <2>2, RegisterValidatorType
  <1>4. CASE /\ tx.data.type = "UnregisterValidator"
             /\ IsValidator(validators, tx.sender)
    <2> DEFINE stake == validators.members[tx.sender].stake
    <2>1. stake \in Int
      BY <1>2, <1>4 DEF IsValidator, IsValidatorSet, IsMap, ValidatorInfo
    <2>2. validators' = UnregisterValidator(validators, tx.sender)
          /\ ledger' = Credit(ledger, tx.sender, stake)
      BY <1>4 DEF IndexTx
    <2> QED
      BY <1>1, <1>2, <2>1, <2>2, UnregisterValidatorType, CreditType
  <1>5. CASE /\ tx.data.type # "RegisterValidator"
             /\ ~(/\ tx.data.type = "UnregisterValidator"
                  /\ IsValidator(validators, tx.sender))
    BY <1>2, <1>5 DEF IndexTx
  <1> QED
    BY <1>3, <1>4, <1>5

(* Every reachable state is well-typed.  In particular no balance, deposit *)
(* or allowance ever leaves the u64 range, although state.rs subtracts     *)
(* without checking and adds client-chosen amounts: every subtraction is   *)
(* covered by the check before it.                                         *)
THEOREM LedgerTypeCorrect == Spec => []TypeOK
  <1> USE DEF Discard
  <1>1. Init => TypeOK
    <2> SUFFICES ASSUME Init PROVE TypeOK
      OBVIOUS
    <2>1. IsLedger(ledger)
      BY PipelineAssumption, OpenLedgerType DEF Init
    <2>2. IsMap(validators.members, Address, ValidatorInfo)
      BY EmptyMapType DEF Init, NoValidators
    <2> QED
      BY <2>1, <2>2, PipelineAssumption DEF Init, TypeOK, NoValidators
  <1>2. TypeOK /\ [Next]_vars => TypeOK'
    <2> SUFFICES ASSUME TypeOK, [Next]_vars PROVE TypeOK'
      OBVIOUS
    <2> USE PipelineAssumption
    <2>1. CASE BeginBlock
      BY <2>1, DiscardChangesType DEF BeginBlock, TypeOK
    <2>2. ASSUME NEW tx \in Transactions, ExecTx(tx) PROVE TypeOK'
      <3>1. IsLedger(ledger')
        BY <2>2, ProcessTransactionType DEF ExecTx, TypeOK, IsOutcome
      <3>2. done' \in Seq(Transactions) /\ Len(done') <= MaxBlockTxs
        BY <2>2 DEF ExecTx, TypeOK
      <3> QED
        BY <2>2, <3>1, <3>2 DEF ExecTx, TypeOK
    <2>3. ASSUME NEW tx \in Transactions, RejectBlock(tx) PROVE TypeOK'
      <3>1. IsLedger(ProcessTransaction(ledger, tx).st)
        BY ProcessTransactionType DEF TypeOK, IsOutcome
      <3>2. IsLedger(ledger')
        BY <2>3, <3>1, DiscardChangesType DEF RejectBlock
      <3> QED
        BY <2>3, <3>2 DEF RejectBlock, TypeOK
    <2>4. CASE AbandonBlock
      BY <2>4, DiscardChangesType DEF AbandonBlock, TypeOK
    <2>5. CASE CommitBlock
      BY <2>5, ApplyChangesType DEF CommitBlock, TypeOK
    <2>6. CASE IndexTx
      <3>1. IsLedger(ledger') /\ IsValidatorSet(validators')
        BY <2>6, IndexTxType
      <3>2. done' \in Seq(Transactions) /\ Len(done') <= MaxBlockTxs
        BY <2>6 DEF IndexTx, TypeOK
      <3> QED
        BY <2>6, <3>1, <3>2 DEF IndexTx, TypeOK, IsValidatorSet
    <2>7. CASE EndBlock
      BY <2>7 DEF EndBlock, TypeOK
    <2>8. CASE UNCHANGED vars
      BY <2>8 DEF vars, TypeOK
    <2> QED
      BY <2>1, <2>2, <2>3, <2>4, <2>5, <2>6, <2>7, <2>8 DEF Next
  <1> QED
    BY <1>1, <1>2, PTL DEF Spec

-----------------------------------------------------------------------------
(* The two views of the accounts: through the overlay, and as they are in  *)
(* storage, which is what a discarded overlay leaves.                      *)

(* Discarding the overlay leaves the stored accounts and the registries;   *)
(* what a transaction leaves in storage it leaves in that view.            *)
LEMMA StoredView ==
    ASSUME NEW st, IsLedger(st)
    PROVE  LET s == DiscardChanges(st)
           IN  /\ IsLedger(s)
               /\ \A a : GetAccount(s, a) = Lookup(st.accounts, a, NewAccount)
               /\ s.accounts = st.accounts /\ s.assets = st.assets
               /\ s.collections = st.collections /\ s.channels = st.channels
               /\ s.pending = EmptyMap /\ DiscardChanges(s) = s
  <1>1. IsLedger(DiscardChanges(st))
    BY DiscardChangesType
  <1>2. DiscardChanges(st).pending = EmptyMap
    BY DEF DiscardChanges, IsLedger
  <1>3. DOMAIN EmptyMap = {}
    BY DEF EmptyMap
  <1>4. DiscardChanges(st).accounts = st.accounts
    BY DEF DiscardChanges, IsLedger
  <1> QED
    BY <1>1, <1>2, <1>3, <1>4 DEF DiscardChanges, GetAccount, Lookup, IsLedger

(* Committing makes the two views one.                                     *)
LEMMA CommittedView ==
    ASSUME NEW st, IsLedger(st)
    PROVE  LET s == ApplyChanges(st)
           IN  /\ IsLedger(s)
               /\ \A a : GetAccount(s, a) = GetAccount(st, a)
               /\ s.assets = st.assets /\ s.collections = st.collections
               /\ s.channels = st.channels /\ DiscardChanges(s) = s
  <1> DEFINE s == ApplyChanges(st)
             m == Overlay(st.pending, st.accounts)
  <1>1. IsLedger(s)
    BY ApplyChangesType
  <1> HIDE DEF m
  <1>2. /\ s.accounts = m /\ s.pending = EmptyMap /\ s.assets = st.assets
        /\ s.collections = st.collections /\ s.channels = st.channels
    BY DEF ApplyChanges, DiscardChanges, IsLedger, m
  <1>3. DiscardChanges(s) = s
    <2> HIDE DEF s
    <2> QED
      BY <1>1, <1>2 DEF DiscardChanges, IsLedger
  <1> HIDE DEF s
  <1>4. \A a : GetAccount(s, a) = Lookup(m, a, NewAccount)
    BY <1>2 DEF GetAccount, Lookup, EmptyMap
  <1>5. \A a : Lookup(m, a, NewAccount) = GetAccount(st, a)
    BY DEF GetAccount, Lookup, m, Overlay
  <1> QED
    BY <1>1, <1>2, <1>3, <1>4, <1>5 DEF s

-----------------------------------------------------------------------------
(* Units of assets. *)

UnitsOf(st, id) == [a \in Address |-> AssetBalance(st, a, id)]
Units(st, id) == SumFunctionOnSet(UnitsOf(st, id), Address)

(* No account holds units of an asset that is not registered.              *)
Registered(st) ==
    \A a \in Address : DOMAIN GetAccount(st, a).assets \subseteq DOMAIN st.assets

(* The units of a registered asset are all there or not at all.            *)
Supplied(st) ==
    \A id \in DOMAIN st.assets : Units(st, id) \in {0, st.assets[id].total_supply}

(* Units are natural numbers, and so are their sums.                       *)
LEMMA UnitsType ==
    ASSUME NEW st, IsLedger(st), NEW id
    PROVE  /\ Units(st, id) \in Nat
           /\ \A a \in Address : UnitsOf(st, id)[a] \in Nat
           /\ \A a \in Address : UnitsOf(st, id)[a] = AssetBalance(st, a, id)
           /\ \A a \in Address : AssetBalance(st, a, id) <= Units(st, id)
  <1>1. \A a \in Address : UnitsOf(st, id)[a] = AssetBalance(st, a, id)
    BY DEF UnitsOf
  <1>2. \A a \in Address : UnitsOf(st, id)[a] \in Nat
    BY <1>1, AssetBalanceInRange DEF U64
  <1>3. Units(st, id) \in Nat
    BY <1>2, AddressFinite, SumNat DEF Units
  <1>4. ASSUME NEW a \in Address PROVE AssetBalance(st, a, id) <= Units(st, id)
    <2> DEFINE f == UnitsOf(st, id)
               rest == SumFunctionOnSet(f, Address \ {a})
    <2> HIDE DEF f
    <2>1. f[a] \in Nat /\ \A b \in Address : f[b] \in Nat
      BY <1>2 DEF f
    <2>2. rest \in Nat
      <3>1. IsFiniteSet(Address \ {a})
        BY AddressFinite, FS_RemoveElement
      <3> QED
        BY <2>1, <3>1, SumNat
    <2>3. SumFunctionOnSet(f, Address) = f[a] + rest
      BY <2>1, AddressFinite, SumRemove
    <2> HIDE DEF rest
    <2>4. f[a] <= SumFunctionOnSet(f, Address)
      BY <2>1, <2>2, <2>3
    <2> QED
      BY <1>1, <2>4 DEF f, Units
  <1> QED
    BY <1>1, <1>2, <1>3, <1>4

(* Setting what one account holds changes the sum by the difference, and   *)
(* nothing about other assets.                                             *)
LEMMA SetAssetUnits ==
    ASSUME NEW st, IsLedger(st), NEW a \in Address, NEW id \in AssetId,
           NEW n \in U64
    PROVE  LET t == SetAsset(st, a, id, n)
           IN  /\ IsLedger(t) /\ AssetBalance(t, a, id) = n
               /\ Units(t, id) = Units(st, id) - AssetBalance(st, a, id) + n
               /\ \A k : k # id => Units(t, k) = Units(st, k)
               /\ \A b \in Address : DOMAIN GetAccount(t, b).assets
                      \subseteq DOMAIN GetAccount(st, b).assets \cup {id}
  <1> DEFINE t == SetAsset(st, a, id, n)
  <1>1. /\ GetAccount(t, a).assets = Put(GetAccount(st, a).assets, id, n)
        /\ \A c : c # a => GetAccount(t, c).assets = GetAccount(st, c).assets
    BY SetAssetTouches
  <1>2. IsLedger(t)
    BY SetAssetType
  <1> HIDE DEF t
  <1>3. AssetBalance(t, a, id) = n
    BY <1>1 DEF AssetBalance, Lookup, Put
  <1>4. \A c : c # a => AssetBalance(t, c, id) = AssetBalance(st, c, id)
    BY <1>1 DEF AssetBalance
  <1>5. \A k, c : k # id => AssetBalance(t, c, k) = AssetBalance(st, c, k)
    BY <1>1 DEF AssetBalance, Lookup, Put
  <1>6. \A k : k # id => Units(t, k) = Units(st, k)
    BY <1>5 DEF Units, UnitsOf
  <1>7. /\ UnitsOf(t, id)[a] = n /\ n \in Int
        /\ \A c \in Address \ {a} : UnitsOf(st, id)[c] = UnitsOf(t, id)[c]
        /\ UnitsOf(st, id)[a] = AssetBalance(st, a, id)
    BY <1>3, <1>4 DEF UnitsOf, U64
  <1>8. \A c \in Address : UnitsOf(st, id)[c] \in Int
    BY UnitsType
  <1>9. Units(t, id) = Units(st, id) - UnitsOf(st, id)[a] + UnitsOf(t, id)[a]
    BY <1>7, <1>8, AddressFinite, SumChange DEF Units
  <1>10. \A b \in Address : DOMAIN GetAccount(t, b).assets
            \subseteq DOMAIN GetAccount(st, b).assets \cup {id}
    BY <1>1 DEF Put
  <1> QED
    BY <1>2, <1>3, <1>6, <1>7, <1>9, <1>10 DEF t

(* A transfer of units that the sender holds moves them, to oneself too,   *)
(* and the receiver's sum does not wrap.                                   *)
LEMMA MoveAssetUnits ==
    ASSUME NEW st, IsLedger(st), NEW from \in Address, NEW to \in Address,
           NEW id \in AssetId, NEW n \in U64, AssetBalance(st, from, id) >= n,
           Units(st, id) < U64Mod
    PROVE  LET t == MoveAsset(st, from, to, id, n)
           IN  /\ \A k : Units(t, k) = Units(st, k)
               /\ \A b \in Address : DOMAIN GetAccount(t, b).assets
                      \subseteq DOMAIN GetAccount(st, b).assets \cup {id}
  <1> DEFINE had == AssetBalance(st, from, id)
             left == had - n
             paid == SetAsset(st, from, id, left)
             has == AssetBalance(paid, to, id)
             sum == Add64(has, n)
             t == SetAsset(paid, to, id, sum)
  <1>1. had \in U64 /\ left \in U64
    BY AssetBalanceInRange, SubType
  <1>2. had \in Nat /\ n \in Nat /\ Units(st, id) \in Nat
    BY <1>1, UnitsType DEF U64
  <1>3. /\ IsLedger(paid) /\ Units(paid, id) = Units(st, id) - had + left
        /\ \A k : k # id => Units(paid, k) = Units(st, k)
        /\ \A b \in Address : DOMAIN GetAccount(paid, b).assets
                 \subseteq DOMAIN GetAccount(st, b).assets \cup {id}
    BY <1>1, SetAssetUnits
  <1>4. Units(paid, id) = Units(st, id) - n
    BY <1>2, <1>3
  <1> HIDE DEF paid, had
  <1>5. has \in Nat /\ has <= Units(paid, id)
    <2>1. has \in U64
      BY <1>3, AssetBalanceInRange
    <2> QED
      BY <1>3, <2>1, UnitsType DEF U64
  <1> HIDE DEF has
  <1>6. has + n < U64Mod
    BY <1>2, <1>4, <1>5, LedgerAssumption
  <1>7. sum = has + n /\ sum \in U64
    BY <1>2, <1>5, <1>6, Add64Rules
  <1> HIDE DEF sum
  <1>8. /\ Units(t, id) = Units(paid, id) - has + sum
        /\ \A k : k # id => Units(t, k) = Units(paid, k)
        /\ \A b \in Address : DOMAIN GetAccount(t, b).assets
                 \subseteq DOMAIN GetAccount(paid, b).assets \cup {id}
    BY <1>3, <1>7, SetAssetUnits DEF has
  <1>9. MoveAsset(st, from, to, id, n) = t
    BY DEF MoveAsset, paid, had, sum, has
  <1> HIDE DEF t
  <1>10. Units(t, id) = Units(st, id)
    BY <1>2, <1>4, <1>5, <1>7, <1>8
  <1>11. \A k : Units(t, k) = Units(st, k)
    BY <1>3, <1>8, <1>10
  <1> QED
    BY <1>3, <1>8, <1>9, <1>11

(* An asset nobody may hold is held by nobody.                             *)
LEMMA UnregisteredUnits ==
    ASSUME NEW st, IsLedger(st), Registered(st), NEW id, id \notin DOMAIN st.assets
    PROVE  Units(st, id) = 0
  <1>1. \A a \in Address : UnitsOf(st, id)[a] = 0
    BY DEF UnitsOf, AssetBalance, Lookup, Registered
  <1> QED
    BY <1>1, AddressFinite, SumZero DEF Units

(* Registered and Supplied are about the accounts' units and the assets.   *)
LEMMA SameUnits ==
    ASSUME NEW s, NEW t, t.assets = s.assets,
           \A a : GetAccount(t, a).assets = GetAccount(s, a).assets
    PROVE  /\ Registered(s) <=> Registered(t)
           /\ Supplied(s) <=> Supplied(t)
  <1>1. \A id : Units(t, id) = Units(s, id)
    BY DEF Units, UnitsOf, AssetBalance
  <1> QED
    BY <1>1 DEF Registered, Supplied

(* A new asset is registered with what its issuer was given, all of it; in *)
(* a view that its issuer's account does not change in, with nothing.      *)
LEMMA NewAssetSupplied ==
    ASSUME NEW s, IsLedger(s), Registered(s), Supplied(s),
           NEW t, NEW id \in AssetId, id \notin DOMAIN s.assets, NEW asset,
           t.assets = Put(s.assets, id, asset),
           \A k : k # id => Units(t, k) = Units(s, k),
           Units(t, id) \in {0, asset.total_supply},
           \A b \in Address : DOMAIN GetAccount(t, b).assets
               \subseteq DOMAIN GetAccount(s, b).assets \cup {id}
    PROVE  Registered(t) /\ Supplied(t)
  <1>1. DOMAIN t.assets = DOMAIN s.assets \cup {id} /\ t.assets[id] = asset
        /\ \A k \in DOMAIN s.assets : t.assets[k] = s.assets[k]
    BY DEF Put
  <1>2. Registered(t)
    BY <1>1 DEF Registered
  <1>3. Supplied(t)
    BY <1>1 DEF Supplied
  <1> QED
    BY <1>2, <1>3

(* In the overlay every arm keeps units registered and supplies whole.     *)
LEMMA DispatchUnits ==
    ASSUME NEW st, IsLedger(st), Registered(st), Supplied(st),
           NEW tx \in Transaction
    PROVE  LET t == Dispatch(st, tx).st IN Registered(t) /\ Supplied(t)
  <1> DEFINE type == tx.data.type
             t == Dispatch(st, tx).st
  <1>1. tx.data \in TransactionData /\ tx.sender \in Address /\ tx.receiver \in Address
    BY DEF Transaction
  <1>2. CASE type = "CreateAsset"
    <2> DEFINE id == AssetIdOf(tx)
               n == tx.data.supply
               new == IssueAsset(st, tx)
               asset == [issuer |-> tx.sender, total_supply |-> n]
               old == GetAccount(st, tx.sender).assets
               given == SetAsset(st, tx.sender, id, n)
    <2>1. n \in U64 /\ id \in AssetId
      BY <1>1, <1>2, DataType, AssetIdOfType
    <2>2. /\ new.assets = Put(st.assets, id, asset)
          /\ GetAccount(new, tx.sender).assets = Put(old, id, n)
          /\ \A c : c # tx.sender
                => GetAccount(new, c).assets = GetAccount(st, c).assets
      BY <1>2, IssueAssetTouches
    <2>3. /\ GetAccount(given, tx.sender).assets = Put(old, id, n)
          /\ \A c : c # tx.sender
                => GetAccount(given, c).assets = GetAccount(st, c).assets
      BY SetAssetTouches
    <2>4. /\ Units(given, id) = Units(st, id) - AssetBalance(st, tx.sender, id) + n
          /\ \A k : k # id => Units(given, k) = Units(st, k)
          /\ \A b \in Address : DOMAIN GetAccount(given, b).assets
                 \subseteq DOMAIN GetAccount(st, b).assets \cup {id}
      BY <1>1, <2>1, SetAssetUnits
    <2> HIDE DEF new, given, id, n, asset
    <2>5. \A c : GetAccount(new, c).assets = GetAccount(given, c).assets
      BY <2>2, <2>3
    <2>6. \A k : Units(new, k) = Units(given, k)
      BY <2>5 DEF Units, UnitsOf, AssetBalance
    <2>7. ASSUME id \notin DOMAIN st.assets
          PROVE  Registered(new) /\ Supplied(new)
      <3>1. Units(st, id) = 0
        BY <2>7, UnregisteredUnits
      <3>2. AssetBalance(st, tx.sender, id) = 0
        BY <1>1, <2>7 DEF AssetBalance, Lookup, Registered
      <3>3. Units(new, id) = n
        BY <2>1, <2>4, <2>6, <3>1, <3>2 DEF U64
      <3>4. asset.total_supply = n
        BY DEF asset
      <3> QED
        BY <2>1, <2>2, <2>4, <2>5, <2>6, <2>7, <3>3, <3>4, NewAssetSupplied
    <2>8. t = IF id \in DOMAIN st.assets THEN st ELSE new
      BY <1>2 DEF Dispatch, CreateAsset, Ok, Err, id, new
    <2> HIDE DEF t
    <2> QED
      BY <2>7, <2>8 DEF t
  <1>3. CASE type = "TransferAsset"
    <2> DEFINE id == tx.data.id
               n == tx.data.amount
               moved == MoveAsset(st, tx.sender, tx.receiver, id, n)
    <2>1. n \in U64
      BY <1>1, <1>3, DataType
    <2>2. ASSUME id \in DOMAIN st.assets, AssetBalance(st, tx.sender, id) >= n
          PROVE  Registered(moved) /\ Supplied(moved)
      <3>1. id \in AssetId /\ st.assets[id].total_supply \in U64
        BY <2>2 DEF IsLedger, IsMap, Asset
      <3>2. Units(st, id) < U64Mod
        BY <2>2, <3>1, LedgerAssumption DEF Supplied, U64
      <3>3. /\ \A k : Units(moved, k) = Units(st, k)
            /\ \A b \in Address : DOMAIN GetAccount(moved, b).assets
                   \subseteq DOMAIN GetAccount(st, b).assets \cup {id}
        BY <1>1, <2>1, <2>2, <3>1, <3>2, MoveAssetUnits
      <3>4. TransferAsset(st, tx).st \in {st, moved}
        BY DEF TransferAsset, Ok, Err
      <3>5. moved.assets = st.assets
        <4> DEFINE paid == SetAsset(st, tx.sender, id, AssetBalance(st, tx.sender, id) - n)
                   sum == Add64(AssetBalance(paid, tx.receiver, id), n)
        <4>1. AssetBalance(st, tx.sender, id) - n \in U64
          BY <2>1, <2>2, AssetBalanceInRange, SubType
        <4>2. IsLedger(paid) /\ Touches({"units"}, st, paid)
          BY <1>1, <3>1, <4>1, SetAssetType, SetAssetTouches
        <4> HIDE DEF paid
        <4>3. Touches({"units"}, paid, SetAsset(paid, tx.receiver, id, sum))
          BY <4>2, SetAssetTouches
        <4>4. moved = SetAsset(paid, tx.receiver, id, sum)
          BY DEF MoveAsset, paid
        <4> QED
          BY <4>2, <4>3, <4>4 DEF Touches
      <3> HIDE DEF moved
      <3> QED
        BY <2>2, <3>3, <3>5 DEF Registered, Supplied
    <2>3. \/ t = st
          \/ /\ id \in DOMAIN st.assets /\ AssetBalance(st, tx.sender, id) >= n
             /\ t = moved
      BY <1>3 DEF Dispatch, TransferAsset, Ok, Err
    <2> HIDE DEF t, moved
    <2> QED
      BY <2>2, <2>3 DEF t
  <1>4. CASE type # "CreateAsset" /\ type # "TransferAsset"
    <2>1. Touches(PartsOf(type), st, t)
      BY DispatchTouches
    <2>2. "units" \notin PartsOf(type) /\ "assets" \notin PartsOf(type)
      BY <1>4 DEF PartsOf
    <2> HIDE DEF t
    <2>3. /\ t.assets = st.assets
          /\ \A a : GetAccount(t, a).assets = GetAccount(st, a).assets
      BY <2>1, <2>2 DEF Touches
    <2> QED
      BY <2>3, SameUnits DEF t
  <1> QED
    BY <1>2, <1>3, <1>4

(* In storage it does too: a new asset has no units there yet.             *)
LEMMA DispatchStoredUnits ==
    ASSUME NEW st, IsLedger(st), NEW tx \in Transaction,
           Registered(DiscardChanges(st)), Supplied(DiscardChanges(st))
    PROVE  LET t == DiscardChanges(Dispatch(st, tx).st)
           IN  Registered(t) /\ Supplied(t)
  <1> DEFINE arm == Dispatch(st, tx).st
             s == DiscardChanges(st)
             t == DiscardChanges(arm)
  <1>1. IsLedger(arm) /\ Touches(PartsOf(tx.data.type), st, arm)
    BY DispatchType, DispatchTouches DEF IsOutcome
  <1>2. /\ IsLedger(s) /\ s.assets = st.assets
        /\ \A a : GetAccount(s, a) = Lookup(st.accounts, a, NewAccount)
    BY StoredView
  <1>3. /\ IsLedger(t) /\ t.assets = arm.assets
        /\ \A a : GetAccount(t, a) = Lookup(arm.accounts, a, NewAccount)
    BY <1>1, StoredView
  <1>4. arm.accounts = st.accounts
    BY <1>1 DEF Touches
  <1> HIDE DEF arm, s, t
  <1>5. \A a : GetAccount(t, a) = GetAccount(s, a)
    BY <1>2, <1>3, <1>4
  <1>6. \A id : Units(t, id) = Units(s, id)
    BY <1>5 DEF Units, UnitsOf, AssetBalance
  <1>7. CASE tx.data.type = "CreateAsset" /\ AssetIdOf(tx) \notin DOMAIN st.assets
    <2> DEFINE id == AssetIdOf(tx)
               asset == [issuer |-> tx.sender, total_supply |-> tx.data.supply]
    <2>1. arm = IssueAsset(st, tx)
      BY <1>7 DEF arm, Dispatch, CreateAsset, Ok
    <2>2. t.assets = Put(s.assets, id, asset)
      BY <1>2, <1>3, <1>7, <2>1, IssueAssetTouches
    <2>3. id \in AssetId
      BY <1>7, AssetIdOfType
    <2> HIDE DEF id, asset
    <2>4. id \notin DOMAIN s.assets
      BY <1>2, <1>7 DEF id
    <2>5. Registered(s) /\ Supplied(s)
      BY DEF s
    <2>6. Units(s, id) = 0
      BY <1>2, <2>4, <2>5, UnregisteredUnits
    <2>7. Units(t, id) \in {0, asset.total_supply}
      BY <1>6, <2>6
    <2>8. Registered(t) /\ Supplied(t)
      BY <1>2, <1>5, <1>6, <2>2, <2>3, <2>4, <2>5, <2>7, NewAssetSupplied
    <2> QED
      BY <2>8 DEF t, arm
  <1>8. CASE ~(tx.data.type = "CreateAsset" /\ AssetIdOf(tx) \notin DOMAIN st.assets)
    <2>1. arm.assets = st.assets
      <3>1. CASE tx.data.type = "CreateAsset"
        BY <1>8, <3>1 DEF arm, Dispatch, CreateAsset, Err
      <3>2. CASE tx.data.type # "CreateAsset"
        BY <1>1, <3>2 DEF Touches, PartsOf
      <3> QED
        BY <3>1, <3>2
    <2>2. Registered(t) /\ Supplied(t)
      BY <1>2, <1>3, <1>5, <2>1, SameUnits DEF s
    <2> QED
      BY <2>2 DEF t, arm
  <1> QED
    BY <1>7, <1>8

(* So it is for the whole transaction.                                     *)
LEMMA ProcessTransactionUnits ==
    ASSUME NEW st, IsLedger(st), NEW tx \in Transaction
    PROVE  LET t == ProcessTransaction(st, tx).st
           IN  /\ Registered(st) /\ Supplied(st) => Registered(t) /\ Supplied(t)
               /\ Registered(DiscardChanges(st)) /\ Supplied(DiscardChanges(st))
                    => Registered(DiscardChanges(t)) /\ Supplied(DiscardChanges(t))
  <1> DEFINE arm == Dispatch(st, tx).st
             last == IncrementNonce(arm, tx.sender)
             t == ProcessTransaction(st, tx).st
  <1>1. IsLedger(arm)
    BY DispatchType DEF IsOutcome
  <1>2. t \in {st, arm, last}
    BY ProcessTransactionSteps
  <1>3. Registered(st) /\ Supplied(st) => Registered(arm) /\ Supplied(arm)
    BY DispatchUnits
  <1>4. Registered(DiscardChanges(st)) /\ Supplied(DiscardChanges(st))
          => Registered(DiscardChanges(arm)) /\ Supplied(DiscardChanges(arm))
    BY DispatchStoredUnits
  <1> HIDE DEF arm, t
  <1>5. Touches({"nonce"}, arm, last)
    BY <1>1, IncrementNonceTouches
  <1>6. Registered(arm) /\ Supplied(arm) => Registered(last) /\ Supplied(last)
    BY <1>5, SameUnits DEF Touches
  <1>7. DiscardChanges(last) = DiscardChanges(arm)
    BY <1>1 DEF IncrementNonce, Stage, DiscardChanges, IsLedger
  <1> HIDE DEF last
  <1> QED
    BY <1>2, <1>3, <1>4, <1>6, <1>7 DEF t

(* UnitsInv: both views are sound.  AssetSupplyConserved alone is not      *)
(* inductive: an asset is registered anew under an id that storage or the  *)
(* overlay might already hold units of.                                    *)
UnitsInv ==
    /\ Registered(ledger) /\ Supplied(ledger)
    /\ Registered(DiscardChanges(ledger)) /\ Supplied(DiscardChanges(ledger))

(* The accounts at the start hold no units of assets: a new chain.         *)
NoUnitsAtStart ==
    \A a \in DOMAIN InitialAccounts : InitialAccounts[a].assets = EmptyMap

(* Both views stay sound under every action of the pipeline.               *)
LEMMA UnitsInvariant ==
    ASSUME NoUnitsAtStart
    PROVE  Spec => []UnitsInv
  <1>1. Init => UnitsInv
    <2> SUFFICES ASSUME Init PROVE UnitsInv
      OBVIOUS
    <2>1. /\ ledger.accounts = InitialAccounts /\ ledger.pending = EmptyMap
          /\ ledger.assets = EmptyMap /\ IsLedger(ledger)
      BY PipelineAssumption, OpenLedgerType DEF Init, OpenLedger
    <2>2. DOMAIN EmptyMap = {} /\ NewAccount.assets = EmptyMap
      BY DEF EmptyMap, NewAccount
    <2>3. \A a : GetAccount(ledger, a).assets = EmptyMap
      BY <2>1, <2>2 DEF GetAccount, Lookup, NoUnitsAtStart
    <2>4. Registered(ledger) /\ Supplied(ledger)
      BY <2>1, <2>2, <2>3 DEF Registered, Supplied
    <2>5. DiscardChanges(ledger) = ledger
      BY <2>1 DEF DiscardChanges, IsLedger
    <2> QED
      BY <2>4, <2>5 DEF UnitsInv
  <1>2. TypeOK /\ UnitsInv /\ [Next]_vars => UnitsInv'
    <2> SUFFICES ASSUME TypeOK, UnitsInv, [Next]_vars PROVE UnitsInv'
      OBVIOUS
    <2>0. IsLedger(ledger) /\ DiscardChanges(DiscardChanges(ledger)) = DiscardChanges(ledger)
      BY StoredView DEF TypeOK
    <2>1. ASSUME ledger' = DiscardChanges(ledger) PROVE UnitsInv'
      BY <2>0, <2>1 DEF UnitsInv
    <2>2. CASE BeginBlock
      BY <2>1, <2>2 DEF BeginBlock
    <2>3. ASSUME NEW tx \in Transactions
          PROVE  LET t == ProcessTransaction(ledger, tx).st
                 IN  /\ Registered(t) /\ Supplied(t) /\ IsLedger(t)
                     /\ Registered(DiscardChanges(t)) /\ Supplied(DiscardChanges(t))
      <3>1. tx \in Transaction
        BY PipelineAssumption
      <3> QED
        BY <2>0, <3>1, ProcessTransactionUnits, ProcessTransactionType
           DEF UnitsInv, IsOutcome
    <2>4. ASSUME NEW tx \in Transactions, ExecTx(tx) PROVE UnitsInv'
      BY <2>3, <2>4 DEF ExecTx, UnitsInv
    <2>5. ASSUME NEW tx \in Transactions, RejectBlock(tx) PROVE UnitsInv'
      <3> DEFINE t == ProcessTransaction(ledger, tx).st
      <3>1. ledger' = DiscardChanges(t)
        BY <2>5 DEF RejectBlock, Discard
      <3>2. /\ Registered(DiscardChanges(t)) /\ Supplied(DiscardChanges(t))
            /\ DiscardChanges(DiscardChanges(t)) = DiscardChanges(t)
        BY <2>3, StoredView
      <3> HIDE DEF t
      <3> QED
        BY <3>1, <3>2 DEF UnitsInv
    <2>6. CASE AbandonBlock
      BY <2>1, <2>6 DEF AbandonBlock, Discard
    <2>7. CASE CommitBlock
      <3>1. ledger' = ApplyChanges(ledger)
        BY <2>7 DEF CommitBlock
      <3>2. /\ ledger'.assets = ledger.assets /\ DiscardChanges(ledger') = ledger'
            /\ \A a : GetAccount(ledger', a) = GetAccount(ledger, a)
        BY <2>0, <3>1, CommittedView
      <3>3. Registered(ledger') /\ Supplied(ledger')
        BY <3>2, SameUnits DEF UnitsInv
      <3> QED
        BY <3>2, <3>3 DEF UnitsInv
    <2>8. CASE IndexTx
      <3> DEFINE tx == Head(done)
                 n == validators.members[tx.sender].stake
      <3>1. ledger' = ledger \/ ledger' = Credit(ledger, tx.sender, n)
        BY <2>8 DEF IndexTx
      <3>2. Touches({"balance"}, ledger, Credit(ledger, tx.sender, n))
        BY <2>0, CreditTouches
      <3>3. DiscardChanges(Credit(ledger, tx.sender, n)) = DiscardChanges(ledger)
        BY <2>0 DEF Credit, SetBalance, Stage, DiscardChanges, IsLedger
      <3> HIDE DEF tx, n
      <3>4. Registered(ledger') /\ Supplied(ledger')
        BY <3>1, <3>2, SameUnits DEF Touches, UnitsInv
      <3>5. DiscardChanges(ledger') = DiscardChanges(ledger)
        BY <3>1, <3>3
      <3> QED
        BY <3>4, <3>5 DEF UnitsInv
    <2>9. CASE EndBlock
      BY <2>9 DEF EndBlock, UnitsInv
    <2>10. CASE UNCHANGED vars
      BY <2>10 DEF vars, UnitsInv
    <2> QED
      BY <2>2, <2>4, <2>5, <2>6, <2>7, <2>8, <2>9, <2>10 DEF Next
  <1> QED
    BY <1>1, <1>2, LedgerTypeCorrect, PTL DEF Spec

(* No account ever holds units of an asset that the registry does not      *)
(* know, neither in the overlay nor in storage: an asset is registered     *)
(* when its units are given out, and the registry is never rolled back     *)
(* (state.rs keeps it outside pending_changes).                            *)
THEOREM HeldAssetsRegisteredCorrect ==
    ASSUME NoUnitsAtStart
    PROVE  Spec => []HeldAssetsRegistered
  <1>1. TypeOK /\ UnitsInv => HeldAssetsRegistered
    <2> SUFFICES ASSUME TypeOK, UnitsInv PROVE HeldAssetsRegistered
      OBVIOUS
    <2>1. IsLedger(ledger)
      BY DEF TypeOK
    <2>2. DOMAIN ledger.pending \subseteq Address /\ DOMAIN ledger.accounts \subseteq Address
      BY <2>1 DEF IsLedger, IsAccounts
    <2>3. \A a \in DOMAIN ledger.pending : GetAccount(ledger, a) = ledger.pending[a]
      BY DEF GetAccount, Lookup
    <2>4. /\ \A a \in DOMAIN ledger.accounts :
                GetAccount(DiscardChanges(ledger), a) = ledger.accounts[a]
          /\ DiscardChanges(ledger).assets = ledger.assets
      BY <2>1, StoredView DEF Lookup
    <2>5. \A a \in DOMAIN ledger.pending :
              DOMAIN ledger.pending[a].assets \subseteq DOMAIN ledger.assets
      BY <2>2, <2>3 DEF UnitsInv, Registered
    <2>6. \A a \in DOMAIN ledger.accounts :
              DOMAIN ledger.accounts[a].assets \subseteq DOMAIN ledger.assets
      BY <2>2, <2>4 DEF UnitsInv, Registered
    <2> QED
      BY <2>5, <2>6 DEF HeldAssetsRegistered
  <1> QED
    BY <1>1, UnitsInvariant, LedgerTypeCorrect, PTL

(* The units of every asset add up to its supply, or to nothing when the   *)
(* block that created it was discarded, in the overlay after every         *)
(* transaction and in storage after every commit: transfers, also to       *)
(* oneself, neither make nor lose units, and a receiver's units never      *)
(* wrap.                                                                   *)
THEOREM AssetSupplyConservedCorrect ==
    ASSUME NoUnitsAtStart
    PROVE  Spec => []AssetSupplyConserved
  <1>1. TypeOK /\ UnitsInv => AssetSupplyConserved
    <2> SUFFICES ASSUME TypeOK, UnitsInv, NEW id \in DOMAIN ledger.assets
                 PROVE  LET supply == ledger.assets[id].total_supply
                            held == [a \in Address |-> AssetBalance(ledger, a, id)]
                            stored == [a \in Address |->
                                Lookup(Lookup(ledger.accounts, a, NewAccount).assets, id, 0)]
                        IN  /\ SumFunction(held) \in {0, supply}
                            /\ SumFunction(stored) \in {0, supply}
      BY DEF AssetSupplyConserved
    <2> DEFINE held == [a \in Address |-> AssetBalance(ledger, a, id)]
               stored == [a \in Address |->
                   Lookup(Lookup(ledger.accounts, a, NewAccount).assets, id, 0)]
    <2>1. held = UnitsOf(ledger, id)
      BY DEF UnitsOf
    <2>2. /\ \A a : GetAccount(DiscardChanges(ledger), a)
                      = Lookup(ledger.accounts, a, NewAccount)
          /\ DiscardChanges(ledger).assets = ledger.assets
      BY StoredView DEF TypeOK
    <2>3. stored = UnitsOf(DiscardChanges(ledger), id)
      BY <2>2 DEF UnitsOf, AssetBalance
    <2>4. DOMAIN held = Address /\ DOMAIN stored = Address
      OBVIOUS
    <2> HIDE DEF held, stored
    <2>5. /\ SumFunction(held) = Units(ledger, id)
          /\ SumFunction(stored) = Units(DiscardChanges(ledger), id)
      BY <2>1, <2>3, <2>4 DEF SumFunction, Units
    <2> QED
      BY <2>2, <2>5 DEF UnitsInv, Supplied, held, stored
  <1> QED
    BY <1>1, UnitsInvariant, LedgerTypeCorrect, PTL

-----------------------------------------------------------------------------
(* Nonces. *)

(* The positions of a sender's transactions, and the nonce in storage.     *)
SentBy(a, txs, positions) == {i \in positions : txs[i].sender = a}
StoredNonce(st, a) == Lookup(st.accounts, a, NewAccount).nonce

(* NoncesConsecutive for the empty address too, and no transaction is left *)
(* over between blocks: otherwise BeginBlock would start with them.        *)
NonceInv ==
    /\ phase = "idle" => done = <<>>
    /\ phase = "executing" =>
          /\ \A a \in Address : GetNonce(ledger, a) =
                StoredNonce(ledger, a) + Cardinality(SentBy(a, done, DOMAIN done))
          /\ \A i \in DOMAIN done : done[i].nonce = StoredNonce(ledger, done[i].sender)
                + Cardinality(SentBy(done[i].sender, done, 1 .. i - 1))

(* One more transaction adds its position to its sender's, and leaves      *)
(* what was counted before.                                                *)
LEMMA SentByAppend ==
    ASSUME NEW T, NEW txs \in Seq(T), NEW tx \in T
    PROVE  LET more == Append(txs, tx)
           IN  /\ Cardinality(SentBy(tx.sender, more, DOMAIN more))
                     = Cardinality(SentBy(tx.sender, txs, DOMAIN txs)) + 1
               /\ \A a : a # tx.sender => SentBy(a, more, DOMAIN more)
                                            = SentBy(a, txs, DOMAIN txs)
               /\ \A a : \A i \in DOMAIN more :
                     SentBy(a, more, 1 .. i - 1) = SentBy(a, txs, 1 .. i - 1)
               /\ Cardinality(SentBy(tx.sender, txs, DOMAIN txs)) \in Nat
  <1> DEFINE more == Append(txs, tx)
             n == Len(txs)
             old == SentBy(tx.sender, txs, DOMAIN txs)
  <1>1. /\ n \in Nat /\ DOMAIN txs = 1 .. n /\ DOMAIN more = 1 .. n + 1
        /\ more[n + 1] = tx /\ \A i \in 1 .. n : more[i] = txs[i]
    OBVIOUS
  <1> HIDE DEF more, n
  <1>2. SentBy(tx.sender, more, DOMAIN more) = old \cup {n + 1}
    BY <1>1 DEF SentBy
  <1>3. IsFiniteSet(old) /\ n + 1 \notin old
    <2>1. old \subseteq 1 .. n
      BY <1>1 DEF SentBy
    <2>2. IsFiniteSet(1 .. n)
      BY <1>1, FS_Interval
    <2> HIDE DEF old
    <2>3. n + 1 \notin old
      BY <1>1, <2>1
    <2> QED
      BY <2>1, <2>2, <2>3, FS_Subset
  <1>4. Cardinality(old \cup {n + 1}) = Cardinality(old) + 1
    BY <1>3, FS_AddElement
  <1>5. Cardinality(old) \in Nat
    BY <1>3, FS_CardinalityType
  <1>6. \A a : a # tx.sender => SentBy(a, more, DOMAIN more)
                                  = SentBy(a, txs, DOMAIN txs)
    BY <1>1 DEF SentBy
  <1>7. \A a : \A i \in DOMAIN more :
            SentBy(a, more, 1 .. i - 1) = SentBy(a, txs, 1 .. i - 1)
    BY <1>1 DEF SentBy
  <1> QED
    BY <1>2, <1>4, <1>5, <1>6, <1>7 DEF more

(* Blocks start with no transactions left over, and nonces count them.     *)
LEMMA NonceInvariant == Spec => []NonceInv
  <1>1. Init => NonceInv
    BY DEF Init, NonceInv
  <1>2. TypeOK /\ NonceInv /\ [Next]_vars => NonceInv'
    <2> SUFFICES ASSUME TypeOK, NonceInv, [Next]_vars PROVE NonceInv'
      OBVIOUS
    <2>0. IsLedger(ledger) /\ done \in Seq(Transactions)
      BY DEF TypeOK
    <2>1. CASE BeginBlock
      <3>1. /\ ledger' = DiscardChanges(ledger) /\ done = <<>> /\ done' = <<>>
            /\ phase' = "executing"
        BY <2>1 DEF BeginBlock, NonceInv
      <3>2. /\ \A a : GetAccount(ledger', a) = Lookup(ledger.accounts, a, NewAccount)
            /\ ledger'.accounts = ledger.accounts
        BY <2>0, <3>1, StoredView
      <3>3. \A a : SentBy(a, done', DOMAIN done') = {}
        BY <3>1 DEF SentBy
      <3>4. \A a \in Address : GetNonce(ledger', a) = StoredNonce(ledger', a) /\ StoredNonce(ledger', a) \in Nat
        <4> SUFFICES ASSUME NEW a \in Address
                     PROVE  GetNonce(ledger', a) = StoredNonce(ledger', a) /\ StoredNonce(ledger', a) \in Nat
          OBVIOUS
        <4>1. GetNonce(ledger', a) = Lookup(ledger.accounts, a, NewAccount).nonce
          BY <3>2 DEF GetNonce
        <4>2. StoredNonce(ledger', a) = Lookup(ledger.accounts, a, NewAccount).nonce
          BY <3>2 DEF StoredNonce
        <4>3. IsAccount(GetAccount(ledger', a))
          BY <2>0, <3>1, DiscardChangesType, GetAccountType
        <4> QED
          BY <3>2, <4>1, <4>2, <4>3 DEF IsAccount, Nonce
      <3>5. Cardinality({}) = 0
        BY FS_EmptySet
      <3>6. DOMAIN done' = {}
        BY <3>1
      <3>7. \A a \in Address : GetNonce(ledger', a) = StoredNonce(ledger', a)
                + Cardinality(SentBy(a, done', DOMAIN done'))
        BY <3>3, <3>4, <3>5
      <3> QED
        BY <3>1, <3>6, <3>7 DEF NonceInv
    <2>2. ASSUME NEW tx \in Transactions, ExecTx(tx) PROVE NonceInv'
      <3> DEFINE t == ProcessTransaction(ledger, tx).st
      <3>1. tx \in Transaction /\ tx.sender \in Address
        BY PipelineAssumption DEF Transaction
      <3>2. /\ ProcessTransaction(ledger, tx).ok /\ ledger' = t
            /\ done' = Append(done, tx) /\ phase = "executing" /\ phase' = "executing"
        BY <2>2 DEF ExecTx
      <3>3. /\ tx.nonce = GetNonce(ledger, tx.sender)
            /\ GetNonce(t, tx.sender) = GetNonce(ledger, tx.sender) + 1
            /\ \A c : c # tx.sender => GetNonce(t, c) = GetNonce(ledger, c)
        BY <2>0, <3>1, <3>2, ExecutedNonces
      <3>4. t.accounts = ledger.accounts
        BY <2>0, <3>1, ProcessTransactionTouches DEF Touches
      <3> HIDE DEF t
      <3>5. \A a : StoredNonce(ledger', a) = StoredNonce(ledger, a)
        BY <3>2, <3>4 DEF StoredNonce
      <3>6. \A a \in Address : GetNonce(ledger, a) \in Nat
        BY <2>0, GetAccountType DEF GetNonce, IsAccount, Nonce
      <3>7. /\ Cardinality(SentBy(tx.sender, done', DOMAIN done'))
                 = Cardinality(SentBy(tx.sender, done, DOMAIN done)) + 1
            /\ \A a : a # tx.sender =>
                 SentBy(a, done', DOMAIN done') = SentBy(a, done, DOMAIN done)
            /\ \A a : \A i \in DOMAIN done' :
                 SentBy(a, done', 1 .. i - 1) = SentBy(a, done, 1 .. i - 1)
            /\ Cardinality(SentBy(tx.sender, done, DOMAIN done)) \in Nat
        BY <2>0, <3>2, SentByAppend
      <3>8. StoredNonce(ledger, tx.sender) \in Nat
        <4>1. IsAccount(GetAccount(DiscardChanges(ledger), tx.sender))
          BY <2>0, DiscardChangesType, GetAccountType
        <4> QED
          BY <2>0, <4>1, StoredView DEF StoredNonce, IsAccount, Nonce
      <3>9. ASSUME NEW a \in Address
            PROVE  GetNonce(ledger', a) = StoredNonce(ledger', a)
                       + Cardinality(SentBy(a, done', DOMAIN done'))
        <4>1. GetNonce(ledger, a) = StoredNonce(ledger, a)
                  + Cardinality(SentBy(a, done, DOMAIN done))
          BY <3>2 DEF NonceInv
        <4>2. CASE a = tx.sender
          BY <3>2, <3>3, <3>5, <3>7, <3>8, <4>1, <4>2
        <4>3. CASE a # tx.sender
          BY <3>2, <3>3, <3>5, <3>7, <4>1, <4>3
        <4> QED
          BY <4>2, <4>3
      <3>10. ASSUME NEW i \in DOMAIN done'
             PROVE  done'[i].nonce = StoredNonce(ledger', done'[i].sender)
                        + Cardinality(SentBy(done'[i].sender, done', 1 .. i - 1))
        <4>1. /\ DOMAIN done = 1 .. Len(done) /\ Len(done) \in Nat
              /\ DOMAIN done' = 1 .. Len(done) + 1
              /\ done'[Len(done) + 1] = tx
              /\ \A j \in DOMAIN done : done'[j] = done[j]
          BY <2>0, <3>2
        <4>2. CASE i = Len(done) + 1
          <5>1. done'[i] = tx /\ 1 .. i - 1 = DOMAIN done
            BY <4>1, <4>2
          <5>2. SentBy(tx.sender, done', 1 .. i - 1) = SentBy(tx.sender, done, DOMAIN done)
            BY <3>7, <5>1
          <5>3. tx.nonce = StoredNonce(ledger, tx.sender)
                    + Cardinality(SentBy(tx.sender, done, DOMAIN done))
            BY <3>1, <3>2, <3>3 DEF NonceInv
          <5> QED
            BY <3>5, <5>1, <5>2, <5>3
        <4>3. CASE i # Len(done) + 1
          <5>1. i \in DOMAIN done /\ done'[i] = done[i]
            BY <4>1, <4>3
          <5>2. done[i].nonce = StoredNonce(ledger, done[i].sender)
                    + Cardinality(SentBy(done[i].sender, done, 1 .. i - 1))
            BY <3>2, <5>1 DEF NonceInv
          <5> QED
            BY <3>5, <3>7, <5>1, <5>2
        <4> QED
          BY <4>2, <4>3
      <3>11. phase' # "idle"
        BY <3>2
      <3> QED
        BY <3>9, <3>10, <3>11 DEF NonceInv
    <2>3. ASSUME NEW tx \in Transactions, RejectBlock(tx) PROVE NonceInv'
      BY <2>3 DEF RejectBlock, Discard, NonceInv
    <2>4. CASE AbandonBlock
      BY <2>4 DEF AbandonBlock, Discard, NonceInv
    <2>5. CASE CommitBlock
      BY <2>5 DEF CommitBlock, NonceInv
    <2>6. CASE IndexTx
      BY <2>6 DEF IndexTx, NonceInv
    <2>7. CASE EndBlock
      BY <2>7 DEF EndBlock, NonceInv
    <2>8. CASE UNCHANGED vars
      BY <2>8 DEF vars, NonceInv, StoredNonce
    <2> QED
      BY <2>1, <2>2, <2>3, <2>4, <2>5, <2>6, <2>7, <2>8 DEF Next
  <1> QED
    BY <1>1, <1>2, LedgerTypeCorrect, PTL DEF Spec

(* Inside a block a sender's transactions carry consecutive nonces from    *)
(* the stored one on, whatever else they do and whoever else sends: no     *)
(* transaction runs twice in a block (apply_transaction, state.rs).        *)
THEOREM NoncesConsecutiveCorrect == Spec => []NoncesConsecutive
  <1>1. NonceInv => NoncesConsecutive
    BY DEF NonceInv, NoncesConsecutive, SentBy, StoredNonce, Address
  <1> QED
    BY <1>1, NonceInvariant, PTL

-----------------------------------------------------------------------------
(* Items of collections. *)

(* How often an account lists an item; who owns it by a registry.          *)
Listed(st, a, nft) == Lookup(GetAccount(st, a).nfts, nft, 0)
Owners(collections, nft) ==
    IF /\ nft[1] \in DOMAIN collections
       /\ nft[2] \in DOMAIN collections[nft[1]].owner
    THEN {collections[nft[1]].owner[nft[2]]}
    ELSE {}

(* The accounts list the items as the registry says, also those items that *)
(* have no owner.                                                          *)
ListsOwners(collections, st) ==
    \A nft \in NftId, a \in Address :
        Listed(st, a, nft) = IF a \in Owners(collections, nft) THEN 1 ELSE 0

(* ListsOwners is about the accounts' lists only.                          *)
LEMMA SameLists ==
    ASSUME NEW s, NEW t, NEW collections,
           \A a : GetAccount(t, a).nfts = GetAccount(s, a).nfts
    PROVE  ListsOwners(collections, s) <=> ListsOwners(collections, t)
  BY DEF ListsOwners, Listed

(* Setting the owner of an item changes who owns that item.                *)
LEMMA SetOwnerOwners ==
    ASSUME NEW st, IsLedger(st), NEW id \in DOMAIN st.collections,
           NEW item \in Items, NEW to \in Address
    PROVE  LET t == SetOwner(st, id, item, to)
           IN  /\ IsLedger(t)
               /\ \A nft \in NftId : Owners(t.collections, nft) =
                     IF nft = <<id, item>> THEN {to} ELSE Owners(st.collections, nft)
               /\ \A a : GetAccount(t, a) = GetAccount(st, a)
               /\ \A a : HasAccount(t, a) <=> HasAccount(st, a)
  <1> DEFINE t == SetOwner(st, id, item, to)
             o == st.collections[id].owner
  <1>1. /\ DOMAIN t.collections = DOMAIN st.collections
        /\ \A c \in DOMAIN st.collections :
              c # id => t.collections[c] = st.collections[c]
        /\ t.collections[id].owner = Put(o, item, to)
    BY SetOwnerTouches
  <1>2. IsLedger(t)
    BY SetOwnerType
  <1>3. t.pending = st.pending /\ t.accounts = st.accounts
    BY DEF SetOwner, IsLedger
  <1> HIDE DEF t
  <1>4. DOMAIN Put(o, item, to) = DOMAIN o \cup {item}
        /\ \A i \in DOMAIN o \cup {item} :
              Put(o, item, to)[i] = IF i = item THEN to ELSE o[i]
    BY DEF Put
  <1>5. ASSUME NEW nft \in NftId
        PROVE  Owners(t.collections, nft) =
                   IF nft = <<id, item>> THEN {to} ELSE Owners(st.collections, nft)
    <2>1. nft = <<nft[1], nft[2]>>
      BY DEF NftId
    <2>2. nft = <<id, item>> <=> nft[1] = id /\ nft[2] = item
      BY <2>1
    <2>3. CASE nft[1] = id
      BY <1>1, <1>4, <2>2, <2>3 DEF Owners
    <2>4. CASE nft[1] # id
      BY <1>1, <2>2, <2>4 DEF Owners
    <2> QED
      BY <2>3, <2>4
  <1>6. \A a : GetAccount(t, a) = GetAccount(st, a)
    BY <1>3 DEF GetAccount
  <1>7. \A a : HasAccount(t, a) <=> HasAccount(st, a)
    BY <1>3 DEF HasAccount
  <1> QED
    BY <1>2, <1>5, <1>6, <1>7 DEF t

(* Pushing an item lists it once more, removing it lists it no more.       *)
LEMMA PushListed ==
    ASSUME NEW st, IsLedger(st), NEW to, NEW nft
    PROVE  LET t == PushNft(st, to, nft)
           IN  \A a, n : Listed(t, a, n) =
                 IF a = to /\ n = nft THEN Listed(st, a, n) + 1 ELSE Listed(st, a, n)
  <1> DEFINE t == PushNft(st, to, nft)
             old == GetAccount(st, to).nfts
  <1>1. /\ GetAccount(t, to).nfts = Put(old, nft, Lookup(old, nft, 0) + 1)
        /\ \A c : c # to => GetAccount(t, c).nfts = GetAccount(st, c).nfts
    BY PushNftTouches
  <1> HIDE DEF t
  <1> QED
    BY <1>1 DEF Listed, Lookup, Put, t

(* Removing it lists it no more.                                           *)
LEMMA RemoveListed ==
    ASSUME NEW st, IsLedger(st), NEW from, NEW nft
    PROVE  LET t == RemoveNft(st, from, nft)
           IN  \A a, n : Listed(t, a, n) =
                 IF a = from /\ n = nft THEN 0 ELSE Listed(st, a, n)
  <1> DEFINE t == RemoveNft(st, from, nft)
             old == GetAccount(st, from).nfts
  <1>1. /\ GetAccount(t, from).nfts = Drop(old, nft)
        /\ \A c : c # from => GetAccount(t, c).nfts = GetAccount(st, c).nfts
    BY RemoveNftTouches
  <1> HIDE DEF t
  <1> QED
    BY <1>1 DEF Listed, Lookup, Drop, t

(* A transaction that executes keeps lists and registry in step.           *)
LEMMA ProcessTransactionLists ==
    ASSUME NEW st, IsLedger(st), NEW tx \in Transaction,
           ProcessTransaction(st, tx).ok, ListsOwners(st.collections, st)
    PROVE  LET t == ProcessTransaction(st, tx).st IN ListsOwners(t.collections, t)
  <1> DEFINE arm == Dispatch(st, tx)
             t == arm.st
             type == tx.data.type
             id == tx.data.id
             item == tx.data.item
             nft == <<id, item>>
  <1>1. /\ arm.ok /\ IsLedger(t)
        /\ ProcessTransaction(st, tx).st = IncrementNonce(t, tx.sender)
    BY ProcessTransactionSteps, DispatchType DEF IsOutcome
  <1>2. tx.data \in TransactionData /\ tx.sender \in Address /\ tx.receiver \in Address
    BY DEF Transaction
  <1>3. ListsOwners(t.collections, t)
    <2>1. CASE type = "MintNFT"
      <3> DEFINE to == tx.data.recipient
                 owned == SetOwner(st, id, item, to)
      <3>1. item \in Items /\ to \in Address
        BY <1>2, <2>1, DataType
      <3>2. /\ id \in DOMAIN st.collections
            /\ item \notin DOMAIN st.collections[id].owner
            /\ t = PushNft(owned, to, nft)
        BY <1>1, <2>1 DEF Dispatch, MintNFT, Ok, Err
      <3>3. nft \in NftId /\ Owners(st.collections, nft) = {}
        BY <3>1, <3>2 DEF NftId, Owners, IsLedger
      <3>4. /\ IsLedger(owned)
            /\ \A n \in NftId : Owners(owned.collections, n) =
                  IF n = nft THEN {to} ELSE Owners(st.collections, n)
            /\ \A a : GetAccount(owned, a) = GetAccount(st, a)
        <4> HIDE DEF to
        <4> QED
          BY <3>1, <3>2, SetOwnerOwners
      <3> HIDE DEF owned, t, nft
      <3>5. t.collections = owned.collections
        BY <3>2, <3>4, PushNftTouches DEF Touches
      <3>6. \A a, n : Listed(t, a, n) =
              IF a = to /\ n = nft THEN Listed(owned, a, n) + 1 ELSE Listed(owned, a, n)
        BY <3>2, <3>4, PushListed
      <3>7. \A a, n : Listed(owned, a, n) = Listed(st, a, n)
        BY <3>4 DEF Listed
      <3>8. \A a \in Address : Listed(st, a, nft) = 0
        BY <3>3 DEF ListsOwners
      <3> QED
        BY <3>3, <3>4, <3>5, <3>6, <3>7, <3>8 DEF ListsOwners
    <2>2. CASE type = "TransferNFT"
      <3> DEFINE from == tx.sender
                 to == tx.receiver
                 owned == SetOwner(st, id, item, to)
                 left == RemoveNft(owned, from, nft)
      <3>1. item \in Items
        BY <1>2, <2>2, DataType
      <3>2. /\ id \in DOMAIN st.collections
            /\ item \in DOMAIN st.collections[id].owner
            /\ st.collections[id].owner[item] = from
            /\ t = PushNft(left, to, nft)
        BY <1>1, <2>2 DEF Dispatch, TransferNFT, Ok, Err
      <3>3. nft \in NftId /\ Owners(st.collections, nft) = {from}
        BY <3>1, <3>2 DEF NftId, Owners, IsLedger
      <3>4. /\ IsLedger(owned)
            /\ \A n \in NftId : Owners(owned.collections, n) =
                  IF n = nft THEN {to} ELSE Owners(st.collections, n)
            /\ \A a : GetAccount(owned, a) = GetAccount(st, a)
        <4>1. to \in Address
          BY <1>2
        <4> HIDE DEF to
        <4> QED
          BY <3>1, <3>2, <4>1, SetOwnerOwners
      <3> HIDE DEF owned, t, nft
      <3>5. /\ IsLedger(left) /\ left.collections = owned.collections
            /\ \A a, n : Listed(left, a, n) =
                  IF a = from /\ n = nft THEN 0 ELSE Listed(owned, a, n)
        BY <1>2, <3>4, RemoveNftType, RemoveNftTouches, RemoveListed DEF Touches
      <3> HIDE DEF left
      <3>6. /\ t.collections = left.collections
            /\ \A a, n : Listed(t, a, n) =
                  IF a = to /\ n = nft THEN Listed(left, a, n) + 1 ELSE Listed(left, a, n)
        BY <3>2, <3>5, PushNftTouches, PushListed DEF Touches
      <3>7. \A a, n : Listed(owned, a, n) = Listed(st, a, n)
        BY <3>4 DEF Listed
      <3>8. \A a \in Address : Listed(left, a, nft) = 0
        BY <3>3, <3>5, <3>7 DEF ListsOwners
      <3>9. ASSUME NEW n \in NftId, NEW a \in Address
            PROVE  Listed(t, a, n) = IF a \in Owners(t.collections, n) THEN 1 ELSE 0
        <4>1. CASE n = nft
          BY <3>3, <3>4, <3>5, <3>6, <3>8, <4>1
        <4>2. CASE n # nft
          BY <3>4, <3>5, <3>6, <3>7, <4>2 DEF ListsOwners
        <4> QED
          BY <4>1, <4>2
      <3> QED
        BY <3>9 DEF ListsOwners
    <2>3. CASE type = "CreateCollection"
      <3> DEFINE new == AssetIdOf(tx)
                 c == [issuer |-> tx.sender, owner |-> EmptyMap]
      <3>1. new \notin DOMAIN st.collections
            /\ t = [st EXCEPT !.collections = Put(st.collections, new, c)]
        BY <1>1, <2>3 DEF Dispatch, CreateCollection, Ok, Err
      <3>2. t.collections = Put(st.collections, new, c)
            /\ \A a : GetAccount(t, a) = GetAccount(st, a)
        BY <3>1 DEF IsLedger, GetAccount
      <3>3. DOMAIN c.owner = {}
        BY DEF EmptyMap
      <3> HIDE DEF t, new, c
      <3>4. \A n : Owners(t.collections, n) = Owners(st.collections, n)
        BY <3>1, <3>2, <3>3 DEF Owners, Put
      <3> QED
        BY <3>2, <3>4 DEF ListsOwners, Listed
    <2>4. CASE type \notin {"MintNFT", "TransferNFT", "CreateCollection"}
      <3>1. Touches(PartsOf(type), st, t)
        BY DispatchTouches
      <3>2. "items" \notin PartsOf(type) /\ "collections" \notin PartsOf(type)
        BY <2>4 DEF PartsOf
      <3> HIDE DEF t
      <3>3. /\ t.collections = st.collections
            /\ \A a : GetAccount(t, a).nfts = GetAccount(st, a).nfts
        BY <3>1, <3>2 DEF Touches
      <3> QED
        BY <3>3, SameLists
    <2> QED
      BY <2>1, <2>2, <2>3, <2>4
  <1> DEFINE last == IncrementNonce(t, tx.sender)
  <1>4. Touches({"nonce"}, t, last)
    BY <1>1, IncrementNonceTouches
  <1> HIDE DEF t, last
  <1>5. /\ last.collections = t.collections
        /\ \A a : GetAccount(last, a).nfts = GetAccount(t, a).nfts
    BY <1>4 DEF Touches
  <1>6. ListsOwners(last.collections, last)
    BY <1>3, <1>5, SameLists
  <1> QED
    BY <1>1, <1>6 DEF last

(* While a block executes, the overlay is in step with the registry and    *)
(* storage with the registry as it was before the block; otherwise both    *)
(* are with the registry.                                                  *)
ItemsInv ==
    intact =>
        /\ ListsOwners(ledger.collections, ledger)
        /\ phase = "executing" => ListsOwners(before[2], DiscardChanges(ledger))
        /\ phase # "executing" =>
              ListsOwners(ledger.collections, DiscardChanges(ledger))

(* The accounts at the start list no items: a new chain.                   *)
NoItemsAtStart ==
    \A a \in DOMAIN InitialAccounts : InitialAccounts[a].nfts = EmptyMap

(* Lists and registry stay in step, as long as no discarded block has      *)
(* left its mark.                                                          *)
LEMMA ItemsInvariant ==
    ASSUME NoItemsAtStart
    PROVE  Spec => []ItemsInv
  <1>1. Init => ItemsInv
    <2> SUFFICES ASSUME Init PROVE ItemsInv
      OBVIOUS
    <2>1. /\ ledger.accounts = InitialAccounts /\ ledger.pending = EmptyMap
          /\ ledger.collections = EmptyMap /\ IsLedger(ledger)
      BY PipelineAssumption, OpenLedgerType DEF Init, OpenLedger
    <2>2. DOMAIN EmptyMap = {} /\ NewAccount.nfts = EmptyMap
      BY DEF EmptyMap, NewAccount
    <2>3. \A a : GetAccount(ledger, a).nfts = EmptyMap
      BY <2>1, <2>2 DEF GetAccount, Lookup, NoItemsAtStart
    <2>4. ListsOwners(ledger.collections, ledger)
      BY <2>1, <2>2, <2>3 DEF ListsOwners, Listed, Lookup, Owners
    <2>5. DiscardChanges(ledger) = ledger
      BY <2>1 DEF DiscardChanges, IsLedger
    <2> QED
      BY <2>4, <2>5 DEF ItemsInv, Init
  <1>2. TypeOK /\ ItemsInv /\ [Next]_vars => ItemsInv'
    <2> SUFFICES ASSUME TypeOK, ItemsInv, [Next]_vars PROVE ItemsInv'
      OBVIOUS
    <2>0. /\ IsLedger(ledger) /\ DiscardChanges(ledger).collections = ledger.collections
          /\ DiscardChanges(DiscardChanges(ledger)) = DiscardChanges(ledger)
      BY StoredView DEF TypeOK
    <2>1. CASE BeginBlock
      <3>1. /\ ledger' = DiscardChanges(ledger) /\ before'[2] = ledger.collections
            /\ phase = "idle" /\ phase' = "executing" /\ intact' = intact
        BY <2>1 DEF BeginBlock, Registries
      <3> QED
        BY <2>0, <3>1 DEF ItemsInv
    <2>2. ASSUME NEW tx \in Transactions
          PROVE  LET out == ProcessTransaction(ledger, tx)
                 IN  /\ IsLedger(out.st)
                     /\ \A a : GetAccount(DiscardChanges(out.st), a)
                                  = GetAccount(DiscardChanges(ledger), a)
                     /\ out.ok /\ ListsOwners(ledger.collections, ledger)
                           => ListsOwners(out.st.collections, out.st)
      <3> DEFINE t == ProcessTransaction(ledger, tx).st
      <3>1. tx \in Transaction
        BY PipelineAssumption
      <3>2. IsLedger(t) /\ t.accounts = ledger.accounts
        BY <2>0, <3>1, ProcessTransactionType, ProcessTransactionTouches
           DEF IsOutcome, Touches
      <3>3. \A a : GetAccount(DiscardChanges(t), a) = GetAccount(DiscardChanges(ledger), a)
        <4> HIDE DEF t
        <4> QED
          BY <2>0, <3>2, StoredView
      <3> QED
        BY <2>0, <3>1, <3>2, <3>3, ProcessTransactionLists
    <2>3. ASSUME NEW tx \in Transactions, ExecTx(tx) PROVE ItemsInv'
      <3>1. /\ ProcessTransaction(ledger, tx).ok
            /\ ledger' = ProcessTransaction(ledger, tx).st
            /\ phase = "executing" /\ phase' = "executing"
            /\ intact' = intact /\ before' = before
        BY <2>3 DEF ExecTx
      <3> QED
        BY <2>2, <3>1, SameLists DEF ItemsInv
    <2>4. ASSUME NEW st, IsLedger(st), Discard(st), phase = "executing",
                 \A a : GetAccount(DiscardChanges(st), a)
                           = GetAccount(DiscardChanges(ledger), a)
          PROVE  ItemsInv'
      <3>1. /\ ledger' = DiscardChanges(st) /\ phase' = "idle"
            /\ intact' => intact /\ st.collections = before[2]
        <4>1. Registries(st)[2] = st.collections
          BY DEF Registries
        <4> QED
          BY <2>4, <4>1 DEF Discard
      <3>2. /\ DiscardChanges(ledger') = ledger' /\ ledger'.collections = st.collections
            /\ \A a : GetAccount(ledger', a) = GetAccount(DiscardChanges(ledger), a)
        BY <2>4, <3>1, StoredView
      <3> QED
        BY <2>4, <3>1, <3>2, SameLists DEF ItemsInv
    <2>5. ASSUME NEW tx \in Transactions, RejectBlock(tx) PROVE ItemsInv'
      BY <2>2, <2>4, <2>5 DEF RejectBlock
    <2>6. CASE AbandonBlock
      BY <2>0, <2>4, <2>6 DEF AbandonBlock
    <2>7. CASE CommitBlock
      <3>1. ledger' = ApplyChanges(ledger) /\ phase' = "indexing" /\ intact' = intact
        BY <2>7 DEF CommitBlock
      <3>2. /\ ledger'.collections = ledger.collections
            /\ DiscardChanges(ledger') = ledger'
            /\ \A a : GetAccount(ledger', a) = GetAccount(ledger, a)
        BY <2>0, <3>1, CommittedView
      <3> QED
        BY <3>1, <3>2, SameLists DEF ItemsInv
    <2>8. CASE IndexTx
      <3> DEFINE tx == Head(done)
                 n == validators.members[tx.sender].stake
      <3>1. /\ ledger' = ledger \/ ledger' = Credit(ledger, tx.sender, n)
            /\ phase = "indexing" /\ phase' = phase /\ intact' = intact
        BY <2>8 DEF IndexTx
      <3>2. Touches({"balance"}, ledger, Credit(ledger, tx.sender, n))
        BY <2>0, CreditTouches
      <3>3. DiscardChanges(Credit(ledger, tx.sender, n)) = DiscardChanges(ledger)
        BY <2>0 DEF Credit, SetBalance, Stage, DiscardChanges, IsLedger
      <3> HIDE DEF tx, n
      <3>4. /\ ledger'.collections = ledger.collections
            /\ DiscardChanges(ledger') = DiscardChanges(ledger)
            /\ \A a : GetAccount(ledger', a).nfts = GetAccount(ledger, a).nfts
        BY <3>1, <3>2, <3>3 DEF Touches
      <3> QED
        BY <3>1, <3>4, SameLists DEF ItemsInv
    <2>9. CASE EndBlock
      BY <2>9 DEF EndBlock, ItemsInv
    <2>10. CASE UNCHANGED vars
      BY <2>10 DEF vars, ItemsInv
    <2> QED
      BY <2>1, <2>3, <2>5, <2>6, <2>7, <2>8, <2>9, <2>10 DEF Next
  <1> QED
    BY <1>1, <1>2, LedgerTypeCorrect, PTL DEF Spec

(* Every item of a collection is listed by the account that the registry   *)
(* names as its owner, once, and by no other, as long as no discarded      *)
(* block has left its mark on the registry.                                *)
THEOREM OwnerListsItemCorrect ==
    ASSUME NoItemsAtStart
    PROVE  Spec => []OwnerListsItem
  <1>1. TypeOK /\ ItemsInv => OwnerListsItem
    <2> SUFFICES ASSUME TypeOK, ItemsInv, intact,
                        NEW id \in DOMAIN ledger.collections,
                        NEW item \in DOMAIN ledger.collections[id].owner,
                        NEW a \in Address
                 PROVE  Lookup(GetAccount(ledger, a).nfts, <<id, item>>, 0) =
                          IF a = ledger.collections[id].owner[item] THEN 1 ELSE 0
      BY DEF OwnerListsItem
    <2>1. <<id, item>> \in NftId
      BY DEF TypeOK, IsLedger, IsCollection, IsMap, NftId
    <2>2. Owners(ledger.collections, <<id, item>>)
            = {ledger.collections[id].owner[item]}
      BY DEF Owners
    <2> QED
      BY <2>1, <2>2 DEF ItemsInv, ListsOwners, Listed
  <1> QED
    BY <1>1, ItemsInvariant, LedgerTypeCorrect, PTL

-----------------------------------------------------------------------------
(* Native coins. *)

DepositsOf(channels) == [id \in DOMAIN channels |-> Deposit(channels[id])]
Deposits(channels) == SumFunctionOnSet(DepositsOf(channels), DOMAIN channels)

IsChannels(channels) ==
    IsMap(channels, AssetId, Channel) /\ IsFiniteSet(DOMAIN channels)

(* Deposits are natural numbers, and so is their sum.                      *)
LEMMA DepositsType ==
    ASSUME NEW channels, IsChannels(channels)
    PROVE  /\ Deposits(channels) \in Nat
           /\ \A id \in DOMAIN channels : DepositsOf(channels)[id] \in Nat
  <1>1. \A id \in DOMAIN channels : channels[id] \in Channel
    BY DEF IsChannels, IsMap
  <1>2. \A c \in Channel : c.total_deposit \in Nat
    BY DEF Channel, U64
  <1>3. \A id \in DOMAIN channels : DepositsOf(channels)[id] \in Nat
    BY <1>1, <1>2 DEF DepositsOf, Deposit
  <1> QED
    BY <1>3, SumNat DEF Deposits, IsChannels

(* A channel that is opened adds its deposit,                              *)
LEMMA OpenDeposits ==
    ASSUME NEW channels, IsChannels(channels), NEW id \in AssetId,
           id \notin DOMAIN channels, NEW c \in Channel
    PROVE  LET more == Put(channels, id, c)
           IN  IsChannels(more) /\ Deposits(more) = Deposits(channels) + Deposit(c)
  <1> DEFINE more == Put(channels, id, c)
             D == DOMAIN channels
  <1>1. /\ DOMAIN more = D \cup {id} /\ more[id] = c
        /\ \A k \in D : more[k] = channels[k]
    BY DEF Put
  <1>2. IsMap(more, AssetId, Channel)
    BY PutType DEF IsChannels
  <1> HIDE DEF more
  <1>3. IsFiniteSet(D) /\ IsFiniteSet(D \cup {id})
    BY FS_AddElement DEF IsChannels
  <1>4. Deposit(c) \in Int
    BY DEF Deposit, Channel, U64
  <1>5. /\ DepositsOf(more)[id] = Deposit(c)
        /\ \A k \in D : DepositsOf(more)[k] = DepositsOf(channels)[k]
    BY <1>1 DEF DepositsOf
  <1>6. \A k \in D : DepositsOf(channels)[k] \in Int
    BY DepositsType
  <1>7. SumFunctionOnSet(DepositsOf(more), D \cup {id})
          = DepositsOf(more)[id] + SumFunctionOnSet(DepositsOf(more), D)
    BY <1>3, <1>4, <1>5, <1>6, SumAdd
  <1>8. SumFunctionOnSet(DepositsOf(more), D)
          = SumFunctionOnSet(DepositsOf(channels), D)
    BY <1>3, <1>5, SumEqual
  <1>9. Deposits(more) = Deposit(c) + Deposits(channels)
    BY <1>1, <1>5, <1>7, <1>8 DEF Deposits
  <1>10. Deposits(channels) \in Int
    BY DepositsType
  <1> QED
    BY <1>1, <1>2, <1>3, <1>4, <1>9, <1>10 DEF IsChannels, more

(* and one that is closed no longer counts.                                *)
LEMMA CloseDeposits ==
    ASSUME NEW channels, IsChannels(channels), NEW id \in DOMAIN channels,
           ~channels[id].is_closed
    PROVE  LET less == Put(channels, id, [channels[id] EXCEPT !.is_closed = TRUE])
           IN  /\ IsChannels(less)
               /\ Deposits(less) = Deposits(channels) - channels[id].total_deposit
  <1> DEFINE c == channels[id]
             d == [c EXCEPT !.is_closed = TRUE]
             less == Put(channels, id, d)
             D == DOMAIN channels
  <1>1. c \in Channel /\ id \in AssetId
    BY DEF IsChannels, IsMap
  <1>2. d \in Channel /\ d.is_closed = TRUE
    BY <1>1 DEF Channel
  <1> HIDE DEF d
  <1>3. /\ DOMAIN less = D /\ less[id] = d
        /\ \A k \in D \ {id} : less[k] = channels[k]
    BY DEF Put
  <1>4. IsMap(less, AssetId, Channel)
    BY <1>1, <1>2, PutType DEF IsChannels
  <1> HIDE DEF less
  <1>5. /\ DepositsOf(less)[id] = 0
        /\ DepositsOf(channels)[id] = c.total_deposit
        /\ \A k \in D \ {id} : DepositsOf(channels)[k] = DepositsOf(less)[k]
    BY <1>2, <1>3 DEF DepositsOf, Deposit
  <1>6. \A k \in D : DepositsOf(channels)[k] \in Int
    BY DepositsType
  <1>7. IsFiniteSet(D) /\ Deposits(channels) \in Int
    BY DepositsType DEF IsChannels
  <1>8. SumFunctionOnSet(DepositsOf(less), D)
          = SumFunctionOnSet(DepositsOf(channels), D)
              - DepositsOf(channels)[id] + DepositsOf(less)[id]
    BY <1>5, <1>6, <1>7, SumChange
  <1>9. Deposits(less) = Deposits(channels) - c.total_deposit + 0
    BY <1>3, <1>5, <1>8 DEF Deposits
  <1>10. c.total_deposit \in Int
    BY <1>1 DEF Channel, U64
  <1> QED
    BY <1>3, <1>4, <1>7, <1>9, <1>10 DEF IsChannels, less, d

(* The coins of accounts and channels together.                            *)
Wealth(st) == Coins(st) + Deposits(st.channels)

(* It is a natural number.                                                 *)
LEMMA WealthType ==
    ASSUME NEW st, IsLedger(st), IsChannels(st.channels)
    PROVE  Wealth(st) \in Nat
  <1>1. Coins(st) \in Nat /\ Deposits(st.channels) \in Nat
    BY CoinsType, DepositsType
  <1> QED
    BY <1>1 DEF Wealth

(* Opening a channel moves the deposit into it.                            *)
LEMMA OpenChannelWealth ==
    ASSUME NEW st, IsLedger(st), IsChannels(st.channels),
           NEW tx \in Transaction, tx.data.type = "OpenChannel",
           OpenChannel(st, tx).ok
    PROVE  LET t == OpenChannel(st, tx).st
           IN  IsChannels(t.channels) /\ Wealth(t) = Wealth(st)
  <1> DEFINE n == tx.data.amount
             id == AssetIdOf(tx)
             paid == Debit(st, tx.sender, n)
             c == [partner_a |-> tx.sender, partner_b |-> tx.data.partner,
                   total_deposit |-> n, is_closed |-> FALSE]
             m == Put(st.channels, id, c)
             t == [paid EXCEPT !.channels = m]
  <1>1. n \in U64 /\ tx.data.partner \in Address /\ tx.sender \in Address /\ id \in AssetId
    BY DataType, AssetIdOfType DEF Transaction
  <1>2. /\ CanPay(st, tx.sender, n) /\ id \notin DOMAIN st.channels
        /\ OpenChannel(st, tx).st = t
    BY DEF OpenChannel, Ok, Err
  <1>3. c \in Channel /\ Deposit(c) = n
    BY <1>1 DEF Channel, Deposit
  <1> HIDE DEF c, id
  <1>4. IsChannels(m) /\ Deposits(m) = Deposits(st.channels) + n
    BY <1>1, <1>2, <1>3, OpenDeposits
  <1>5. IsLedger(paid) /\ Coins(paid) = Coins(st) - n
    BY <1>1, <1>2, DebitType, DebitCoins
  <1> HIDE DEF paid, m
  <1>6. t.channels = m /\ Coins(t) = Coins(paid)
    BY <1>5, RegistriesTouch, CoinsUntouched
  <1>7. Coins(st) \in Int /\ Deposits(st.channels) \in Int /\ n \in Int
    BY <1>1, CoinsType, DepositsType DEF U64
  <1> HIDE DEF t, n
  <1>8. Wealth(t) = Wealth(st)
    BY <1>4, <1>5, <1>6, <1>7 DEF Wealth
  <1> QED
    BY <1>2, <1>4, <1>6, <1>8

(* Closing it pays its deposit out, up to a multiple of the width: the     *)
(* final balances are compared with the deposit after a wrapping addition. *)
LEMMA CloseChannelWealth ==
    ASSUME NEW st, IsLedger(st), IsChannels(st.channels),
           NEW tx \in Transaction, tx.data.type = "CloseChannel",
           CloseChannel(st, tx).ok
    PROVE  LET t == CloseChannel(st, tx).st
           IN  IsChannels(t.channels) /\ Congruent(Wealth(t), Wealth(st))
  <1> DEFINE id == tx.data.id
             c == st.channels[id]
             a == tx.data.final_balance_a
             b == tx.data.final_balance_b
             closed == MarkClosed(st, id)
             one == Credit(closed, c.partner_a, a)
             two == Credit(one, c.partner_b, b)
             dep == c.total_deposit
             less == Put(st.channels, id, [c EXCEPT !.is_closed = TRUE])
  <1>1. a \in U64 /\ b \in U64
    BY DataType DEF Transaction
  <1>2. /\ id \in DOMAIN st.channels /\ ~c.is_closed /\ Add64(a, b) = dep
        /\ CloseChannel(st, tx).st = two
    BY DEF CloseChannel, PayOut, Ok, Err
  <1>3. /\ c.partner_a \in Address /\ c.partner_b \in Address /\ dep \in U64
    BY <1>2 DEF IsChannels, IsMap, Channel
  <1>4. a \in Nat /\ b \in Nat /\ dep \in Nat
    BY <1>1, <1>3 DEF U64
  <1>5. IsChannels(less) /\ Deposits(less) = Deposits(st.channels) - dep
    BY <1>2, CloseDeposits
  <1>6. /\ IsLedger(closed) /\ closed.channels = less
        /\ Coins(closed) = Coins(st)
    BY <1>2, MarkClosedType, MarkClosedTouches, CoinsUntouched
  <1> HIDE DEF less, closed, c, a, b
  <1>7. /\ IsLedger(one) /\ one.channels = less
        /\ Congruent(Coins(one), Coins(closed) + a)
    <2>1. IsLedger(one)
      BY <1>3, <1>4, <1>6, CreditType
    <2>2. one.channels = less
      BY <1>6, CreditTouches DEF Touches
    <2>3. Congruent(Coins(one), Coins(closed) + a)
      BY <1>3, <1>4, <1>6, CreditCoins
    <2> QED
      BY <2>1, <2>2, <2>3
  <1> HIDE DEF one
  <1>8. /\ two.channels = less /\ IsLedger(two)
        /\ Congruent(Coins(two), Coins(one) + b)
    <2>1. IsLedger(two)
      BY <1>3, <1>4, <1>7, CreditType
    <2>2. two.channels = less
      BY <1>7, CreditTouches DEF Touches
    <2>3. Congruent(Coins(two), Coins(one) + b)
      BY <1>3, <1>4, <1>7, CreditCoins
    <2> QED
      BY <2>1, <2>2, <2>3
  <1> HIDE DEF two
  <1>9. Congruent(dep, a + b)
    BY <1>2, <1>4, Add64Rules
  <1>10. PICK x \in Int, y \in Int, z \in Int, d \in Int :
            x = Coins(st) /\ y = Coins(one) /\ z = Coins(two) /\ d = Deposits(st.channels)
    <2>1. Coins(st) \in Nat /\ Coins(one) \in Nat /\ Coins(two) \in Nat
          /\ Deposits(st.channels) \in Nat
      BY <1>7, <1>8, CoinsType, DepositsType
    <2> QED
      BY <2>1
  <1>11. PICK k \in Int, l \in Int, j \in Int :
            /\ y = (x + a) + k * U64Mod
            /\ z = (y + b) + l * U64Mod
            /\ dep = (a + b) + j * U64Mod
    BY <1>6, <1>7, <1>8, <1>9, <1>10 DEF Congruent
  <1> DEFINE i == k + l - j
  <1>12. z + (d - dep) = (x + d) + i * U64Mod /\ i \in Int
    BY <1>4, <1>11, LedgerAssumption
  <1>13. /\ Wealth(two) = z + (d - dep) /\ Wealth(st) = x + d
    BY <1>5, <1>8, <1>10 DEF Wealth
  <1> HIDE DEF i
  <1>14. Congruent(Wealth(two), Wealth(st))
    BY <1>12, <1>13 DEF Congruent
  <1> QED
    BY <1>2, <1>5, <1>8, <1>14

(* An arm that succeeds conserves coins and those it bonds, up to a        *)
(* multiple of the width.                                                  *)
LEMMA DispatchWealth ==
    ASSUME NEW st, IsLedger(st), IsChannels(st.channels), NEW tx \in Transaction,
           Dispatch(st, tx).ok
    PROVE  LET t == Dispatch(st, tx).st
           IN  /\ IsChannels(t.channels)
               /\ Congruent(Wealth(t) + BondedBy(tx), Wealth(st))
  <1> DEFINE type == tx.data.type
             t == Dispatch(st, tx).st
  <1>1. IsLedger(t) /\ Touches(PartsOf(type), st, t)
    BY DispatchType, DispatchTouches DEF IsOutcome
  <1>2. Wealth(st) \in Nat /\ Coins(st) \in Nat /\ Deposits(st.channels) \in Nat
    BY WealthType, CoinsType, DepositsType
  <1>3. ASSUME type # "RegisterValidator", IsChannels(t.channels),
               Congruent(Wealth(t), Wealth(st))
        PROVE  Congruent(Wealth(t) + BondedBy(tx), Wealth(st))
    <2> HIDE DEF t
    <2>1. BondedBy(tx) = 0 /\ Wealth(t) \in Nat
      BY <1>1, <1>3, WealthType DEF BondedBy, t
    <2>2. Wealth(t) + BondedBy(tx) = Wealth(t)
      BY <2>1
    <2> QED
      BY <1>3, <2>2
  <1>4. CASE type = "NativeTransfer"
    <2>1. t = TransferNative(st, tx).st
      BY <1>4 DEF Dispatch
    <2>2. t.channels = st.channels
      BY <1>1, <1>4 DEF Touches, PartsOf
    <2>3. Congruent(Coins(t), Coins(st))
      BY <1>4, <2>1, TransferNativeCoins
    <2> HIDE DEF t
    <2>4. Coins(t) \in Int
      BY <1>1, CoinsType DEF t
    <2>5. PICK x \in Int, y \in Int, d \in Int :
              x = Coins(t) /\ y = Coins(st) /\ d = Deposits(st.channels)
      BY <1>2, <2>4
    <2>6. Congruent(x + d, y + d)
      <3>1. Congruent(x, y)
        BY <2>3, <2>5
      <3> QED
        BY ONLY <3>1, x \in Int, y \in Int, d \in Int, CongruentRules
    <2>7. Congruent(Wealth(t), Wealth(st))
      BY <2>2, <2>5, <2>6 DEF Wealth
    <2> QED
      BY <1>3, <1>4, <2>2, <2>7 DEF t
  <1>5. CASE type = "OpenChannel"
    <2>1. Dispatch(st, tx) = OpenChannel(st, tx)
      BY <1>5 DEF Dispatch
    <2>2. IsChannels(t.channels) /\ Wealth(t) = Wealth(st)
      BY <1>5, <2>1, OpenChannelWealth
    <2>3. Congruent(Wealth(t), Wealth(st))
      BY <1>2, <2>2, CongruentRules
    <2> QED
      BY <1>3, <1>5, <2>2, <2>3
  <1>6. CASE type = "CloseChannel"
    <2>1. Dispatch(st, tx) = CloseChannel(st, tx)
      BY <1>6 DEF Dispatch
    <2>2. IsChannels(t.channels) /\ Congruent(Wealth(t), Wealth(st))
      BY <1>6, <2>1, CloseChannelWealth
    <2> QED
      BY <1>3, <1>6, <2>2
  <1>7. CASE type = "RegisterValidator"
    <2> DEFINE n == tx.data.stake
    <2>1. n \in U64 /\ tx.sender \in Address /\ BondedBy(tx) = n
      BY <1>7, DataType DEF Transaction, BondedBy
    <2>2. t = Debit(st, tx.sender, n) /\ CanPay(st, tx.sender, n)
      BY <1>7 DEF Dispatch, BondStake, Ok, Err
    <2>3. Coins(t) = Coins(st) - n
      BY <2>1, <2>2, DebitCoins
    <2>4. t.channels = st.channels
      BY <1>1, <1>7 DEF Touches, PartsOf
    <2> HIDE DEF t, n
    <2>5. n \in Int
      BY <2>1 DEF U64
    <2>6. Wealth(t) + BondedBy(tx) = Wealth(st)
      BY <1>2, <2>1, <2>3, <2>4, <2>5 DEF Wealth
    <2>7. Congruent(Wealth(t) + BondedBy(tx), Wealth(st))
      BY <1>2, <2>6, CongruentRules
    <2> QED
      BY <2>4, <2>7 DEF t
  <1>8. CASE type \notin {"NativeTransfer", "OpenChannel", "CloseChannel",
                         "RegisterValidator"}
    <2>1. "balance" \notin PartsOf(type) /\ "channels" \notin PartsOf(type)
      BY <1>8 DEF PartsOf
    <2>2. t.channels = st.channels /\ Coins(t) = Coins(st)
      <3> HIDE DEF t
      <3>1. t.channels = st.channels
        BY <1>1, <2>1 DEF Touches
      <3>2. Coins(t) = Coins(st)
        BY <1>1, <2>1, CoinsUntouched
      <3> QED
        BY <3>1, <3>2
    <2> HIDE DEF t
    <2>3. Congruent(Wealth(t), Wealth(st))
      BY <1>2, <2>2, CongruentRules DEF Wealth
    <2> QED
      BY <1>3, <1>8, <2>2, <2>3 DEF t
  <1> QED
    BY <1>4, <1>5, <1>6, <1>7, <1>8

(* So does the whole transaction.                                          *)
LEMMA ProcessTransactionWealth ==
    ASSUME NEW st, IsLedger(st), IsChannels(st.channels), NEW tx \in Transaction,
           ProcessTransaction(st, tx).ok
    PROVE  LET t == ProcessTransaction(st, tx).st
           IN  /\ IsChannels(t.channels)
               /\ Congruent(Wealth(t) + BondedBy(tx), Wealth(st))
  <1> DEFINE arm == Dispatch(st, tx)
             s == arm.st
             t == IncrementNonce(s, tx.sender)
  <1>1. arm.ok /\ ProcessTransaction(st, tx).st = t
    BY ProcessTransactionSteps
  <1>2. IsLedger(s)
    BY DispatchType DEF IsOutcome
  <1>3. IsChannels(s.channels) /\ Congruent(Wealth(s) + BondedBy(tx), Wealth(st))
    BY <1>1, DispatchWealth
  <1>4. Touches({"nonce"}, s, t)
    BY <1>2, IncrementNonceTouches
  <1> HIDE DEF s, t
  <1>5. t.channels = s.channels /\ Coins(t) = Coins(s)
    <2>1. t.channels = s.channels
      BY <1>4 DEF Touches
    <2>2. Coins(t) = Coins(s)
      BY <1>4, CoinsUntouched
    <2> QED
      BY <2>1, <2>2
  <1>6. Wealth(t) = Wealth(s)
    BY <1>5 DEF Wealth
  <1> QED
    BY <1>1, <1>3, <1>5, <1>6

(* Failing or not, it adds at most one channel.                            *)
LEMMA ProcessTransactionChannels ==
    ASSUME NEW st, IsLedger(st), IsChannels(st.channels), NEW tx \in Transaction
    PROVE  IsChannels(ProcessTransaction(st, tx).st.channels)
  <1> DEFINE arm == Dispatch(st, tx)
             t == ProcessTransaction(st, tx).st
  <1>1. CASE arm.ok
    <2>1. t = st \/ ProcessTransaction(st, tx).ok
      BY <1>1, ProcessTransactionSteps
    <2> QED
      BY <2>1, ProcessTransactionWealth
  <1>2. CASE ~arm.ok
    <2>1. t = st \/ t = arm.st
      BY <1>2, ProcessTransactionSteps
    <2>2. CASE tx.data.type = "OpenChannel"
      <3>1. arm = OpenChannel(st, tx)
        BY <2>2 DEF Dispatch
      <3>2. arm.st = st \/ arm.st = Debit(st, tx.sender, tx.data.amount)
        BY <1>2, <3>1 DEF OpenChannel, Ok, Err
      <3>3. arm.st.channels = st.channels
        BY <3>2, CreditTouches DEF Touches
      <3> QED
        BY <2>1, <3>3
    <2>3. CASE tx.data.type = "CloseChannel"
      <3> DEFINE id == tx.data.id
      <3>1. arm = CloseChannel(st, tx)
        BY <2>3 DEF Dispatch
      <3>2. \/ arm.st = st
            \/ /\ id \in DOMAIN st.channels /\ ~st.channels[id].is_closed
               /\ arm.st = MarkClosed(st, id)
        BY <1>2, <3>1 DEF CloseChannel, Ok, Err
      <3>3. ASSUME id \in DOMAIN st.channels, ~st.channels[id].is_closed
            PROVE  IsChannels(MarkClosed(st, id).channels)
        <4>1. MarkClosed(st, id).channels =
                  Put(st.channels, id, [st.channels[id] EXCEPT !.is_closed = TRUE])
          BY <3>3, MarkClosedTouches
        <4> QED
          BY <3>3, <4>1, CloseDeposits
      <3> QED
        BY <2>1, <3>2, <3>3
    <2>4. CASE tx.data.type \notin {"OpenChannel", "CloseChannel"}
      <3>1. arm.st.channels = st.channels
        BY <2>4, DispatchTouches DEF Touches, PartsOf
      <3> QED
        BY <2>1, <3>1
    <2> QED
      BY <2>2, <2>3, <2>4
  <1> QED
    BY <1>1, <1>2

(* There are finitely many channels.                                       *)
ChannelsFinite == IsChannels(ledger.channels)

(* Every transaction adds at most one channel, so they stay finitely       *)
(* many.                                                                   *)
LEMMA ChannelsInvariant == Spec => []ChannelsFinite
  <1>1. Init => ChannelsFinite
    <2>1. IsChannels(EmptyMap)
      BY EmptyMapType, FS_EmptySet DEF IsChannels, EmptyMap
    <2> QED
      BY <2>1 DEF Init, OpenLedger, ChannelsFinite
  <1>2. TypeOK /\ ChannelsFinite /\ [Next]_vars => ChannelsFinite'
    <2> SUFFICES ASSUME TypeOK, ChannelsFinite, [Next]_vars PROVE ChannelsFinite'
      OBVIOUS
    <2>1. ASSUME NEW tx \in Transactions, ExecTx(tx) \/ RejectBlock(tx)
          PROVE  ChannelsFinite'
      <3> DEFINE t == ProcessTransaction(ledger, tx).st
      <3>1. tx \in Transaction
        BY PipelineAssumption
      <3>2. IsLedger(t) /\ IsChannels(t.channels)
        BY <3>1, ProcessTransactionType, ProcessTransactionChannels
           DEF TypeOK, IsOutcome, ChannelsFinite
      <3>3. ledger' = t \/ ledger' = DiscardChanges(t)
        BY <2>1 DEF ExecTx, RejectBlock, Discard
      <3> HIDE DEF t
      <3>4. DiscardChanges(t).channels = t.channels
        BY <3>2, StoredView
      <3> QED
        BY <3>2, <3>3, <3>4 DEF ChannelsFinite
    <2>2. CASE BeginBlock \/ AbandonBlock
      BY <2>2, StoredView DEF BeginBlock, AbandonBlock, Discard, TypeOK, ChannelsFinite
    <2>3. CASE CommitBlock
      BY <2>3, CommittedView DEF CommitBlock, TypeOK, ChannelsFinite
    <2>4. CASE IndexTx
      BY <2>4, CreditTouches DEF IndexTx, TypeOK, ChannelsFinite, Touches
    <2>5. CASE EndBlock \/ UNCHANGED vars
      BY <2>5 DEF EndBlock, vars, ChannelsFinite
    <2> QED
      BY <2>1, <2>2, <2>3, <2>4, <2>5 DEF Next
  <1> QED
    BY <1>1, <1>2, LedgerTypeCorrect, PTL DEF Spec

-----------------------------------------------------------------------------
(* The stake that transactions bond. *)

BondsOf(txs) == [i \in DOMAIN txs |-> BondedBy(txs[i])]
Bonded(txs) == SumFunctionOnSet(BondsOf(txs), DOMAIN txs)

(* Bonds are natural numbers, and so is their sum.                         *)
LEMMA BondedType ==
    ASSUME NEW txs \in Seq(Transactions)
    PROVE  /\ Bonded(txs) \in Nat
           /\ \A i \in DOMAIN txs : BondsOf(txs)[i] \in Nat
           /\ IsFiniteSet(DOMAIN txs)
  <1>1. IsFiniteSet(DOMAIN txs)
    <2>1. DOMAIN txs = 1 .. Len(txs) /\ Len(txs) \in Nat
      OBVIOUS
    <2> QED
      BY <2>1, FS_Interval
  <1>2. ASSUME NEW tx \in Transactions PROVE BondedBy(tx) \in Nat
    BY PipelineAssumption, DataType DEF BondedBy, Transaction, U64
  <1>3. \A i \in DOMAIN txs : BondsOf(txs)[i] \in Nat
    BY <1>2 DEF BondsOf
  <1> QED
    BY <1>1, <1>3, SumNat DEF Bonded

(* One more transaction adds what it bonds,                                *)
LEMMA BondedAppend ==
    ASSUME NEW txs \in Seq(Transactions), NEW tx \in Transactions
    PROVE  Bonded(Append(txs, tx)) = Bonded(txs) + BondedBy(tx)
  <1> DEFINE more == Append(txs, tx)
             n == Len(txs)
             D == DOMAIN txs
  <1>1. /\ n \in Nat /\ D = 1 .. n /\ DOMAIN more = D \cup {n + 1} /\ n + 1 \notin D
        /\ more[n + 1] = tx /\ \A i \in D : more[i] = txs[i]
    OBVIOUS
  <1>2. more \in Seq(Transactions)
    OBVIOUS
  <1> HIDE DEF more, n
  <1>3. /\ BondsOf(more)[n + 1] = BondedBy(tx)
        /\ \A i \in D : BondsOf(more)[i] = BondsOf(txs)[i]
    BY <1>1 DEF BondsOf
  <1>4. /\ IsFiniteSet(D) /\ \A i \in D : BondsOf(txs)[i] \in Int
        /\ BondsOf(more)[n + 1] \in Int /\ Bonded(txs) \in Int
    BY <1>1, <1>2, BondedType
  <1>5. SumFunctionOnSet(BondsOf(more), D \cup {n + 1})
          = BondsOf(more)[n + 1] + SumFunctionOnSet(BondsOf(more), D)
    BY <1>1, <1>3, <1>4, SumAdd
  <1>6. SumFunctionOnSet(BondsOf(more), D) = SumFunctionOnSet(BondsOf(txs), D)
    BY <1>3, <1>4, SumEqual
  <1>7. Bonded(more) = BondedBy(tx) + Bonded(txs)
    BY <1>1, <1>3, <1>5, <1>6 DEF Bonded
  <1> QED
    BY <1>3, <1>4, <1>7 DEF more

(* and the first takes its own away when it is handled.                    *)
LEMMA BondedTail ==
    ASSUME NEW txs \in Seq(Transactions), txs # <<>>
    PROVE  /\ Bonded(txs) = BondedBy(Head(txs)) + Bonded(Tail(txs))
           /\ Tail(txs) \in Seq(Transactions)
  <1> DEFINE n == Len(txs) - 1
             rest == Tail(txs)
  <1>1. /\ n \in Nat /\ DOMAIN txs = 1 .. n + 1 /\ DOMAIN rest = 1 .. n
        /\ Head(txs) = txs[1] /\ \A i \in 1 .. n : rest[i] = txs[i + 1]
        /\ rest \in Seq(Transactions)
    OBVIOUS
  <1> HIDE DEF n, rest
  <1>2. /\ \A i \in 1 .. n + 1 : BondsOf(txs)[i] \in Int
        /\ \A i \in 1 .. n : BondsOf(rest)[i] = BondsOf(txs)[i + 1]
        /\ BondsOf(txs)[1] = BondedBy(Head(txs))
    <2>1. \A i \in 1 .. n + 1 : BondsOf(txs)[i] \in Int
      BY <1>1, BondedType
    <2>2. \A i \in 1 .. n : i + 1 \in 1 .. n + 1
      BY <1>1
    <2>3. 1 \in 1 .. n + 1
      BY <1>1
    <2> QED
      BY <1>1, <2>1, <2>2, <2>3 DEF BondsOf
  <1>3. SumFunctionOnSet(BondsOf(txs), 1 .. n + 1)
          = BondsOf(txs)[1] + SumFunctionOnSet(BondsOf(rest), 1 .. n)
    BY <1>1, <1>2, SumShift
  <1> QED
    BY <1>1, <1>2, <1>3 DEF Bonded, rest

(* The parts of NativeTotal.                                               *)
TotalParts ==
    NativeTotal = Wealth(ledger) + validators.total_stake + Bonded(done)

(* NativeTotal is the sum of these parts.                                  *)
LEMMA NativeTotalIs ==
    ASSUME TypeOK, ChannelsFinite
    PROVE  /\ TotalParts
           /\ Wealth(ledger) \in Nat /\ validators.total_stake \in Int
           /\ Bonded(done) \in Nat
  <1>1. /\ Balances(ledger) = [a \in Address |-> GetBalance(ledger, a)]
        /\ DOMAIN Balances(ledger) = Address
    BY DEF Balances
  <1>2. /\ DepositsOf(ledger.channels)
             = [id \in DOMAIN ledger.channels |-> Deposit(ledger.channels[id])]
        /\ DOMAIN DepositsOf(ledger.channels) = DOMAIN ledger.channels
    BY DEF DepositsOf
  <1>3. /\ BondsOf(done) = [i \in DOMAIN done |-> BondedBy(done[i])]
        /\ DOMAIN BondsOf(done) = DOMAIN done
    BY DEF BondsOf
  <1>4. NativeTotal = Coins(ledger) + Deposits(ledger.channels)
                        + validators.total_stake + Bonded(done)
    BY <1>1, <1>2, <1>3 DEF NativeTotal, SumFunction, Coins, Deposits, Bonded
  <1>5. /\ Wealth(ledger) \in Nat /\ validators.total_stake \in Int
        /\ Bonded(done) \in Nat
    BY WealthType, BondedType DEF TypeOK, ChannelsFinite
  <1> QED
    BY <1>4, <1>5 DEF Wealth, TotalParts

(* A transaction that executes neither makes nor loses coins, up to a      *)
(* multiple of the width, whatever blocks were discarded before: what it   *)
(* takes from accounts it puts in accounts, in a channel or in bonds.      *)
THEOREM ExecutedTxConservesCorrect == Spec => ExecutedTxConserves
  <1>1. ASSUME TypeOK, ChannelsFinite, TypeOK', ChannelsFinite',
               TotalParts', [Next]_vars, Len(done') > Len(done)
        PROVE  (NativeTotal' - NativeTotal) % U64Mod = 0
    <2>1. PICK tx \in Transactions : ExecTx(tx)
      <3>1. ~(done' = done) /\ ~(done' = <<>>)
        BY <1>1 DEF TypeOK
      <3>2. ~IndexTx
        <4>1. IndexTx => done # <<>> /\ done' = Tail(done)
          BY DEF IndexTx
        <4>2. done # <<>> /\ done \in Seq(Transactions) => Len(Tail(done)) = Len(done) - 1
                                                          /\ Len(done) \in Nat
          OBVIOUS
        <4> QED
          BY <1>1, <4>1, <4>2 DEF TypeOK
      <3> QED
        BY <1>1, <3>1, <3>2
           DEF Next, vars, BeginBlock, RejectBlock, AbandonBlock, Discard,
               CommitBlock, EndBlock
    <2> DEFINE t == ProcessTransaction(ledger, tx).st
    <2>2. /\ ProcessTransaction(ledger, tx).ok /\ ledger' = t
          /\ done' = Append(done, tx) /\ validators' = validators
      BY <2>1 DEF ExecTx
    <2>3. tx \in Transaction
      BY PipelineAssumption
    <2>4. Congruent(Wealth(t) + BondedBy(tx), Wealth(ledger))
      BY <1>1, <2>2, <2>3, ProcessTransactionWealth DEF TypeOK, ChannelsFinite
    <2>5. Bonded(done') = Bonded(done) + BondedBy(tx)
      BY <1>1, <2>2, BondedAppend DEF TypeOK
    <2>6. /\ NativeTotal = Wealth(ledger) + validators.total_stake + Bonded(done)
          /\ Wealth(ledger) \in Nat /\ validators.total_stake \in Int
          /\ Bonded(done) \in Nat
      BY <1>1, NativeTotalIs DEF TotalParts
    <2>7. NativeTotal' = Wealth(ledger)' + validators'.total_stake + Bonded(done')
      BY <1>1 DEF TotalParts
    <2>8. Wealth(ledger') \in Nat
      BY <1>1, WealthType DEF TypeOK, ChannelsFinite
    <2>9. BondedBy(tx) \in Nat
      BY <2>3, DataType DEF BondedBy, Transaction, U64
    <2>10. PICK k \in Int : Wealth(t) + BondedBy(tx) = Wealth(ledger) + k * U64Mod
      BY <2>4 DEF Congruent
    <2>11. NativeTotal' = Wealth(t) + validators.total_stake + Bonded(done) + BondedBy(tx)
      <3>1. Wealth(ledger)' = Wealth(ledger') /\ Wealth(ledger') = Wealth(t)
        BY <2>2
      <3> HIDE DEF t
      <3> QED
        BY <2>2, <2>5, <2>6, <2>7, <2>8, <2>9, <3>1
    <2>12. Wealth(t) \in Nat
      BY <2>2, <2>8
    <2> HIDE DEF t
    <2>13. NativeTotal' - NativeTotal = 0 + k * U64Mod
      <3> DEFINE m == k * U64Mod
      <3>1. m \in Int
        BY LedgerAssumption
      <3> HIDE DEF m
      <3>2. Wealth(t) + BondedBy(tx) = Wealth(ledger) + m
        BY <2>10 DEF m
      <3>3. NativeTotal' - NativeTotal = m
        BY <2>6, <2>9, <2>11, <2>12, <3>1, <3>2
      <3> QED
        BY <3>1, <3>3 DEF m
    <2>14. PICK d \in Int : d = NativeTotal' - NativeTotal
      BY <2>6, <2>9, <2>11, <2>12
    <2>15. Congruent(d, 0)
      BY <2>13, <2>14 DEF Congruent
    <2>16. d % U64Mod = 0 % U64Mod
      BY <2>15, CongruentRemainders
    <2>17. 0 % U64Mod = 0
      BY LedgerAssumption, SMTT(30)
    <2> QED
      BY <2>14, <2>16, <2>17
  <1>2. TypeOK /\ ChannelsFinite /\ TypeOK' /\ ChannelsFinite' /\ TotalParts'
          /\ [Next]_vars
        => [Len(done') > Len(done) => (NativeTotal' - NativeTotal) % U64Mod = 0]_vars
    BY <1>1
  <1>3. TypeOK /\ ChannelsFinite => TotalParts
    BY NativeTotalIs
  <1> QED
    BY <1>2, <1>3, LedgerTypeCorrect, ChannelsInvariant, PTL DEF Spec, ExecutedTxConserves

(* The initial supply is a natural number.                                 *)
LEMMA InitialSupplyType == InitialSupply \in Nat
  <1> DEFINE f == [a \in Address |-> Lookup(InitialAccounts, a, NewAccount).balance]
  <1>1. \A a \in Address : Lookup(InitialAccounts, a, NewAccount).balance \in Nat
    BY PipelineAssumption, NewAccountType DEF Lookup, IsAccounts, IsAccount, U64
  <1>2. DOMAIN f = Address /\ \A a \in Address : f[a] \in Nat
    BY <1>1
  <1> HIDE DEF f
  <1>3. SumFunctionOnSet(f, Address) \in Nat
    BY <1>2, AddressFinite, SumNat
  <1> QED
    BY <1>2, <1>3 DEF InitialSupply, SumFunction, f

(* The coins at the start.                                                 *)
LEMMA InitialCoins ==
    ASSUME Init
    PROVE  /\ Coins(ledger) = InitialSupply /\ DiscardChanges(ledger) = ledger
           /\ Deposits(ledger.channels) = 0 /\ ledger.channels = EmptyMap
           /\ InitialSupply \in Nat /\ IsLedger(ledger)
  <1>1. /\ ledger.accounts = InitialAccounts /\ ledger.pending = EmptyMap
        /\ ledger.channels = EmptyMap /\ IsLedger(ledger)
    BY PipelineAssumption, OpenLedgerType DEF Init, OpenLedger
  <1>2. DOMAIN EmptyMap = {}
    BY DEF EmptyMap
  <1>3. \A a : GetBalance(ledger, a) = Lookup(InitialAccounts, a, NewAccount).balance
    BY <1>1, <1>2 DEF GetBalance, GetAccount, Lookup
  <1> DEFINE f == [a \in Address |-> Lookup(InitialAccounts, a, NewAccount).balance]
  <1>4. Balances(ledger) = f /\ DOMAIN f = Address
    BY <1>3 DEF Balances
  <1> HIDE DEF f
  <1>5. Coins(ledger) = InitialSupply
    BY <1>4 DEF Coins, InitialSupply, SumFunction, f
  <1>6. Deposits(ledger.channels) = 0
    BY <1>1, <1>2, SumEmpty DEF Deposits
  <1>7. DiscardChanges(ledger) = ledger
    BY <1>1 DEF DiscardChanges, IsLedger
  <1> QED
    BY <1>1, <1>5, <1>6, <1>7, CoinsType

-----------------------------------------------------------------------------
(* Coins without staking. *)

NoStakingTxs ==
    \A tx \in Transactions :
        tx.data.type \notin {"RegisterValidator", "UnregisterValidator"}

(* Like ItemsInv: overlay and registry, storage and the registry as it was *)
(* before the block.                                                       *)
SupplyInv ==
    /\ validators.total_stake = 0
    /\ intact =>
        /\ Congruent(Coins(ledger) + Deposits(ledger.channels), InitialSupply)
        /\ phase = "executing" =>
              Congruent(Coins(DiscardChanges(ledger)) + Deposits(before[3]), InitialSupply)
        /\ phase # "executing" =>
              Congruent(Coins(DiscardChanges(ledger)) + Deposits(ledger.channels),
                        InitialSupply)

(* Both sums stay congruent to the initial supply.                         *)
LEMMA SupplyInvariant ==
    ASSUME NoStakingTxs
    PROVE  Spec => []SupplyInv
  <1>1. Init => SupplyInv
    <2> SUFFICES ASSUME Init PROVE SupplyInv
      OBVIOUS
    <2>1. /\ Coins(ledger) = InitialSupply /\ DiscardChanges(ledger) = ledger
          /\ Deposits(ledger.channels) = 0 /\ InitialSupply \in Int
      BY InitialCoins
    <2>2. Coins(ledger) + Deposits(ledger.channels) = InitialSupply
      BY <2>1
    <2>3. Congruent(InitialSupply, InitialSupply)
      BY <2>1, CongruentRules
    <2> QED
      BY <2>1, <2>2, <2>3 DEF SupplyInv, Init, NoValidators
  <1>2. TypeOK /\ ChannelsFinite /\ SupplyInv /\ [Next]_vars => SupplyInv'
    <2> SUFFICES ASSUME TypeOK, ChannelsFinite, SupplyInv, [Next]_vars
                 PROVE  SupplyInv'
      OBVIOUS
    <2>0. /\ IsLedger(ledger) /\ IsChannels(ledger.channels)
          /\ DiscardChanges(ledger).channels = ledger.channels
          /\ DiscardChanges(DiscardChanges(ledger)) = DiscardChanges(ledger)
          /\ InitialSupply' = InitialSupply
      BY StoredView DEF TypeOK, ChannelsFinite, InitialSupply
    <2>1. CASE BeginBlock
      <3>1. /\ ledger' = DiscardChanges(ledger) /\ before'[3] = ledger.channels
            /\ phase = "idle" /\ phase' = "executing" /\ intact' = intact
            /\ validators' = validators
        BY <2>1 DEF BeginBlock, Registries
      <3> QED
        BY <2>0, <3>1 DEF SupplyInv
    <2>2. ASSUME NEW tx \in Transactions
          PROVE  LET out == ProcessTransaction(ledger, tx)
                 IN  /\ IsLedger(out.st)
                     /\ Coins(DiscardChanges(out.st)) = Coins(DiscardChanges(ledger))
                     /\ out.ok => Congruent(Wealth(out.st), Wealth(ledger))
                                  /\ IsChannels(out.st.channels)
      <3> DEFINE t == ProcessTransaction(ledger, tx).st
      <3>1. tx \in Transaction /\ BondedBy(tx) = 0
        BY PipelineAssumption DEF NoStakingTxs, BondedBy
      <3>2. IsLedger(t) /\ t.accounts = ledger.accounts
        BY <2>0, <3>1, ProcessTransactionType, ProcessTransactionTouches
           DEF IsOutcome, Touches
      <3>3. Coins(DiscardChanges(t)) = Coins(DiscardChanges(ledger))
        <4> HIDE DEF t
        <4>1. \A a : GetAccount(DiscardChanges(t), a) = GetAccount(DiscardChanges(ledger), a)
          BY <2>0, <3>2, StoredView
        <4> QED
          BY <4>1, CoinsKept DEF GetBalance
      <3>4. ASSUME ProcessTransaction(ledger, tx).ok
            PROVE  Congruent(Wealth(t), Wealth(ledger)) /\ IsChannels(t.channels)
        <4>1. /\ IsChannels(t.channels)
              /\ Congruent(Wealth(t) + BondedBy(tx), Wealth(ledger))
          BY <2>0, <3>1, <3>4, ProcessTransactionWealth
        <4> HIDE DEF t
        <4>2. Wealth(t) \in Nat
          BY <3>2, <4>1, WealthType
        <4>3. Wealth(t) + BondedBy(tx) = Wealth(t)
          BY <3>1, <4>2
        <4> QED
          BY <4>1, <4>3
      <3> QED
        BY <3>2, <3>3, <3>4
    <2>3. ASSUME NEW tx \in Transactions, ExecTx(tx) PROVE SupplyInv'
      <3> DEFINE t == ProcessTransaction(ledger, tx).st
      <3>1. /\ ProcessTransaction(ledger, tx).ok /\ ledger' = t
            /\ phase = "executing" /\ phase' = "executing"
            /\ intact' = intact /\ before' = before /\ validators' = validators
        BY <2>3 DEF ExecTx
      <3>2. /\ IsLedger(t) /\ IsChannels(t.channels)
            /\ Coins(DiscardChanges(t)) = Coins(DiscardChanges(ledger))
            /\ Congruent(Wealth(t), Wealth(ledger))
        BY <2>2, <3>1
      <3> HIDE DEF t
      <3>3. PICK x \in Int, y \in Int, z \in Int :
                x = Wealth(t) /\ y = Wealth(ledger) /\ z = InitialSupply
        <4>1. Wealth(t) \in Nat /\ Wealth(ledger) \in Nat
          BY <2>0, <3>2, WealthType
        <4>2. InitialSupply \in Nat
          BY InitialSupplyType
        <4> QED
          BY <4>1, <4>2
      <3>4. intact => Congruent(x, z)
        <4>1. intact => Congruent(y, z)
          BY <3>3 DEF SupplyInv, Wealth
        <4>2. Congruent(x, y)
          BY <3>2, <3>3
        <4> QED
          BY <4>1, <4>2, CongruentRules
      <3> QED
        BY <2>0, <3>1, <3>2, <3>3, <3>4 DEF SupplyInv, Wealth
    <2>4. ASSUME NEW st, IsLedger(st), Discard(st), phase = "executing",
                 Coins(DiscardChanges(st)) = Coins(DiscardChanges(ledger))
          PROVE  SupplyInv'
      <3>1. /\ ledger' = DiscardChanges(st) /\ phase' = "idle"
            /\ intact' => intact /\ st.channels = before[3]
            /\ validators' = validators
        <4>1. Registries(st)[3] = st.channels
          BY DEF Registries
        <4> QED
          BY <2>4, <4>1 DEF Discard
      <3>2. /\ DiscardChanges(ledger') = ledger' /\ ledger'.channels = st.channels
            /\ Coins(ledger') = Coins(DiscardChanges(ledger))
        BY <2>4, <3>1, StoredView
      <3> QED
        BY <2>0, <2>4, <3>1, <3>2 DEF SupplyInv
    <2>5. ASSUME NEW tx \in Transactions, RejectBlock(tx) PROVE SupplyInv'
      BY <2>2, <2>4, <2>5 DEF RejectBlock
    <2>6. CASE AbandonBlock
      BY <2>0, <2>4, <2>6 DEF AbandonBlock
    <2>7. CASE CommitBlock
      <3>1. /\ ledger' = ApplyChanges(ledger) /\ phase' = "indexing"
            /\ intact' = intact /\ validators' = validators
        BY <2>7 DEF CommitBlock
      <3>2. /\ ledger'.channels = ledger.channels
            /\ DiscardChanges(ledger') = ledger'
            /\ Coins(ledger') = Coins(ledger)
        BY <2>0, <3>1, CommittedView, CoinsKept DEF GetBalance
      <3> QED
        BY <2>0, <3>1, <3>2 DEF SupplyInv
    <2>8. CASE IndexTx
      <3>1. Head(done) \in Transactions
        BY <2>8 DEF IndexTx, TypeOK
      <3>2. Head(done).data.type \notin {"RegisterValidator", "UnregisterValidator"}
        BY <3>1 DEF NoStakingTxs
      <3>3. UNCHANGED <<ledger, validators, phase, before, intact>>
        BY <2>8, <3>2 DEF IndexTx
      <3> QED
        BY <2>0, <3>3 DEF SupplyInv
    <2>9. CASE EndBlock
      BY <2>0, <2>9 DEF EndBlock, SupplyInv
    <2>10. CASE UNCHANGED vars
      BY <2>0, <2>10 DEF vars, SupplyInv
    <2> QED
      BY <2>1, <2>3, <2>5, <2>6, <2>7, <2>8, <2>9, <2>10 DEF Next
  <1> QED
    BY <1>1, <1>2, LedgerTypeCorrect, ChannelsInvariant, PTL DEF Spec

(* As long as no discarded block has left its mark on the registries,      *)
(* accounts and open channels hold the initial supply, up to a multiple of *)
(* the width, after every sequence of blocks without staking, committed or *)
(* discarded.                                                              *)
THEOREM SupplyConservedCorrect ==
    ASSUME NoStakingTxs
    PROVE  Spec => []SupplyConserved
  <1>1. TypeOK /\ ChannelsFinite /\ SupplyInv => SupplyConserved
    <2> SUFFICES ASSUME TypeOK, ChannelsFinite, SupplyInv, intact
                 PROVE  NativeTotal % U64Mod = InitialSupply % U64Mod
      BY DEF SupplyConserved
    <2>1. /\ NativeTotal = Wealth(ledger) + validators.total_stake + Bonded(done)
          /\ Wealth(ledger) \in Nat
      BY NativeTotalIs DEF TotalParts
    <2>2. Bonded(done) = 0
      <3>1. \A i \in DOMAIN done : done[i] \in Transactions
        BY DEF TypeOK
      <3>2. \A i \in DOMAIN done : BondsOf(done)[i] = 0
        BY <3>1 DEF BondsOf, BondedBy, NoStakingTxs
      <3>3. IsFiniteSet(DOMAIN done)
        BY BondedType DEF TypeOK
      <3> QED
        BY <3>2, <3>3, SumZero DEF Bonded
    <2>3. NativeTotal = Wealth(ledger)
      BY <2>1, <2>2 DEF SupplyInv
    <2>4. InitialSupply \in Int
      BY InitialSupplyType
    <2>5. Congruent(NativeTotal, InitialSupply)
      BY <2>3 DEF SupplyInv, Wealth
    <2> QED
      BY <2>1, <2>3, <2>4, <2>5, CongruentRemainders
  <1> QED
    BY <1>1, LedgerTypeCorrect, ChannelsInvariant, SupplyInvariant, PTL

-----------------------------------------------------------------------------
(* Coins and stake without channels. *)

NoChannelTxs == \A tx \in Transactions : tx.data.type # "OpenChannel"

(* An arm adds no coins to accounts and leaves there none that it bonds:   *)
(* without open channels there is nothing to pay out.                      *)
LEMMA DispatchCoins ==
    ASSUME NEW st, IsLedger(st), st.channels = EmptyMap, NEW tx \in Transaction,
           tx.data.type # "OpenChannel", Dispatch(st, tx).ok
    PROVE  LET t == Dispatch(st, tx).st
           IN  Coins(t) + BondedBy(tx) <= Coins(st) /\ t.channels = EmptyMap
  <1> DEFINE type == tx.data.type
             t == Dispatch(st, tx).st
  <1>1. Touches(PartsOf(type), st, t)
    BY DispatchTouches
  <1>2. Coins(st) \in Nat
    BY CoinsType
  <1>3. type # "CloseChannel"
    <2>1. DOMAIN EmptyMap = {}
      BY DEF EmptyMap
    <2> QED
      BY <2>1 DEF Dispatch, CloseChannel, Err
  <1>4. t.channels = EmptyMap
    BY <1>1, <1>3 DEF Touches, PartsOf
  <1>5. CASE type = "NativeTransfer"
    <2>1. t = TransferNative(st, tx).st /\ BondedBy(tx) = 0
      BY <1>5 DEF Dispatch, BondedBy
    <2>2. Coins(t) <= Coins(st)
      BY <1>5, <2>1, TransferNativeCoins
    <2>3. Coins(t) \in Nat
      BY DispatchType, CoinsType DEF IsOutcome
    <2> QED
      BY <1>2, <1>4, <2>1, <2>2, <2>3
  <1>6. CASE type = "RegisterValidator"
    <2> DEFINE n == tx.data.stake
    <2>1. n \in U64 /\ tx.sender \in Address /\ BondedBy(tx) = n
      BY <1>6, DataType DEF Transaction, BondedBy
    <2>2. t = Debit(st, tx.sender, n) /\ CanPay(st, tx.sender, n)
      BY <1>6 DEF Dispatch, BondStake, Ok, Err
    <2>3. Coins(t) = Coins(st) - n
      BY <2>1, <2>2, DebitCoins
    <2> HIDE DEF t, n
    <2> QED
      BY <1>2, <1>4, <2>1, <2>3 DEF U64, t
  <1>7. CASE type # "NativeTransfer" /\ type # "RegisterValidator"
    <2>1. "balance" \notin PartsOf(type)
      BY <1>3, <1>7 DEF PartsOf
    <2>2. Coins(t) = Coins(st)
      <3> HIDE DEF t
      <3> QED
        BY <1>1, <2>1, CoinsUntouched
    <2>3. BondedBy(tx) = 0
      BY <1>7 DEF BondedBy
    <2> HIDE DEF t
    <2> QED
      BY <1>2, <1>4, <2>2, <2>3 DEF t
  <1> QED
    BY <1>5, <1>6, <1>7

(* Failing or not, no channel appears, and a success adds no coins.        *)
LEMMA ProcessTransactionCoins ==
    ASSUME NEW st, IsLedger(st), st.channels = EmptyMap, NEW tx \in Transaction,
           tx.data.type # "OpenChannel"
    PROVE  LET out == ProcessTransaction(st, tx)
           IN  /\ out.st.channels = EmptyMap
               /\ out.ok => Coins(out.st) + BondedBy(tx) <= Coins(st)
  <1> DEFINE arm == Dispatch(st, tx)
             s == arm.st
             t == IncrementNonce(s, tx.sender)
             out == ProcessTransaction(st, tx)
  <1>1. /\ out.ok => arm.ok /\ out.st = t
        /\ ~out.ok => out.st = st \/ out.st = s
    BY ProcessTransactionSteps
  <1>2. IsLedger(s)
    BY DispatchType DEF IsOutcome
  <1>3. s.channels = EmptyMap
    <2>1. CASE tx.data.type = "CloseChannel"
      <3>1. DOMAIN EmptyMap = {}
        BY DEF EmptyMap
      <3> QED
        BY <2>1, <3>1 DEF Dispatch, CloseChannel, Err
    <2>2. CASE tx.data.type # "CloseChannel"
      BY <2>2, DispatchTouches DEF Touches, PartsOf
    <2> QED
      BY <2>1, <2>2
  <1>4. arm.ok => Coins(s) + BondedBy(tx) <= Coins(st)
    BY DispatchCoins
  <1>5. Touches({"nonce"}, s, t)
    BY <1>2, IncrementNonceTouches
  <1> HIDE DEF s, t
  <1>6. t.channels = s.channels
    BY <1>5 DEF Touches
  <1>7. Coins(t) = Coins(s)
    BY <1>5, CoinsUntouched
  <1> QED
    BY <1>1, <1>3, <1>4, <1>6, <1>7

(* GrowthInv: coins in accounts, stake and bonds are bounded in both       *)
(* views.  A block that is executing can still be discarded, and then its  *)
(* bonds are void; one that is being indexed has been written.             *)
GrowthInv ==
    /\ ledger.channels = EmptyMap
    /\ Coins(ledger) + validators.total_stake + Bonded(done) <= InitialSupply
    /\ phase = "indexing" =>
          Coins(DiscardChanges(ledger)) + validators.total_stake + Bonded(done)
              <= InitialSupply
    /\ phase # "indexing" =>
          Coins(DiscardChanges(ledger)) + validators.total_stake <= InitialSupply

(* Both sums stay bounded by the initial supply.                           *)
LEMMA GrowthInvariant ==
    ASSUME NoChannelTxs
    PROVE  Spec => []GrowthInv
  <1>0. Bonded(<<>>) = 0
    BY SumEmpty DEF Bonded
  <1>1. Init => GrowthInv
    <2> SUFFICES ASSUME Init PROVE GrowthInv
      OBVIOUS
    <2>1. /\ Coins(ledger) = InitialSupply /\ DiscardChanges(ledger) = ledger
          /\ ledger.channels = EmptyMap /\ InitialSupply \in Nat
      BY InitialCoins
    <2>2. done = <<>> /\ validators.total_stake = 0 /\ phase = "idle"
      BY DEF Init, NoValidators
    <2> QED
      BY <1>0, <2>1, <2>2 DEF GrowthInv
  <1>2. TypeOK /\ NonceInv /\ GrowthInv /\ [Next]_vars => GrowthInv'
    <2> SUFFICES ASSUME TypeOK, NonceInv, GrowthInv, [Next]_vars PROVE GrowthInv'
      OBVIOUS
    <2>0. /\ IsLedger(ledger) /\ IsLedger(DiscardChanges(ledger))
          /\ DiscardChanges(ledger).channels = ledger.channels
          /\ DiscardChanges(DiscardChanges(ledger)) = DiscardChanges(ledger)
          /\ InitialSupply' = InitialSupply /\ InitialSupply \in Nat
      BY StoredView, InitialSupplyType DEF TypeOK, InitialSupply
    <2>01. /\ Coins(ledger) \in Nat /\ Coins(DiscardChanges(ledger)) \in Nat
           /\ Bonded(done) \in Nat /\ validators.total_stake \in Int
      BY <2>0, CoinsType, BondedType DEF TypeOK
    <2>1. CASE BeginBlock
      <3>1. /\ ledger' = DiscardChanges(ledger) /\ phase = "idle"
            /\ phase' = "executing" /\ done' = done /\ validators' = validators
        BY <2>1 DEF BeginBlock
      <3>2. Bonded(done) = 0
        BY <1>0, <3>1 DEF NonceInv
      <3> QED
        BY <2>0, <2>01, <3>1, <3>2 DEF GrowthInv
    <2>2. ASSUME NEW tx \in Transactions
          PROVE  LET out == ProcessTransaction(ledger, tx)
                 IN  /\ IsLedger(out.st) /\ out.st.channels = EmptyMap
                     /\ Coins(DiscardChanges(out.st)) = Coins(DiscardChanges(ledger))
                     /\ out.ok => Coins(out.st) + BondedBy(tx) <= Coins(ledger)
      <3> DEFINE t == ProcessTransaction(ledger, tx).st
      <3>1. tx \in Transaction /\ tx.data.type # "OpenChannel"
        BY PipelineAssumption DEF NoChannelTxs
      <3>2. IsLedger(t) /\ t.accounts = ledger.accounts
        BY <2>0, <3>1, ProcessTransactionType, ProcessTransactionTouches
           DEF IsOutcome, Touches
      <3>3. Coins(DiscardChanges(t)) = Coins(DiscardChanges(ledger))
        <4> HIDE DEF t
        <4>1. \A a : GetAccount(DiscardChanges(t), a) = GetAccount(DiscardChanges(ledger), a)
          BY <2>0, <3>2, StoredView
        <4> QED
          BY <4>1, CoinsKept DEF GetBalance
      <3> QED
        BY <2>0, <3>1, <3>2, <3>3, ProcessTransactionCoins DEF GrowthInv
    <2>3. ASSUME NEW tx \in Transactions, ExecTx(tx) PROVE GrowthInv'
      <3> DEFINE t == ProcessTransaction(ledger, tx).st
      <3>1. /\ ProcessTransaction(ledger, tx).ok /\ ledger' = t
            /\ done' = Append(done, tx) /\ phase = "executing"
            /\ phase' = "executing" /\ validators' = validators
        BY <2>3 DEF ExecTx
      <3>2. /\ IsLedger(t) /\ t.channels = EmptyMap
            /\ Coins(DiscardChanges(t)) = Coins(DiscardChanges(ledger))
            /\ Coins(t) + BondedBy(tx) <= Coins(ledger)
        BY <2>2, <3>1
      <3>3. Bonded(done') = Bonded(done) + BondedBy(tx)
        BY <3>1, BondedAppend DEF TypeOK
      <3> HIDE DEF t
      <3>4. Coins(t) \in Nat /\ BondedBy(tx) \in Nat
        <4>1. tx \in Transaction
          BY PipelineAssumption
        <4>2. BondedBy(tx) \in Nat
          BY <4>1, DataType DEF BondedBy, Transaction, U64
        <4> QED
          BY <3>2, <4>2, CoinsType
      <3>5. Coins(t) + validators.total_stake + Bonded(done') <= InitialSupply
        BY <2>0, <2>01, <3>2, <3>3, <3>4 DEF GrowthInv
      <3> QED
        BY <2>0, <3>1, <3>2, <3>5 DEF GrowthInv
    <2>4. ASSUME NEW st, IsLedger(st), Discard(st), phase = "executing",
                 st.channels = EmptyMap,
                 Coins(DiscardChanges(st)) = Coins(DiscardChanges(ledger))
          PROVE  GrowthInv'
      <3>1. /\ ledger' = DiscardChanges(st) /\ phase' = "idle" /\ done' = <<>>
            /\ validators' = validators
        BY <2>4 DEF Discard
      <3>2. /\ DiscardChanges(ledger') = ledger' /\ ledger'.channels = EmptyMap
            /\ Coins(ledger') = Coins(DiscardChanges(ledger))
        BY <2>4, <3>1, StoredView
      <3>3. Bonded(done') = 0
        BY <1>0, <3>1
      <3> QED
        BY <2>0, <2>01, <2>4, <3>1, <3>2, <3>3 DEF GrowthInv
    <2>5. ASSUME NEW tx \in Transactions, RejectBlock(tx) PROVE GrowthInv'
      BY <2>2, <2>4, <2>5 DEF RejectBlock
    <2>6. CASE AbandonBlock
      BY <2>0, <2>4, <2>6 DEF AbandonBlock, GrowthInv
    <2>7. CASE CommitBlock
      <3>1. /\ ledger' = ApplyChanges(ledger) /\ phase' = "indexing"
            /\ done' = done /\ validators' = validators
        BY <2>7 DEF CommitBlock
      <3>2. /\ ledger'.channels = ledger.channels
            /\ DiscardChanges(ledger') = ledger'
            /\ Coins(ledger') = Coins(ledger)
        BY <2>0, <3>1, CommittedView, CoinsKept DEF GetBalance
      <3> QED
        BY <2>0, <3>1, <3>2 DEF GrowthInv
    <2>8. CASE IndexTx
      <3> DEFINE tx == Head(done)
                 n == validators.members[tx.sender].stake
      <3>1. /\ phase = "indexing" /\ phase' = phase /\ done # <<>>
            /\ done' = Tail(done)
        BY <2>8 DEF IndexTx
      <3>2. tx \in Transaction /\ tx.sender \in Address /\ tx.data \in TransactionData
        BY <3>1, PipelineAssumption DEF TypeOK, Transaction
      <3>3. Bonded(done) = BondedBy(tx) + Bonded(done') /\ Bonded(done') \in Nat
        BY <3>1, BondedTail, BondedType DEF TypeOK
      <3>4. BondedBy(tx) \in Nat
        BY <3>2, DataType DEF BondedBy, U64
      <3>5. IsValidatorSet(validators)
        BY DEF TypeOK, IsValidatorSet
      <3>6. CASE tx.data.type = "RegisterValidator"
        <4>1. validators' = RegisterValidator(validators, tx.sender, tx.data.stake)
              /\ ledger' = ledger /\ BondedBy(tx) = tx.data.stake
          BY <2>8, <3>6 DEF IndexTx, BondedBy
        <4>2. /\ validators'.total_stake \in Int
              /\ validators'.total_stake <= validators.total_stake + BondedBy(tx)
          BY <2>01, <3>4, <4>1 DEF RegisterValidator
        <4> HIDE DEF tx, n
        <4>3. validators'.total_stake + Bonded(done')
                  <= validators.total_stake + Bonded(done)
          BY <2>01, <3>3, <3>4, <4>2
        <4>4. /\ Coins(ledger') + validators'.total_stake + Bonded(done')
                   <= InitialSupply
              /\ Coins(DiscardChanges(ledger')) + validators'.total_stake
                   + Bonded(done') <= InitialSupply
          <5>1. /\ Coins(ledger) + validators.total_stake + Bonded(done) <= InitialSupply
                /\ Coins(DiscardChanges(ledger)) + validators.total_stake + Bonded(done)
                     <= InitialSupply
            BY <3>1 DEF GrowthInv
          <5>2. Coins(ledger') = Coins(ledger)
                /\ Coins(DiscardChanges(ledger')) = Coins(DiscardChanges(ledger))
            BY <4>1
          <5> QED
            BY <2>0, <2>01, <3>3, <4>2, <4>3, <5>1, <5>2
        <4> QED
          BY <2>0, <3>1, <4>1, <4>4 DEF GrowthInv
      <3>7. CASE /\ tx.data.type = "UnregisterValidator"
                 /\ IsValidator(validators, tx.sender)
        <4> DEFINE paid == Credit(ledger, tx.sender, n)
        <4>1. n \in Nat
          BY <3>5, <3>7 DEF IsValidator, IsValidatorSet, IsMap, ValidatorInfo
        <4>2. validators'.total_stake = validators.total_stake - n /\ ledger' = paid
          BY <2>8, <3>7 DEF IndexTx, UnregisterValidator
        <4>3. BondedBy(tx) = 0
          BY <3>7 DEF BondedBy
        <4> HIDE DEF n, tx
        <4>4. /\ Coins(paid) <= Coins(ledger) + n /\ Coins(paid) \in Nat
          BY <2>0, <3>2, <4>1, CreditCoins
        <4>5. /\ DiscardChanges(paid) = DiscardChanges(ledger)
              /\ paid.channels = ledger.channels
          BY <2>0 DEF Credit, SetBalance, Stage, DiscardChanges, IsLedger
        <4> HIDE DEF paid
        <4>6. /\ Coins(ledger') + validators'.total_stake + Bonded(done')
                   <= InitialSupply
              /\ Coins(DiscardChanges(ledger')) + validators'.total_stake
                   + Bonded(done') <= InitialSupply
          <5>1. /\ Coins(ledger) + validators.total_stake + Bonded(done) <= InitialSupply
                /\ Coins(DiscardChanges(ledger)) + validators.total_stake + Bonded(done)
                     <= InitialSupply
            BY <3>1 DEF GrowthInv
          <5>2. Coins(ledger') = Coins(paid)
                /\ Coins(DiscardChanges(ledger')) = Coins(DiscardChanges(ledger))
            BY <4>2, <4>5
          <5> QED
            BY <2>0, <2>01, <3>3, <4>1, <4>2, <4>3, <4>4, <5>1, <5>2
        <4> QED
          BY <2>0, <3>1, <4>2, <4>5, <4>6 DEF GrowthInv
      <3>8. CASE /\ tx.data.type # "RegisterValidator"
                 /\ ~(/\ tx.data.type = "UnregisterValidator"
                      /\ IsValidator(validators, tx.sender))
        <4>1. validators' = validators /\ ledger' = ledger /\ BondedBy(tx) = 0
          BY <2>8, <3>8 DEF IndexTx, BondedBy
        <4> QED
          BY <2>0, <2>01, <3>1, <3>3, <4>1 DEF GrowthInv
      <3> QED
        BY <3>6, <3>7, <3>8
    <2>9. CASE EndBlock
      <3>1. /\ phase = "indexing" /\ phase' = "idle" /\ done = <<>>
            /\ UNCHANGED <<ledger, validators, done>>
        BY <2>9 DEF EndBlock
      <3>2. Bonded(done) = 0
        BY <1>0, <3>1
      <3> QED
        BY <2>0, <2>01, <3>1, <3>2 DEF GrowthInv
    <2>10. CASE UNCHANGED vars
      BY <2>0, <2>10 DEF vars, GrowthInv
    <2> QED
      BY <2>1, <2>3, <2>5, <2>6, <2>7, <2>8, <2>9, <2>10 DEF Next
  <1> QED
    BY <1>1, <1>2, LedgerTypeCorrect, NonceInvariant, PTL DEF Spec

(* Bonding, registering, failing to register, unregistering and refunding  *)
(* never add up to more coins than there were at the start, whatever       *)
(* blocks are discarded in between (chain.rs, validator.rs).               *)
THEOREM SupplyNeverGrowsCorrect ==
    ASSUME NoChannelTxs
    PROVE  Spec => []SupplyNeverGrows
  <1>1. TypeOK /\ ChannelsFinite /\ GrowthInv => SupplyNeverGrows
    <2> SUFFICES ASSUME TypeOK, ChannelsFinite, GrowthInv PROVE SupplyNeverGrows
      OBVIOUS
    <2>1. NativeTotal = Wealth(ledger) + validators.total_stake + Bonded(done)
      BY NativeTotalIs DEF TotalParts
    <2>2. Deposits(ledger.channels) = 0
      BY SumEmpty DEF GrowthInv, Deposits, EmptyMap
    <2>3. Coins(ledger) \in Nat
      BY CoinsType DEF TypeOK
    <2>4. Wealth(ledger) = Coins(ledger)
      BY <2>2, <2>3 DEF Wealth
    <2> QED
      BY <2>1, <2>4 DEF GrowthInv, SupplyNeverGrows
  <1> QED
    BY <1>1, LedgerTypeCorrect, ChannelsInvariant, GrowthInvariant, PTL
=============================================================================
