--------------------------- MODULE ProducerProofs ---------------------------
(***************************************************************************)
(* For any transactions, wallets and limits: the invariants of Producer.   *)
(*                                                                         *)
(* A block spends nonces one by one (NoncesSpent), by induction over the   *)
(* loop that executes it.  PInv: the nonces of confirmed transactions are  *)
(* below those of the state, so that what is confirmed is not admitted     *)
(* again.  OwnOK: the node's own transactions, as long as it is not        *)
(* restarted, are pending or confirmed, and the pending ones of a wallet   *)
(* have the nonces from the state's on, one each.                          *)
(*                                                                         *)
(* Two theorems assume OnlyGossip: blocks that arrive while the node       *)
(* synchronises leave the pool as it is.                                   *)
(***************************************************************************)
EXTENDS Producer, LedgerOpsProofs

(* Nonces, and what the view of a ledger without an overlay is.            *)

(* Nonces are natural numbers.                                             *)
LEMMA NonceInNat ==
    ASSUME NEW st, IsLedger(st), NEW a
    PROVE  GetNonce(st, a) \in Nat
  BY GetAccountType DEF GetNonce, IsAccount, Nonce

(* Committing the overlay changes no nonce that is read through it.        *)
LEMMA AppliedNonces ==
    ASSUME NEW st, IsLedger(st), NEW a
    PROVE  GetNonce(ApplyChanges(st), a) = GetNonce(st, a)
  BY DEF IsLedger, IsAccounts, GetNonce, GetAccount, ApplyChanges,
         DiscardChanges, Overlay, Lookup, EmptyMap

(* Dropping the overlay leaves the stored nonces.                          *)
LEMMA DiscardedNonces ==
    ASSUME NEW st, IsLedger(st), NEW t, IsLedger(t), t.pending = EmptyMap,
           st.accounts = t.accounts, NEW a
    PROVE  GetNonce(DiscardChanges(st), a) = GetNonce(t, a)
  BY DEF IsLedger, GetNonce, GetAccount, DiscardChanges, Lookup, EmptyMap

-----------------------------------------------------------------------------
(* The loop over the transactions of a block. *)

(* What the loop makes of the outcomes before transaction i.               *)
LoopStep(txs, f, i) ==
    IF i = 0 THEN Ok(DiscardChanges(ledger))
    ELSE IF f[i - 1].ok THEN ProcessTransaction(f[i - 1].st, txs[i])
    ELSE f[i - 1]

Loops(txs, f) ==
    f = [i \in 0 .. Len(txs) |->
            LET done == f[i - 1] IN
            IF i = 0 THEN Ok(DiscardChanges(ledger))
            ELSE IF done.ok THEN ProcessTransaction(done.st, txs[i])
            ELSE done]

(* The model's operator is such a function.                                *)
LEMMA ExecutedIsLoop ==
    ASSUME NEW txs
    PROVE  Executed(txs) = CHOOSE f : Loops(txs, f)
  BY DEF Executed, Loops

(* There is such a function: it is built up by the number of transactions. *)
LEMMA LoopExists ==
    ASSUME NEW txs, Len(txs) \in Nat
    PROVE  \E f : Loops(txs, f)
  <1> DEFINE Built == {n \in Nat : \E f : \A i \in 0 .. n :
                                      f[i] = LoopStep(txs, f, i)}
  <1>1. 0 \in Built
    <2> DEFINE f == [i \in {0} |-> Ok(DiscardChanges(ledger))]
    <2>1. \A i \in 0 .. 0 : f[i] = LoopStep(txs, f, i)
      BY DEF LoopStep
    <2> HIDE DEF f
    <2> QED
      BY <2>1
  <1>2. ASSUME NEW n \in Nat, n \in Built PROVE n + 1 \in Built
    <2>1. PICK f : \A i \in 0 .. n : f[i] = LoopStep(txs, f, i)
      BY <1>2
    <2> DEFINE more == [i \in 0 .. n + 1 |->
                           IF i \in 0 .. n THEN f[i] ELSE LoopStep(txs, f, i)]
    <2>2. ASSUME NEW i \in 0 .. n + 1 PROVE more[i] = LoopStep(txs, f, i)
      BY <2>1
    <2>3. ASSUME NEW i \in 0 .. n + 1
          PROVE  LoopStep(txs, more, i) = LoopStep(txs, f, i)
      <3>1. CASE i = 0
        BY <3>1 DEF LoopStep
      <3>2. CASE i # 0
        <4>1. i - 1 \in 0 .. n
          BY <3>2
        <4>2. more[i - 1] = f[i - 1]
          BY <4>1
        <4> HIDE DEF more
        <4> QED
          BY <3>2, <4>2 DEF LoopStep
      <3> QED
        BY <3>1, <3>2
    <2> HIDE DEF more
    <2> QED
      BY <2>2, <2>3
  <1> HIDE DEF Built
  <1>3. Len(txs) \in Built
    BY <1>1, <1>2, NumberInduction
  <1>4. PICK f : \A i \in 0 .. Len(txs) : f[i] = LoopStep(txs, f, i)
    BY <1>3 DEF Built
  <1> DEFINE all == [i \in 0 .. Len(txs) |-> f[i]]
  <1>5. ASSUME NEW i \in 0 .. Len(txs) PROVE all[i] = LoopStep(txs, all, i)
    <2>1. CASE i = 0
      BY <1>4, <2>1 DEF LoopStep
    <2>2. CASE i # 0
      <3>1. i - 1 \in 0 .. Len(txs)
        BY <2>2
      <3>2. all[i] = f[i] /\ all[i - 1] = f[i - 1]
        BY <3>1
      <3> HIDE DEF all
      <3> QED
        BY <1>4, <2>2, <3>2 DEF LoopStep
    <2> QED
      BY <2>1, <2>2
  <1>6. all = [i \in 0 .. Len(txs) |-> all[i]]
    OBVIOUS
  <1> HIDE DEF all
  <1>7. all = [i \in 0 .. Len(txs) |-> LoopStep(txs, all, i)]
    BY <1>5, <1>6
  <1>8. Loops(txs, all)
    BY <1>7 DEF Loops, LoopStep
  <1> QED
    BY <1>8

(* The equation of the loop.                                               *)
LEMMA LoopUnfold ==
    ASSUME NEW txs, Len(txs) \in Nat, NEW i \in 0 .. Len(txs)
    PROVE  Executed(txs)[i] = LoopStep(txs, Executed(txs), i)
  <1> DEFINE f == Executed(txs)
  <1>1. Loops(txs, f)
    BY LoopExists, ExecutedIsLoop
  <1> HIDE DEF f
  <1>2. f[i] = LoopStep(txs, f, i)
    BY <1>1 DEF Loops, LoopStep
  <1> QED
    BY <1>2 DEF f

(* Between the ledgers s and t just the transactions txs were executed, as *)
(* far as nonces tell: each carried a nonce of its sender in between, and  *)
(* each such nonce was carried by one of them.                             *)
NoncesSpent(s, txs, t) ==
    /\ \A a : GetNonce(s, a) <= GetNonce(t, a)
    /\ \A tx \in txs :
          /\ Validate(tx)
          /\ GetNonce(s, tx.sender) <= tx.nonce
          /\ tx.nonce < GetNonce(t, tx.sender)
    /\ \A a : \A n \in Nat : GetNonce(s, a) <= n /\ n < GetNonce(t, a) =>
          \E tx \in txs : tx.sender = a /\ tx.nonce = n

(* One more transaction.                                                   *)
LEMMA SpendOne ==
    ASSUME NEW s, IsLedger(s), NEW txs \in SUBSET Transaction, NEW t,
           IsLedger(t), NoncesSpent(s, txs, t),
           NEW tx \in Transaction, ProcessTransaction(t, tx).ok
    PROVE  NoncesSpent(s, txs \cup {tx}, ProcessTransaction(t, tx).st)
  <1> DEFINE u == ProcessTransaction(t, tx).st
  <1>1. /\ tx.nonce = GetNonce(t, tx.sender)
        /\ GetNonce(u, tx.sender) = GetNonce(t, tx.sender) + 1
        /\ \A c : c # tx.sender => GetNonce(u, c) = GetNonce(t, c)
    BY ExecutedNonces
  <1>2. Validate(tx)
    BY ProcessTransactionSteps
  <1>3. \A a : GetNonce(s, a) \in Nat /\ GetNonce(t, a) \in Nat
    BY NonceInNat
  <1>4. \A a : GetNonce(t, a) <= GetNonce(u, a)
    BY <1>1, <1>3
  <1>5. \A a : GetNonce(u, a) \in Nat
    BY <1>1, <1>3
  <1> HIDE DEF u
  <1>6. \A a : GetNonce(s, a) <= GetNonce(u, a)
    BY <1>3, <1>4, <1>5 DEF NoncesSpent
  <1>7. ASSUME NEW x \in txs \cup {tx}
        PROVE  /\ Validate(x) /\ GetNonce(s, x.sender) <= x.nonce
               /\ x.nonce < GetNonce(u, x.sender)
    <2>1. CASE x \in txs
      <3>1. Validate(x) /\ GetNonce(s, x.sender) <= x.nonce
        BY <2>1 DEF NoncesSpent
      <3>2. x.nonce < GetNonce(t, x.sender)
        BY <2>1 DEF NoncesSpent
      <3>3. x.nonce \in Nat
        BY <2>1 DEF Transaction, Nonce
      <3> QED
        BY <1>3, <1>4, <1>5, <3>1, <3>2, <3>3
    <2>2. CASE x = tx
      BY <1>1, <1>2, <1>3, <2>2 DEF NoncesSpent
    <2> QED
      BY <2>1, <2>2
  <1>8. ASSUME NEW a, NEW n \in Nat, GetNonce(s, a) <= n, n < GetNonce(u, a)
        PROVE  \E x \in txs \cup {tx} : x.sender = a /\ x.nonce = n
    <2>1. CASE n < GetNonce(t, a)
      BY <1>8, <2>1 DEF NoncesSpent
    <2>2. CASE ~(n < GetNonce(t, a))
      <3>1. a = tx.sender
        BY <1>1, <1>8, <2>2
      <3>2. n = GetNonce(t, a)
        BY <1>1, <1>3, <1>8, <2>2, <3>1
      <3> QED
        BY <1>1, <3>1, <3>2
    <2> QED
      BY <2>1, <2>2
  <1> QED
    BY <1>6, <1>7, <1>8 DEF NoncesSpent, u

(* Transactions of a block, as far as the ith.                             *)
FirstOf(txs, i) == {txs[j] : j \in 1 .. i}

(* What the loop has done after transaction i.                             *)
LoopDone(txs, i, out) ==
    /\ IsOutcome(out)
    /\ out.st.accounts = ledger.accounts
    /\ out.ok => NoncesSpent(ledger, FirstOf(txs, i), out.st)

(* By induction over the transactions of the block.                        *)
LEMMA LoopRuns ==
    ASSUME IsLedger(ledger), ledger.pending = EmptyMap,
           NEW txs, Len(txs) \in Nat, \A j \in 1 .. Len(txs) : txs[j] \in Transaction,
           NEW i \in 0 .. Len(txs)
    PROVE  LoopDone(txs, i, Executed(txs)[i])
  <1> DEFINE f == Executed(txs)
             G == {n \in Nat : n <= Len(txs) => LoopDone(txs, n, f[n])}
  <1>1. 0 \in G
    <2>1. f[0] = Ok(DiscardChanges(ledger))
      BY LoopUnfold DEF LoopStep
    <2>2. DiscardChanges(ledger) = ledger
      BY DEF DiscardChanges, IsLedger
    <2>3. FirstOf(txs, 0) = {}
      BY DEF FirstOf
    <2>4. NoncesSpent(ledger, {}, ledger)
      BY NonceInNat DEF NoncesSpent
    <2> HIDE DEF f
    <2>5. LoopDone(txs, 0, f[0])
      BY <2>1, <2>2, <2>3, <2>4, OutcomeType DEF LoopDone, Ok
    <2> QED
      BY <2>5
  <1>2. ASSUME NEW n \in Nat, n \in G PROVE n + 1 \in G
    <2> SUFFICES ASSUME n + 1 <= Len(txs) PROVE LoopDone(txs, n + 1, f[n + 1])
      OBVIOUS
    <2>1. LoopDone(txs, n, f[n])
      BY <1>2
    <2>2. f[n + 1] = IF f[n].ok THEN ProcessTransaction(f[n].st, txs[n + 1])
                     ELSE f[n]
      <3>1. f[n + 1] = LoopStep(txs, f, n + 1)
        BY LoopUnfold
      <3>2. n + 1 # 0 /\ (n + 1) - 1 = n
        OBVIOUS
      <3> HIDE DEF f
      <3> QED
        BY <3>1, <3>2 DEF LoopStep
    <2> HIDE DEF f
    <2>3. CASE ~f[n].ok
      BY <2>1, <2>2, <2>3 DEF LoopDone
    <2>4. CASE f[n].ok
      <3> DEFINE st == f[n].st
                 tx == txs[n + 1]
                 out == ProcessTransaction(st, tx)
      <3>1. IsLedger(st) /\ tx \in Transaction
        BY <2>1 DEF LoopDone, IsOutcome
      <3>2. FirstOf(txs, n) \in SUBSET Transaction
        BY DEF FirstOf
      <3>3. FirstOf(txs, n + 1) = FirstOf(txs, n) \cup {tx}
        BY DEF FirstOf
      <3>4. NoncesSpent(ledger, FirstOf(txs, n), st)
        BY <2>1, <2>4 DEF LoopDone
      <3> HIDE DEF st, tx
      <3>5. IsOutcome(out)
        BY <3>1, ProcessTransactionType
      <3>6. out.st.accounts = st.accounts
        BY <3>1, ProcessTransactionTouches DEF Touches
      <3>7. out.ok => NoncesSpent(ledger, FirstOf(txs, n) \cup {tx}, out.st)
        BY <3>1, <3>2, <3>4, SpendOne
      <3>8. f[n + 1] = out /\ st.accounts = ledger.accounts
        BY <2>1, <2>2, <2>4 DEF LoopDone, st, tx
      <3> HIDE DEF out
      <3> QED
        BY <3>3, <3>5, <3>6, <3>7, <3>8 DEF LoopDone
    <2> QED
      BY <2>3, <2>4
  <1> HIDE DEF G
  <1>3. \A n \in Nat : n \in G
    BY <1>1, <1>2, NumberInduction
  <1> QED
    BY <1>3 DEF G

(* What becomes of the ledger when a block is added, and when it fails.    *)
BlockDone(s, txs, added) ==
    /\ IsLedger(added.st) /\ added.st.pending = EmptyMap
    /\ added.ok \in BOOLEAN
    /\ added.ok => NoncesSpent(s, txs, added.st)
    /\ ~added.ok => \A a : GetNonce(added.st, a) = GetNonce(s, a)

(* The loop's last outcome, committed or dropped.                          *)
LEMMA BlockRuns ==
    ASSUME IsLedger(ledger), ledger.pending = EmptyMap,
           NEW txs \in Seq(Transaction)
    PROVE  BlockDone(ledger, ToSet(txs), AddBlock(txs))
  <1> DEFINE all == Executed(txs)[Len(txs)]
  <1>1. /\ Len(txs) \in Nat /\ \A j \in 1 .. Len(txs) : txs[j] \in Transaction
        /\ ToSet(txs) = FirstOf(txs, Len(txs))
    BY DEF FirstOf, ToSet
  <1>2. LoopDone(txs, Len(txs), all)
    BY <1>1, LoopRuns
  <1>3. AddBlock(txs) = IF all.ok THEN Ok(ApplyChanges(all.st))
                        ELSE Err(DiscardChanges(all.st))
    BY DEF AddBlock
  <1> HIDE DEF all
  <1>4. IsLedger(all.st) /\ all.ok \in BOOLEAN /\ all.st.accounts = ledger.accounts
    BY <1>2 DEF LoopDone, IsOutcome
  <1>5. CASE all.ok
    <2> DEFINE t == ApplyChanges(all.st)
    <2>1. IsLedger(t)
      BY <1>4, ApplyChangesType
    <2>2. t.pending = EmptyMap
      BY <1>4 DEF ApplyChanges, DiscardChanges, IsLedger
    <2>3. \A a : GetNonce(t, a) = GetNonce(all.st, a)
      BY <1>4, AppliedNonces
    <2> HIDE DEF t
    <2>4. NoncesSpent(ledger, ToSet(txs), all.st)
      BY <1>1, <1>2, <1>5 DEF LoopDone
    <2>5. NoncesSpent(ledger, ToSet(txs), t)
      BY <2>3, <2>4 DEF NoncesSpent
    <2>6. AddBlock(txs) = Ok(t)
      BY <1>3, <1>5 DEF t
    <2> QED
      BY <2>1, <2>2, <2>5, <2>6 DEF BlockDone, Ok
  <1>6. CASE ~all.ok
    <2> DEFINE t == DiscardChanges(all.st)
    <2>1. IsLedger(t)
      BY <1>4, DiscardChangesType
    <2>2. t.pending = EmptyMap
      BY <1>4 DEF DiscardChanges, IsLedger
    <2>3. \A a : GetNonce(t, a) = GetNonce(ledger, a)
      BY <1>4, DiscardedNonces
    <2> HIDE DEF t
    <2>4. AddBlock(txs) = Err(t)
      BY <1>3, <1>6 DEF t
    <2> QED
      BY <2>1, <2>2, <2>3, <2>4 DEF BlockDone, Err
  <1> QED
    BY <1>4, <1>5, <1>6

-----------------------------------------------------------------------------
(* The inductive invariant. *)

PoolOK ==
    /\ mempool \subseteq Submissions \cup gossiped
    /\ IsFiniteSet(mempool) /\ Cardinality(mempool) <= Capacity
    /\ \A tx \in mempool : tx.signed

(* The nonces of confirmed transactions are used up.                       *)
UsedOK == \A tx \in confirmed : tx.nonce < GetNonce(ledger, tx.sender)

PInv ==
    /\ IsLedger(ledger) /\ ledger.pending = EmptyMap
    /\ PoolOK /\ UsedOK
    /\ my_address \in Wallets
    /\ claims \subseteq FaucetClients
    /\ last_slot \in {0, 1}
    /\ slot \in {"none", "produced", "failed"}
    /\ gossiped \subseteq Transaction
    /\ confirmed \subseteq Submissions \cup gossiped
    /\ restarts \in 0 .. MaxRestarts

(* The invariant implies the types.                                        *)
LEMMA InvariantTypes == PInv => TypeOK
  BY DEF PInv, PoolOK, TypeOK

(* What the node or others have signed are transactions.                   *)
LEMMA Known ==
    ASSUME PInv
    PROVE  /\ Submissions \cup gossiped \subseteq Transaction
           /\ mempool \subseteq Transaction /\ confirmed \subseteq Transaction
  BY ProducerAssumption DEF PInv, PoolOK

(* At the start nothing is pending and nothing confirmed.                  *)
LEMMA InitInv == Init => PInv
  <1> SUFFICES ASSUME Init PROVE PInv
    OBVIOUS
  <1>1. IsLedger(ledger) /\ ledger.pending = EmptyMap
    BY OpenLedgerType, ProducerAssumption DEF Init, OpenLedger
  <1>2. PoolOK /\ UsedOK
    BY FS_EmptySet, ProducerAssumption DEF Init, PoolOK, UsedOK
  <1> QED
    BY <1>1, <1>2, ProducerAssumption DEF Init, PInv

(* Admission keeps to the capacity, and lets in what is signed.            *)
LEMMA AdmittedPool ==
    ASSUME PInv, NEW tx, Admissible(tx)
    PROVE  /\ IsFiniteSet(mempool \cup {tx})
           /\ Cardinality(mempool \cup {tx}) <= Capacity
           /\ tx.signed
           /\ tx.nonce >= GetNonce(ledger, tx.sender)
  <1>1. IsFiniteSet(mempool) /\ Cardinality(mempool) \in Nat
        /\ Cardinality(mempool) < Capacity /\ Capacity \in Nat
    BY FS_CardinalityType, ProducerAssumption DEF PInv, PoolOK, Admissible
  <1>2. Cardinality(mempool \cup {tx}) <= Cardinality(mempool) + 1
    BY <1>1, FS_AddElement
  <1>3. Cardinality(mempool \cup {tx}) \in Nat /\ IsFiniteSet(mempool \cup {tx})
    BY <1>1, FS_AddElement, FS_CardinalityType
  <1> QED
    BY <1>1, <1>2, <1>3 DEF Admissible, Validate

(* A transaction comes in from the network or a client.                    *)
LEMMA ReceiveStep ==
    ASSUME PInv, NEW tx \in Submissions \cup gossiped, ReceiveTransaction(tx)
    PROVE  PInv'
  <1>1. PoolOK'
    BY AdmittedPool DEF ReceiveTransaction, PInv, PoolOK
  <1> QED
    BY <1>1 DEF PInv, UsedOK, ReceiveTransaction, slots

(* The nonce that the node signs with is a number.                         *)
LEMMA NextNonceNat == ASSUME PInv PROVE NextNonce \in Nat
  <1> DEFINE mine == {tx \in mempool : tx.sender = my_address}
  <1>1. IsFiniteSet(mine)
    BY FS_Subset DEF PInv, PoolOK
  <1>2. Cardinality(mine) \in Nat /\ GetNonce(ledger, my_address) \in Nat
    BY <1>1, FS_CardinalityType, NonceInNat DEF PInv
  <1> QED
    BY <1>2 DEF NextNonce

(* The node signs transactions.                                            *)
LEMMA OwnTransferType ==
    ASSUME PInv, NEW receiver \in Address, NEW amount \in U64
    PROVE  OwnTransfer(receiver, amount) \in Transaction
  <1> DEFINE d == [type |-> "NativeTransfer", amount |-> amount]
  <1>1. d \in TransactionData
    BY DEF TransactionData
  <1>2. my_address \in Address
    BY ProducerAssumption DEF PInv, Address
  <1> HIDE DEF d
  <1>3. [sender |-> my_address, receiver |-> receiver, nonce |-> NextNonce,
         signed |-> TRUE, data |-> d] \in Transaction
    BY <1>1, <1>2, NextNonceNat DEF Transaction, Nonce
  <1> QED
    BY <1>3 DEF OwnTransfer, d

(* Publishing a transaction of the node.                                   *)
LEMMA PublishStep ==
    ASSUME PInv, NEW tx \in Transaction, Publish(tx),
           UNCHANGED <<ledger, my_address, slots, confirmed, restarts>>,
           claims' \subseteq FaucetClients
    PROVE  PInv'
  <1>1. PoolOK'
    BY AdmittedPool DEF Publish, PInv, PoolOK
  <1>2. /\ gossiped' \subseteq Transaction
        /\ confirmed' \subseteq Submissions \cup gossiped'
    BY DEF Publish, PInv
  <1> QED
    BY <1>1, <1>2 DEF PInv, UsedOK, slots

(* The owner sends,                                                        *)
LEMMA CreateStep ==
    ASSUME PInv, NEW send \in Sends, CreateTransaction(send[1], send[2])
    PROVE  PInv'
  <1>1. send[1] \in Address /\ send[2] \in U64
    BY ProducerAssumption
  <1>2. OwnTransfer(send[1], send[2]) \in Transaction
    BY <1>1, OwnTransferType
  <1> QED
    BY <1>2, PublishStep DEF CreateTransaction, PInv

(* and the faucet does.                                                    *)
LEMMA FaucetStep ==
    ASSUME PInv, NEW r \in FaucetClients, Faucet(r)
    PROVE  PInv'
  <1>1. r \in Address /\ FaucetAmount \in U64
    BY ProducerAssumption DEF Address
  <1>2. OwnTransfer(r, FaucetAmount) \in Transaction
    BY <1>1, OwnTransferType
  <1>3. claims' \subseteq FaucetClients
    BY DEF Faucet, PInv
  <1> QED
    BY <1>2, <1>3, PublishStep DEF Faucet

(* The blocks of the node and of others are sequences of transactions.     *)
LEMMA OwnBlocks ==
    ASSUME PInv, NEW txs \in TransactionsForBlock
    PROVE  txs \in Seq(mempool)
  <1>1. PICK s \in SetToSeqs(mempool) :
            txs = SubSeq(s, 1, IF Len(s) < BlockLimit THEN Len(s) ELSE BlockLimit)
    BY DEF TransactionsForBlock
  <1>2. Cardinality(mempool) \in Nat
    BY FS_CardinalityType DEF PInv, PoolOK
  <1>3. s \in Seq(mempool)
    BY <1>2 DEF SetToSeqs
  <1> QED
    BY <1>1, <1>3, ProducerAssumption

(* Those of others hold what others sign or have seen of the node.         *)
LEMMA OtherBlocks ==
    ASSUME NEW txs \in ForeignBlocks
    PROVE  txs \in Seq(Submissions \cup gossiped)
  BY ProducerAssumption DEF ForeignBlocks, SeqOf

(* The members of a sequence over a set are in the set.                    *)
LEMMA SeqMembers ==
    ASSUME NEW S, NEW txs \in Seq(S)
    PROVE  ToSet(txs) \subseteq S
  BY DEF ToSet

(* A sequence over a set is one over every larger set.                     *)
LEMMA SeqWider ==
    ASSUME NEW S, NEW T, S \subseteq T, NEW txs \in Seq(S)
    PROVE  txs \in Seq(T)
  OBVIOUS

(* A block that is added confirms what it has, whatever leaves the pool.   *)
LEMMA BlockStep ==
    ASSUME PInv, NEW txs \in Seq(Transaction), NEW added,
           BlockDone(ledger, ToSet(txs), added), ledger' = added.st,
           ToSet(txs) \subseteq Submissions \cup gossiped,
           confirmed' = IF added.ok THEN confirmed \cup ToSet(txs) ELSE confirmed,
           mempool' \subseteq mempool,
           last_slot' \in {0, 1}, slot' \in {"none", "produced", "failed"},
           UNCHANGED <<my_address, claims, gossiped, restarts>>
    PROVE  PInv'
  <1>1. IsLedger(ledger') /\ ledger'.pending = EmptyMap
    BY DEF BlockDone
  <1>2. PoolOK'
    <2>1. IsFiniteSet(mempool') /\ Cardinality(mempool') <= Cardinality(mempool)
      BY FS_Subset DEF PInv, PoolOK
    <2>2. Cardinality(mempool') \in Nat /\ Cardinality(mempool) \in Nat
      BY <2>1, FS_CardinalityType DEF PInv, PoolOK
    <2> QED
      BY <2>1, <2>2, ProducerAssumption DEF PInv, PoolOK
  <1>3. \A a : /\ GetNonce(ledger, a) \in Nat /\ GetNonce(ledger', a) \in Nat
               /\ GetNonce(ledger, a) <= GetNonce(ledger', a)
    BY <1>1, NonceInNat DEF PInv, BlockDone, NoncesSpent
  <1>4. ASSUME NEW tx \in confirmed'
        PROVE  tx.nonce < GetNonce(ledger', tx.sender)
    <2>1. CASE tx \in confirmed
      <3>1. tx.nonce < GetNonce(ledger, tx.sender) /\ tx.nonce \in Nat
        BY <2>1, Known DEF PInv, UsedOK, Transaction, Nonce
      <3> QED
        BY <1>3, <3>1
    <2>2. CASE tx \notin confirmed
      <3>1. added.ok /\ tx \in ToSet(txs)
        BY <2>2
      <3> QED
        BY <3>1 DEF BlockDone, NoncesSpent
    <2> QED
      BY <2>1, <2>2
  <1>5. UsedOK'
    BY <1>4 DEF UsedOK
  <1> QED
    BY <1>1, <1>2, <1>5 DEF PInv

(* What ProduceBlock and ReceiveBlock do, with the block named.            *)
BlockAdded(txs, added) ==
    /\ txs \in Seq(Transaction)
    /\ BlockDone(ledger, ToSet(txs), added)
    /\ ledger' = added.st
    /\ ToSet(txs) \subseteq Submissions \cup gossiped
    /\ confirmed' = IF added.ok THEN confirmed \cup ToSet(txs) ELSE confirmed
    /\ UNCHANGED <<my_address, claims, gossiped, restarts>>

(* The node's own block, which takes from the pool,                        *)
LEMMA ProduceIsBlock ==
    ASSUME PInv, ProduceBlock
    PROVE  \E txs, added :
              /\ BlockAdded(txs, added)
              /\ ToSet(txs) \subseteq mempool
              /\ mempool' = IF added.ok THEN mempool \ ToSet(txs) ELSE mempool
              /\ last_slot' = 1 - last_slot
              /\ slot' \in {"produced", "failed"}
  <1>1. PICK txs \in TransactionsForBlock : \E added \in {AddBlock(txs)} :
          /\ ledger' = added.st
          /\ IF added.ok
             THEN /\ mempool' = mempool \ ToSet(txs)
                  /\ confirmed' = confirmed \cup ToSet(txs)
                  /\ slot' = "produced"
             ELSE /\ slot' = "failed"
                  /\ UNCHANGED <<mempool, confirmed>>
    BY DEF ProduceBlock
  <1> DEFINE added == AddBlock(txs)
  <1>2. txs \in Seq(mempool)
    BY OwnBlocks
  <1>3. txs \in Seq(Transaction) /\ ToSet(txs) \subseteq mempool
    BY <1>2, Known, SeqWider, SeqMembers
  <1>4. BlockDone(ledger, ToSet(txs), added)
    BY <1>3, BlockRuns DEF PInv
  <1>5. /\ ledger' = added.st
        /\ mempool' = IF added.ok THEN mempool \ ToSet(txs) ELSE mempool
        /\ confirmed' = IF added.ok THEN confirmed \cup ToSet(txs) ELSE confirmed
        /\ slot' \in {"produced", "failed"}
    BY <1>1
  <1>6. UNCHANGED <<my_address, claims, gossiped, restarts>>
        /\ last_slot' = 1 - last_slot
    BY DEF ProduceBlock, LeadSlot
  <1>7. ToSet(txs) \subseteq Submissions \cup gossiped
    BY <1>3 DEF PInv, PoolOK
  <1> HIDE DEF added
  <1>8. BlockAdded(txs, added)
    BY <1>3, <1>4, <1>5, <1>6, <1>7 DEF BlockAdded
  <1> QED
    BY <1>3, <1>5, <1>6, <1>8

(* and a block of another node.                                            *)
LEMMA ReceiveIsBlock ==
    ASSUME PInv, NEW txs \in ForeignBlocks, NEW source, ReceiveBlock(txs, source)
    PROVE  \E added :
              /\ BlockAdded(txs, added)
              /\ mempool' = IF added.ok THEN PoolAfterBlock(txs, source)
                            ELSE mempool
              /\ UNCHANGED slots
  <1> DEFINE added == AddBlock(txs)
  <1>1. txs \in Seq(Submissions \cup gossiped)
    BY OtherBlocks
  <1>2. txs \in Seq(Transaction) /\ ToSet(txs) \subseteq Submissions \cup gossiped
    BY <1>1, Known, SeqWider, SeqMembers
  <1>3. BlockDone(ledger, ToSet(txs), added)
    BY <1>2, BlockRuns DEF PInv
  <1>4. /\ ledger' = added.st
        /\ mempool' = IF added.ok THEN PoolAfterBlock(txs, source) ELSE mempool
        /\ confirmed' = IF added.ok THEN confirmed \cup ToSet(txs) ELSE confirmed
        /\ UNCHANGED <<my_address, claims, slots, gossiped, restarts>>
    BY DEF ReceiveBlock
  <1> HIDE DEF added
  <1>5. BlockAdded(txs, added)
    BY <1>2, <1>3, <1>4 DEF BlockAdded
  <1> QED
    BY <1>4, <1>5

(* Either keeps the invariant.                                             *)
LEMMA BlocksStep ==
    ASSUME PInv,
           \/ ProduceBlock
           \/ \E txs \in ForeignBlocks, source \in Sources : ReceiveBlock(txs, source)
    PROVE  PInv'
  <1>1. CASE ProduceBlock
    <2>1. PICK txs, added :
              /\ BlockAdded(txs, added)
              /\ mempool' = IF added.ok THEN mempool \ ToSet(txs) ELSE mempool
              /\ last_slot' = 1 - last_slot
              /\ slot' \in {"produced", "failed"}
      BY <1>1, ProduceIsBlock
    <2>2. mempool' \subseteq mempool /\ last_slot' \in {0, 1}
      BY <2>1 DEF PInv
    <2> QED
      BY <2>1, <2>2, BlockStep DEF BlockAdded
  <1>2. ASSUME NEW txs \in ForeignBlocks, NEW source \in Sources,
               ReceiveBlock(txs, source)
        PROVE  PInv'
    <2>1. PICK added :
              /\ BlockAdded(txs, added)
              /\ mempool' = IF added.ok THEN PoolAfterBlock(txs, source)
                            ELSE mempool
              /\ UNCHANGED slots
      BY <1>2, ReceiveIsBlock
    <2>2. mempool' \subseteq mempool
      BY <2>1 DEF PoolAfterBlock
    <2> QED
      BY <2>1, <2>2, BlockStep DEF BlockAdded, PInv, slots
  <1> QED
    BY <1>1, <1>2

(* The node's start: the registries are empty, the nonces are as stored.   *)
LEMMA RestartedLedger ==
    ASSUME PInv
    PROVE  LET t == FundSelf(OpenLedger(ledger.accounts))
           IN  /\ IsLedger(t) /\ t.pending = EmptyMap
               /\ \A a : GetNonce(t, a) = GetNonce(ledger, a)
  <1> DEFINE o == OpenLedger(ledger.accounts)
             acc == [GetAccount(o, SeedWallet) EXCEPT !.balance = StartBalance]
             b == SetBalance(o, SeedWallet, StartBalance)
  <1>1. IsAccounts(ledger.accounts) /\ IsLedger(o) /\ o.pending = EmptyMap
    BY OpenLedgerType DEF PInv, IsLedger, OpenLedger
  <1>2. \A a : GetNonce(o, a) = GetNonce(ledger, a)
    BY <1>1 DEF PInv, GetNonce, GetAccount, OpenLedger, Lookup, EmptyMap
  <1>3. SeedWallet \in Address /\ StartBalance \in U64
    BY ProducerAssumption DEF Address
  <1> HIDE DEF o
  <1>4. IsAccount(acc) /\ acc.nonce = GetNonce(o, SeedWallet)
    <2>1. IsAccount(GetAccount(o, SeedWallet))
      BY <1>1, GetAccountType
    <2>2. IsAccount(acc)
      BY <1>3, <2>1, BalanceType
    <2>3. acc.nonce = GetAccount(o, SeedWallet).nonce
      BY <2>1 DEF IsAccount
    <2> QED
      BY <2>2, <2>3 DEF GetNonce
  <1>5. b = Stage(o, SeedWallet, acc)
    BY DEF SetBalance
  <1> HIDE DEF acc, b
  <1>6. IsLedger(b)
    BY <1>1, <1>3, <1>4, <1>5, StageType
  <1>7. \A a : GetNonce(b, a) = GetNonce(o, a)
    BY <1>1, <1>4, <1>5, GetStaged DEF GetNonce
  <1>8. /\ IsLedger(ApplyChanges(b)) /\ ApplyChanges(b).pending = EmptyMap
        /\ \A a : GetNonce(ApplyChanges(b), a) = GetNonce(o, a)
    <2>1. IsLedger(ApplyChanges(b))
      BY <1>6, ApplyChangesType
    <2>2. ApplyChanges(b).pending = EmptyMap
      BY <1>6 DEF ApplyChanges, DiscardChanges, IsLedger
    <2>3. \A a : GetNonce(ApplyChanges(b), a) = GetNonce(o, a)
      BY <1>6, <1>7, AppliedNonces
    <2> QED
      BY <2>1, <2>2, <2>3
  <1>9. FundSelf(o) = IF GetBalance(o, SeedWallet) = 0 THEN ApplyChanges(b) ELSE o
    BY DEF FundSelf, b
  <1> QED
    BY <1>1, <1>2, <1>8, <1>9 DEF o

(* A restart empties the pool and keeps the stored nonces.                 *)
LEMMA RestartStep == ASSUME PInv, Restart PROVE PInv'
  <1>1. IsLedger(ledger') /\ ledger'.pending = EmptyMap
        /\ \A a : GetNonce(ledger', a) = GetNonce(ledger, a)
    BY RestartedLedger DEF Restart
  <1>2. PoolOK'
    BY FS_EmptySet, ProducerAssumption DEF Restart, PoolOK
  <1>3. UsedOK'
    BY <1>1 DEF Restart, PInv, UsedOK
  <1>4. restarts' \in 0 .. MaxRestarts
    BY ProducerAssumption DEF Restart, PInv
  <1> QED
    BY <1>1, <1>2, <1>3, <1>4, ProducerAssumption DEF Restart, PInv

(* Every step keeps the invariant.                                         *)
LEMMA StepInv == PInv /\ [Next]_vars => PInv'
  <1> SUFFICES ASSUME PInv, [Next]_vars PROVE PInv'
    OBVIOUS
  <1>1. CASE UNCHANGED vars
    BY <1>1 DEF vars, slots, PInv, PoolOK, UsedOK
  <1>2. ASSUME NEW tx \in Submissions \cup gossiped, ReceiveTransaction(tx)
        PROVE  PInv'
    BY <1>2, ReceiveStep
  <1>3. ASSUME NEW send \in Sends, CreateTransaction(send[1], send[2])
        PROVE  PInv'
    BY <1>3, CreateStep
  <1>4. ASSUME NEW r \in FaucetClients, Faucet(r) PROVE PInv'
    BY <1>4, FaucetStep
  <1>5. ASSUME NEW r \in FaucetClients, CooldownEnds(r) PROVE PInv'
    BY <1>5 DEF CooldownEnds, slots, PInv, PoolOK, UsedOK
  <1>6. CASE \/ ProduceBlock
             \/ \E txs \in ForeignBlocks, source \in Sources :
                    ReceiveBlock(txs, source)
    BY <1>6, BlocksStep
  <1>7. ASSUME NEW a \in Wallets, ChangeWallet(a) PROVE PInv'
    BY <1>7 DEF ChangeWallet, slots, PInv, PoolOK, UsedOK
  <1>8. CASE Restart
    BY <1>8, RestartStep
  <1> QED
    BY <1>1, <1>2, <1>3, <1>4, <1>5, <1>6, <1>7, <1>8 DEF Next

(* The invariant holds in every state of every behaviour.                  *)
LEMMA InvariantHolds == Spec => []PInv
  BY InitInv, StepInv, PTL DEF Spec

(* Every variable has its type, and the mempool stays within its capacity. *)
THEOREM ProducerTypeCorrect == Spec => []TypeOK
  BY InvariantHolds, InvariantTypes, PTL

-----------------------------------------------------------------------------
(* What is confirmed leaves the pool, if blocks come by gossip alone. *)

(* Blocks that others send take their transactions out of the pool.        *)
OnlyGossip == Sources \subseteq {"gossip"}

(* What is confirmed is refused, for its nonce.                            *)
LEMMA ConfirmedRefused ==
    ASSUME PInv, NEW tx \in Transaction, Admissible(tx)
    PROVE  tx \notin confirmed
  <1>1. tx.nonce >= GetNonce(ledger, tx.sender)
    BY DEF Admissible
  <1>2. tx.nonce \in Nat /\ GetNonce(ledger, tx.sender) \in Nat
    BY NonceInNat DEF PInv, Transaction, Nonce
  <1>3. tx \in confirmed => tx.nonce < GetNonce(ledger, tx.sender)
    BY DEF PInv, UsedOK
  <1> QED
    BY <1>1, <1>2, <1>3

(* Admission refuses what is confirmed, and blocks remove it.              *)
LEMMA LeavesStep ==
    ASSUME OnlyGossip, PInv, ConfirmedLeavesPool, [Next]_vars
    PROVE  ConfirmedLeavesPool'
  <1> USE DEF ConfirmedLeavesPool
  <1>1. CASE UNCHANGED vars
    BY <1>1 DEF vars
  <1>2. ASSUME NEW tx \in Submissions \cup gossiped, ReceiveTransaction(tx)
        PROVE  ConfirmedLeavesPool'
    BY <1>2, Known, ConfirmedRefused DEF ReceiveTransaction
  <1>3. ASSUME NEW send \in Sends, CreateTransaction(send[1], send[2])
        PROVE  ConfirmedLeavesPool'
    <2> DEFINE tx == OwnTransfer(send[1], send[2])
    <2>1. send[1] \in Address /\ send[2] \in U64
      BY ProducerAssumption
    <2>2. tx \in Transaction
      BY <2>1, OwnTransferType
    <2> HIDE DEF tx
    <2>3. Publish(tx) /\ confirmed' = confirmed
      BY <1>3 DEF CreateTransaction, tx
    <2> QED
      BY <2>2, <2>3, ConfirmedRefused DEF Publish
  <1>4. ASSUME NEW r \in FaucetClients, Faucet(r) PROVE ConfirmedLeavesPool'
    <2> DEFINE tx == OwnTransfer(r, FaucetAmount)
    <2>1. r \in Address /\ FaucetAmount \in U64
      BY ProducerAssumption DEF Address
    <2>2. tx \in Transaction
      BY <2>1, OwnTransferType
    <2> HIDE DEF tx
    <2>3. Publish(tx) /\ confirmed' = confirmed
      BY <1>4 DEF Faucet, tx
    <2> QED
      BY <2>2, <2>3, ConfirmedRefused DEF Publish
  <1>5. ASSUME NEW r \in FaucetClients, CooldownEnds(r)
        PROVE  ConfirmedLeavesPool'
    BY <1>5 DEF CooldownEnds
  <1>6. CASE ProduceBlock
    <2>1. PICK txs, added :
              /\ BlockAdded(txs, added)
              /\ mempool' = IF added.ok THEN mempool \ ToSet(txs) ELSE mempool
      BY <1>6, ProduceIsBlock
    <2> QED
      BY <2>1 DEF BlockAdded
  <1>7. ASSUME NEW txs \in ForeignBlocks, NEW source \in Sources,
               ReceiveBlock(txs, source)
        PROVE  ConfirmedLeavesPool'
    <2>1. PICK added :
              /\ BlockAdded(txs, added)
              /\ mempool' = IF added.ok THEN PoolAfterBlock(txs, source)
                            ELSE mempool
      BY <1>7, ReceiveIsBlock
    <2>2. source = "gossip"
      BY DEF OnlyGossip
    <2> QED
      BY <2>1, <2>2 DEF BlockAdded, PoolAfterBlock
  <1>8. ASSUME NEW a \in Wallets, ChangeWallet(a) PROVE ConfirmedLeavesPool'
    BY <1>8 DEF ChangeWallet
  <1>9. CASE Restart
    BY <1>9 DEF Restart
  <1> QED
    BY <1>1, <1>2, <1>3, <1>4, <1>5, <1>6, <1>7, <1>8, <1>9 DEF Next

(* Who has confirmed a transaction, this node or another, and however late *)
(* it is gossiped again: it is not pending any more.                       *)
THEOREM ConfirmedLeavesPoolCorrect ==
    ASSUME OnlyGossip
    PROVE  Spec => []ConfirmedLeavesPool
  <1>1. Init => ConfirmedLeavesPool
    BY DEF Init, ConfirmedLeavesPool
  <1> QED
    BY <1>1, LeavesStep, InvariantHolds, PTL DEF Spec

-----------------------------------------------------------------------------
(* Claims of the faucet. *)

(* A payment stays in the pool until it is confirmed.                      *)
LEMMA ClaimsStep ==
    ASSUME PInv, ClaimsArePaid, [Next]_vars
    PROVE  ClaimsArePaid'
  <1> SUFFICES ASSUME restarts' = 0, NEW r \in claims'
               PROVE  \E tx \in mempool' \cup confirmed' :
                         tx.receiver = r /\ tx.data.amount = FaucetAmount
    BY DEF ClaimsArePaid
  <1>1. restarts = 0 /\ ~Restart
    <2>1. CASE Restart
      BY <2>1 DEF Restart, PInv
    <2>2. CASE ~Restart
      BY <2>2 DEF Next, vars, slots, ReceiveTransaction, CreateTransaction,
         Faucet, CooldownEnds, ProduceBlock, ReceiveBlock, ChangeWallet
    <2> QED
      BY <2>1, <2>2
  <1>2. mempool \cup confirmed \subseteq mempool' \cup confirmed'
    <2>1. CASE ProduceBlock
      <3>1. PICK txs, added :
                /\ BlockAdded(txs, added)
                /\ mempool' = IF added.ok THEN mempool \ ToSet(txs) ELSE mempool
        BY <2>1, ProduceIsBlock
      <3> QED
        BY <3>1 DEF BlockAdded
    <2>2. ASSUME NEW txs \in ForeignBlocks, NEW source \in Sources,
                 ReceiveBlock(txs, source)
          PROVE  mempool \cup confirmed \subseteq mempool' \cup confirmed'
      <3>1. PICK added :
                /\ BlockAdded(txs, added)
                /\ mempool' = IF added.ok THEN PoolAfterBlock(txs, source)
                              ELSE mempool
        BY <2>2, ReceiveIsBlock
      <3> QED
        BY <3>1 DEF BlockAdded, PoolAfterBlock
    <2>3. CASE UNCHANGED vars
      BY <2>3 DEF vars
    <2> QED
      BY <1>1, <2>1, <2>2, <2>3 DEF Next, ReceiveTransaction, CreateTransaction,
         Publish, Faucet, CooldownEnds, ChangeWallet
  <1>3. CASE r \in claims
    BY <1>1, <1>2, <1>3 DEF ClaimsArePaid
  <1>4. CASE r \notin claims
    <2>1. Faucet(r)
      BY <1>1, <1>4 DEF Next, vars, slots, ReceiveTransaction, CreateTransaction,
         Faucet, CooldownEnds, ProduceBlock, ReceiveBlock, ChangeWallet
    <2> DEFINE tx == OwnTransfer(r, FaucetAmount)
    <2>2. tx \in mempool'
      BY <2>1 DEF Faucet, Publish
    <2>3. tx.receiver = r /\ tx.data.amount = FaucetAmount
      BY DEF OwnTransfer
    <2> HIDE DEF tx
    <2> QED
      BY <2>2, <2>3
  <1> QED
    BY <1>3, <1>4

(* Who has to wait was paid, or the payment is pending.                    *)
THEOREM ClaimsArePaidCorrect == Spec => []ClaimsArePaid
  <1>1. Init => ClaimsArePaid
    BY DEF Init, ClaimsArePaid
  <1> QED
    BY <1>1, ClaimsStep, InvariantHolds, PTL DEF Spec

-----------------------------------------------------------------------------
(* The nonces of the node's own pending transactions. *)

Mine(pool, a) == {tx \in pool : tx.sender = a}

OwnOK ==
    restarts = 0 =>
        /\ \A tx \in gossiped : tx.sender \in Wallets => tx \in mempool \cup confirmed
        /\ \A a \in Wallets : \E k \in Nat :
              Contiguous(Mine(mempool, a), GetNonce(ledger, a), k)

(* The invariant implies the property.                                     *)
LEMMA OwnOKMeans == ASSUME PInv, OwnOK PROVE OwnNoncesContiguous
  <1> SUFFICES ASSUME restarts = 0, NEW a \in Wallets
               PROVE  {tx.nonce : tx \in Mine(mempool, a)}
                        = GetNonce(ledger, a) ..
                            GetNonce(ledger, a) + Cardinality(Mine(mempool, a)) - 1
    BY DEF OwnNoncesContiguous, Mine
  <1>1. GetNonce(ledger, a) \in Nat
    BY NonceInNat DEF PInv
  <1>2. PICK k \in Nat : Contiguous(Mine(mempool, a), GetNonce(ledger, a), k)
    BY DEF OwnOK
  <1> QED
    BY <1>1, <1>2, ContiguousSize

(* Who signs for a wallet of the node is the node.                         *)
LEMMA SignedByNode ==
    ASSUME NEW tx \in Submissions \cup gossiped, tx.signed, tx.sender \in Wallets
    PROVE  tx \in gossiped
  BY ProducerAssumption

(* Nothing changes for the pool and the nonces.                            *)
LEMMA OwnSame ==
    ASSUME OwnOK,
           UNCHANGED <<ledger, mempool, gossiped, confirmed, restarts>>
    PROVE  OwnOK'
  BY DEF OwnOK

(* Own transactions that come back are in the pool already, or refused.    *)
LEMMA OwnReceive ==
    ASSUME PInv, OwnOK, NEW tx \in Submissions \cup gossiped, ReceiveTransaction(tx)
    PROVE  OwnOK'
  <1> SUFFICES ASSUME restarts' = 0 PROVE OwnOK'
    BY DEF OwnOK
  <1>1. /\ restarts = 0 /\ ledger' = ledger /\ gossiped' = gossiped
        /\ confirmed' = confirmed /\ mempool' = mempool \cup {tx}
        /\ tx.signed /\ tx \in Transaction
    BY Known DEF ReceiveTransaction, Admissible, Validate
  <1>2. tx.sender \in Wallets => tx \in mempool
    <2> SUFFICES ASSUME tx.sender \in Wallets PROVE tx \in mempool
      OBVIOUS
    <2>1. tx \in mempool \cup confirmed
      BY <1>1, SignedByNode DEF OwnOK
    <2>2. tx \notin confirmed
      BY <1>1, ConfirmedRefused DEF ReceiveTransaction
    <2> QED
      BY <2>1, <2>2
  <1>3. \A a \in Wallets : Mine(mempool', a) = Mine(mempool, a)
    BY <1>1, <1>2 DEF Mine
  <1> QED
    BY <1>1, <1>3 DEF OwnOK

(* The next nonce is the first that is free.                               *)
LEMMA OwnPublish ==
    ASSUME PInv, OwnOK, NEW receiver, NEW amount,
           Publish(OwnTransfer(receiver, amount)),
           UNCHANGED <<ledger, confirmed, restarts>>
    PROVE  OwnOK'
  <1> DEFINE tx == OwnTransfer(receiver, amount)
  <1> SUFFICES ASSUME restarts' = 0 PROVE OwnOK'
    BY DEF OwnOK
  <1>1. tx.sender = my_address /\ tx.nonce = NextNonce
    BY DEF OwnTransfer
  <1>2. /\ restarts = 0 /\ my_address \in Wallets
        /\ mempool' = mempool \cup {tx} /\ gossiped' = gossiped \cup {tx}
    BY DEF PInv, Publish
  <1> HIDE DEF tx
  <1>3. ASSUME NEW a \in Wallets
        PROVE  \E k \in Nat : Contiguous(Mine(mempool', a), GetNonce(ledger', a), k)
    <2>1. PICK k \in Nat : Contiguous(Mine(mempool, a), GetNonce(ledger, a), k)
      BY <1>2 DEF OwnOK
    <2>2. CASE a # my_address
      <3>1. Mine(mempool', a) = Mine(mempool, a)
        BY <1>1, <1>2, <2>2 DEF Mine
      <3> QED
        BY <2>1, <3>1
    <2>3. CASE a = my_address
      <3> DEFINE mine == Mine(mempool, a)
                 next == GetNonce(ledger, a)
      <3>1. Mine(mempool', a) = mine \cup {tx}
        BY <1>1, <1>2, <2>3 DEF Mine
      <3>2. next \in Nat
        BY NonceInNat DEF PInv
      <3> HIDE DEF mine, next
      <3>3. Contiguous(mine, next, k)
        BY <2>1 DEF mine, next
      <3>4. tx.nonce = next + k
        <4>1. Cardinality(mine) = k
          BY <3>2, <3>3, ContiguousSize
        <4>2. NextNonce = next + Cardinality(mine)
          BY <2>3 DEF NextNonce, mine, next, Mine
        <4> QED
          BY <1>1, <4>1, <4>2
      <3>5. Contiguous(mine \cup {tx}, next, k + 1)
        BY <3>2, <3>3, <3>4, ContiguousAdd
      <3>6. GetNonce(ledger', a) = next
        BY DEF next
      <3> QED
        BY <3>1, <3>5, <3>6
    <2> QED
      BY <2>2, <2>3
  <1>4. \A x \in gossiped' :
            x.sender \in Wallets => x \in mempool' \cup confirmed'
    BY <1>2 DEF OwnOK
  <1> QED
    BY <1>3, <1>4 DEF OwnOK

(* A block takes the first of them, whoever made it.                       *)
LEMMA ContiguousAfter ==
    ASSUME NEW mine, NEW next \in Nat, NEW k \in Nat, Contiguous(mine, next, k),
           NEW gone \in SUBSET mine, NEW then \in Nat, next <= then,
           \A tx \in gone : tx.nonce < then,
           \A n \in Nat : next <= n /\ n < then => \E tx \in gone : tx.nonce = n
    PROVE  \E l \in Nat : Contiguous(mine \ gone, then, l)
  <1> DEFINE l == next + k - then
  <1>1. then <= next + k
    <2> SUFFICES ASSUME then > next + k PROVE FALSE
      OBVIOUS
    <2>1. next + k \in Nat /\ next <= next + k /\ next + k < then
      OBVIOUS
    <2>2. PICK tx \in gone : tx.nonce = next + k
      BY <2>1
    <2>3. tx.nonce \in next .. next + k - 1
      BY DEF Contiguous
    <2> QED
      BY <2>2, <2>3
  <1>2. l \in Nat /\ then + l - 1 = next + k - 1
    BY <1>1
  <1>3. ASSUME NEW tx \in mine \ gone PROVE tx.nonce \in then .. next + k - 1
    <2>1. tx.nonce \in next .. next + k - 1
      BY DEF Contiguous
    <2>2. CASE tx.nonce < then
      <3>1. PICK ty \in gone : ty.nonce = tx.nonce
        BY <2>1, <2>2
      <3> QED
        BY <3>1 DEF Contiguous
    <2> QED
      BY <2>1, <2>2
  <1>4. ASSUME NEW n \in then .. next + k - 1
        PROVE  \E tx \in mine \ gone : tx.nonce = n
    <2>1. PICK tx \in mine : tx.nonce = n
      BY DEF Contiguous
    <2>2. tx \notin gone
      BY <2>1
    <2> QED
      BY <2>1, <2>2
  <1>5. Contiguous(mine \ gone, then, l)
    BY <1>2, <1>3, <1>4 DEF Contiguous
  <1> QED
    BY <1>2, <1>5

(* A block with transactions of the node finds them in the pool.           *)
LEMMA OwnBlock ==
    ASSUME PInv, PInv', OwnOK, NEW txs, NEW added, BlockAdded(txs, added),
           mempool' = IF added.ok THEN mempool \ ToSet(txs) ELSE mempool
    PROVE  OwnOK'
  <1> SUFFICES ASSUME restarts' = 0 PROVE OwnOK'
    BY DEF OwnOK
  <1>1. restarts = 0 /\ gossiped' = gossiped /\ ledger' = added.st
    BY DEF BlockAdded
  <1>2. mempool \cup confirmed \subseteq mempool' \cup confirmed'
    BY DEF BlockAdded
  <1>3. ASSUME NEW a \in Wallets
        PROVE  \E k \in Nat : Contiguous(Mine(mempool', a), GetNonce(ledger', a), k)
    <2> DEFINE mine == Mine(mempool, a)
               next == GetNonce(ledger, a)
               then == GetNonce(ledger', a)
               gone == {tx \in ToSet(txs) : tx.sender = a}
    <2>1. PICK k \in Nat : Contiguous(mine, next, k)
      BY <1>1 DEF OwnOK
    <2>2. CASE ~added.ok
      <3>1. then = next /\ Mine(mempool', a) = mine
        BY <1>1, <2>2 DEF BlockAdded, BlockDone
      <3> QED
        BY <2>1, <3>1
    <2>3. CASE added.ok
      <3>1. NoncesSpent(ledger, ToSet(txs), ledger')
        BY <1>1, <2>3 DEF BlockAdded, BlockDone
      <3>2. next \in Nat /\ then \in Nat /\ next <= then
        BY <3>1, NonceInNat DEF PInv, NoncesSpent
      <3>3. ASSUME NEW tx \in gone PROVE tx \in mempool
        <4>1. tx \in Submissions \cup gossiped /\ tx.signed
          BY <3>1 DEF BlockAdded, NoncesSpent, Validate
        <4>2. tx \in mempool \cup confirmed
          BY <1>1, <4>1, SignedByNode DEF OwnOK
        <4>3. GetNonce(ledger, tx.sender) <= tx.nonce
          BY <3>1 DEF NoncesSpent
        <4>4. tx.nonce \in Nat
          BY <4>1, Known DEF Transaction, Nonce
        <4>5. tx \in confirmed => tx.nonce < next
          BY DEF PInv, UsedOK
        <4> QED
          BY <3>2, <4>2, <4>3, <4>4, <4>5
      <3>4. gone \in SUBSET mine
        BY <3>3 DEF Mine
      <3>5. \A tx \in gone : tx.nonce < then
        BY <3>1 DEF NoncesSpent
      <3>6. \A n \in Nat : next <= n /\ n < then => \E tx \in gone : tx.nonce = n
        BY <3>1 DEF NoncesSpent
      <3>7. Mine(mempool', a) = mine \ gone
        BY <2>3 DEF Mine
      <3> HIDE DEF mine, next, then, gone
      <3>8. \E l \in Nat : Contiguous(mine \ gone, then, l)
        BY <2>1, <3>2, <3>4, <3>5, <3>6, ContiguousAfter
      <3> QED
        BY <3>7, <3>8 DEF then
    <2> QED
      BY <2>2, <2>3
  <1> QED
    BY <1>1, <1>2, <1>3 DEF OwnOK

(* Every step keeps the node's nonces contiguous.                          *)
LEMMA OwnStep ==
    ASSUME OnlyGossip, PInv, OwnOK, [Next]_vars
    PROVE  OwnOK'
  <1>1. CASE UNCHANGED vars
    BY <1>1, OwnSame DEF vars
  <1>2. ASSUME NEW tx \in Submissions \cup gossiped, ReceiveTransaction(tx)
        PROVE  OwnOK'
    BY <1>2, OwnReceive
  <1>3. ASSUME NEW send \in Sends, CreateTransaction(send[1], send[2])
        PROVE  OwnOK'
    BY <1>3, OwnPublish DEF CreateTransaction
  <1>4. ASSUME NEW r \in FaucetClients, Faucet(r) PROVE OwnOK'
    BY <1>4, OwnPublish DEF Faucet
  <1>5. ASSUME NEW r \in FaucetClients, CooldownEnds(r) PROVE OwnOK'
    BY <1>5, OwnSame DEF CooldownEnds
  <1>6. CASE ProduceBlock
    <2>1. PICK txs, added :
              /\ BlockAdded(txs, added)
              /\ mempool' = IF added.ok THEN mempool \ ToSet(txs) ELSE mempool
      BY <1>6, ProduceIsBlock
    <2> QED
      BY <2>1, StepInv, OwnBlock
  <1>7. ASSUME NEW txs \in ForeignBlocks, NEW source \in Sources,
               ReceiveBlock(txs, source)
        PROVE  OwnOK'
    <2>1. PICK added :
              /\ BlockAdded(txs, added)
              /\ mempool' = IF added.ok THEN PoolAfterBlock(txs, source)
                            ELSE mempool
      BY <1>7, ReceiveIsBlock
    <2>2. source = "gossip"
      BY DEF OnlyGossip
    <2> QED
      BY <2>1, <2>2, StepInv, OwnBlock DEF PoolAfterBlock
  <1>8. ASSUME NEW a \in Wallets, ChangeWallet(a) PROVE OwnOK'
    BY <1>8, OwnSame DEF ChangeWallet
  <1>9. CASE Restart
    <2>1. restarts' # 0
      BY <1>9 DEF Restart, PInv
    <2> QED
      BY <2>1 DEF OwnOK
  <1> QED
    BY <1>1, <1>2, <1>3, <1>4, <1>5, <1>6, <1>7, <1>8, <1>9 DEF Next

(* The nonces of the node's pending transactions follow those of the state *)
(* without a gap, whoever produces the blocks that confirm them.           *)
THEOREM OwnNoncesContiguousCorrect ==
    ASSUME OnlyGossip
    PROVE  Spec => []OwnNoncesContiguous
  <1>1. Init => OwnOK
    <2> SUFFICES ASSUME Init PROVE OwnOK
      OBVIOUS
    <2>1. IsLedger(ledger)
      BY InitInv DEF PInv
    <2>2. ASSUME NEW a PROVE Contiguous(Mine(mempool, a), GetNonce(ledger, a), 0)
      <3>1. GetNonce(ledger, a) \in Nat
        BY <2>1, NonceInNat
      <3>2. Mine(mempool, a) = {}
        BY DEF Init, Mine
      <3> QED
        BY <3>1, <3>2 DEF Contiguous
    <2> QED
      BY <2>2 DEF Init, OwnOK
  <1> QED
    BY <1>1, OwnStep, OwnOKMeans, InvariantHolds, PTL DEF Spec
=============================================================================
