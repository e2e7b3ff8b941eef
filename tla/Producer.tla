------------------------------ MODULE Producer ------------------------------
(***************************************************************************)
(* Mempool (core/src/mempool.rs), block production and faucet of one node  *)
(* (the main loop of core/src/node.rs), on the ledger of LedgerOps.        *)
(*                                                                         *)
(* The loop is one task: each handler is one step.  Blocks are what        *)
(* matters of them here, a sequence of transactions; that they pass the    *)
(* consensus rules and are stored is the subject of Chain.  Which slots    *)
(* the node leads is left to chance, so the validator set is not part of   *)
(* the state, and with it no refund: no transaction unregisters.           *)
(***************************************************************************)
EXTENDS LedgerOps, SequencesExt

CONSTANTS
    Wallets,          \* the addresses whose key the node may hold
    SeedWallet,       \* the one that its validator_seed determines
    StartBalance,     \* 1_000_000: what that one is given when it has nothing
    Submissions,      \* the transactions that others sign
    Sends,            \* <<receiver, amount>> that the owner may ask to send
    FaucetClients,    \* the addresses that may ask the faucet
    FaucetAmount,     \* 1000
    Capacity,         \* 1000: transactions in the mempool
    BlockLimit,       \* 100: transactions in a block
    Sources,          \* how foreign blocks arrive: "gossip", "sync"
    InitialAccounts,  \* the accounts in storage at the start
    MaxNonce,         \* bound on the nonces of the node's own transactions
    MaxRestarts       \* bound on the number of restarts

ASSUME ProducerAssumption ==
    /\ Wallets \subseteq Addrs /\ SeedWallet \in Wallets /\ StartBalance \in U64
    /\ FaucetClients \subseteq Addrs
    /\ Submissions \subseteq Transaction
    /\ \A tx \in Submissions : tx.data.type # "UnregisterValidator"
    /\ \A tx \in Submissions : tx.signed => tx.sender \notin Wallets
    /\ Sends \subseteq Address \X U64 /\ FaucetAmount \in U64
    /\ Capacity \in Nat /\ BlockLimit \in Nat \ {0}
    /\ Sources \subseteq {"gossip", "sync"}
    /\ IsAccounts(InitialAccounts)
    /\ MaxNonce \in Nat /\ MaxRestarts \in Nat

VARIABLES
    ledger,      \* Chain::state
    mempool,     \* Mempool::transactions; distinct ones differ in signature
    my_address,  \* the wallet that the node signs with
    claims,      \* storage: the addresses whose faucet claim is recent
    last_slot,   \* the last slot that the node led, modulo 2
    slot,        \* what became of it: "none", "produced" or "failed"
    gossiped,    \* the node's own transactions, which its peers have seen
    confirmed,   \* history: the transactions of accepted blocks
    restarts     \* how often the node was restarted

slots == <<last_slot, slot>>
vars == <<ledger, mempool, my_address, claims, slots, gossiped, confirmed,
          restarts>>

Init ==
    /\ ledger = OpenLedger(InitialAccounts)
    /\ mempool = {}
    /\ my_address = SeedWallet
    /\ claims = {}
    /\ last_slot = 0 /\ slot = "none"
    /\ gossiped = {}
    /\ confirmed = {}
    /\ restarts = 0

-----------------------------------------------------------------------------
(* Admission to the mempool. *)

(* The check against the state, one conjunct for each type that has one.   *)
Covered(tx) ==
    LET d == tx.data IN
    /\ d.type \in {"NativeTransfer", "OpenChannel"} =>
          GetBalance(ledger, tx.sender) >= d.amount
    /\ d.type = "TransferAsset" =>
          /\ HasAccount(ledger, tx.sender)
          /\ AssetBalance(ledger, tx.sender, d.id) >= d.amount
    /\ d.type = "CloseChannel" => d.id \in DOMAIN ledger.channels

(* Mutant: a nonce that was used is let in. *)
AdmissibleAgain(tx) ==
    Cardinality(mempool) < Capacity /\ Validate(tx) /\ Covered(tx)

(* Mutant: the capacity is exceeded by one. *)
AdmissibleBeyondCapacity(tx) ==
    /\ Cardinality(mempool) <= Capacity
    /\ Validate(tx) /\ Covered(tx)
    /\ tx.nonce >= GetNonce(ledger, tx.sender)

(* Gaps between nonces are let in. *)
Admissible(tx) ==
    /\ Cardinality(mempool) < Capacity
    /\ Validate(tx) /\ Covered(tx)
    /\ tx.nonce >= GetNonce(ledger, tx.sender)

(* From the network or through the HTTP interface; own ones come back.     *)
ReceiveTransaction(tx) ==
    /\ Admissible(tx)
    /\ mempool' = mempool \cup {tx}
    /\ UNCHANGED <<ledger, my_address, claims, slots, gossiped, confirmed,
                   restarts>>

(* Mutant: pending transactions are not counted. *)
StateNonce == GetNonce(ledger, my_address)

(* The nonce in the state plus the node's transactions in the mempool.     *)
NextNonce ==
    GetNonce(ledger, my_address)
    + Cardinality({tx \in mempool : tx.sender = my_address})

OwnTransfer(receiver, amount) ==
    [sender |-> my_address, receiver |-> receiver, nonce |-> NextNonce,
     signed |-> TRUE, data |-> [type |-> "NativeTransfer", amount |-> amount]]

Publish(tx) ==
    /\ NextNonce <= MaxNonce
    /\ Admissible(tx)
    /\ mempool' = mempool \cup {tx}
    /\ gossiped' = gossiped \cup {tx}

CreateTransaction(receiver, amount) ==
    /\ Publish(OwnTransfer(receiver, amount))
    /\ UNCHANGED <<ledger, my_address, claims, slots, confirmed, restarts>>

-----------------------------------------------------------------------------
(* Faucet.  Time is abstracted to the end of an address's cooldown. *)

(* Mutant: the claim is recorded whether or not the transfer is admitted.  *)
FaucetClaimsFirst(receiver) ==
    LET tx == OwnTransfer(receiver, FaucetAmount) IN
    /\ receiver \notin claims
    /\ GetBalance(ledger, my_address) >= FaucetAmount
    /\ NextNonce <= MaxNonce
    /\ claims' = claims \cup {receiver}
    /\ IF Admissible(tx)
       THEN mempool' = mempool \cup {tx} /\ gossiped' = gossiped \cup {tx}
       ELSE UNCHANGED <<mempool, gossiped>>
    /\ UNCHANGED <<ledger, my_address, slots, confirmed, restarts>>

Faucet(receiver) ==
    /\ receiver \notin claims
    /\ GetBalance(ledger, my_address) >= FaucetAmount
    /\ Publish(OwnTransfer(receiver, FaucetAmount))
    /\ claims' \in {claims \cup {receiver}, claims}  \* a failed write is logged
    /\ UNCHANGED <<ledger, my_address, slots, confirmed, restarts>>

CooldownEnds(receiver) ==
    /\ receiver \in claims
    /\ claims' = claims \ {receiver}
    /\ UNCHANGED <<ledger, mempool, my_address, slots, gossiped, confirmed,
                   restarts>>

-----------------------------------------------------------------------------
(* Blocks. *)

(* The loop of Chain::add_block: the outcome after each transaction of the *)
(* block, until one fails.                                                 *)
Executed(txs) ==
    LET executed[i \in 0 .. Len(txs)] ==
            LET done == executed[i - 1] IN
            IF i = 0 THEN Ok(DiscardChanges(ledger))
            ELSE IF done.ok THEN ProcessTransaction(done.st, txs[i])
            ELSE done
    IN  executed

(* Chain::add_block on a block that passes the consensus rules: all its    *)
(* transactions execute, or the overlay is dropped.                        *)
AddBlock(txs) ==
    LET all == Executed(txs)[Len(txs)]
    IN  IF all.ok THEN Ok(ApplyChanges(all.st)) ELSE Err(DiscardChanges(all.st))

(* The pool is a hash map and its values are sorted by nonce alone: which  *)
(* of several with equal nonces comes first is left to chance.             *)
TransactionsForBlock ==
    LET orders == {s \in SetToSeqs(mempool) :
                      \A i, j \in DOMAIN s : i < j => s[i].nonce <= s[j].nonce}
    IN  {SubSeq(s, 1, IF Len(s) < BlockLimit THEN Len(s) ELSE BlockLimit) :
            s \in orders}

LeadSlot == last_slot' = 1 - last_slot

(* A block that fails leaves its transactions in the mempool.              *)
ProduceBlock ==
    /\ LeadSlot
    /\ \E txs \in TransactionsForBlock : \E added \in {AddBlock(txs)} :
          /\ ledger' = added.st
          /\ IF added.ok
             THEN /\ mempool' = mempool \ ToSet(txs)
                  /\ confirmed' = confirmed \cup ToSet(txs)
                  /\ slot' = "produced"
             ELSE /\ slot' = "failed"
                  /\ UNCHANGED <<mempool, confirmed>>
    /\ UNCHANGED <<my_address, claims, gossiped, restarts>>

(* Mutant: only the producer of a block removes its transactions.          *)
NothingRemoved(txs, source) == mempool

(* Blocks that arrive during synchronisation go to the chain and not to    *)
(* the mempool.                                                            *)
PoolAfterBlock(txs, source) ==
    IF source = "gossip" THEN mempool \ ToSet(txs) ELSE mempool

(* Blocks of other nodes, with transactions that others may have seen.     *)
ReceiveBlock(txs, source) ==
    /\ \E added \in {AddBlock(txs)} :
          /\ ledger' = added.st
          /\ IF added.ok
             THEN /\ mempool' = PoolAfterBlock(txs, source)
                  /\ confirmed' = confirmed \cup ToSet(txs)
             ELSE UNCHANGED <<mempool, confirmed>>
    /\ UNCHANGED <<my_address, claims, slots, gossiped, restarts>>

ForeignBlocks == SeqOf(Submissions \cup gossiped, BlockLimit)

-----------------------------------------------------------------------------
(* CreateWallet and RecoverWallet: the file is rewritten as well. *)
ChangeWallet(a) ==
    /\ my_address' = a
    /\ UNCHANGED <<ledger, mempool, claims, slots, gossiped, confirmed, restarts>>

FundSelf(st) ==
    IF GetBalance(st, SeedWallet) = 0
    THEN ApplyChanges(SetBalance(st, SeedWallet, StartBalance))
    ELSE st

(* The mempool and the registries are in memory only, and the wallet is    *)
(* the seed's again.  What restarts do to validators is in Chain.          *)
Restart ==
    /\ restarts < MaxRestarts
    /\ restarts' = restarts + 1
    /\ mempool' = {}
    /\ ledger' = FundSelf(OpenLedger(ledger.accounts))
    /\ my_address' = SeedWallet
    /\ last_slot' = 0 /\ slot' = "none"
    /\ UNCHANGED <<claims, gossiped, confirmed>>

Next ==
    \/ \E tx \in Submissions \cup gossiped : ReceiveTransaction(tx)
    \/ \E send \in Sends : CreateTransaction(send[1], send[2])
    \/ \E r \in FaucetClients : Faucet(r) \/ CooldownEnds(r)
    \/ ProduceBlock
    \/ \E txs \in ForeignBlocks, source \in Sources : ReceiveBlock(txs, source)
    \/ \E a \in Wallets : ChangeWallet(a)
    \/ Restart

(* The loop comes to every slot unless the node syncs, and a validator     *)
(* with stake leads some slot again and again.  Nothing else has to        *)
(* happen.  (A restarted node has no stake, as Chain shows; what is        *)
(* expected below is expected of a node that was not restarted.)           *)
Fairness == WF_last_slot(LeadSlot)

Spec == Init /\ [][Next]_vars /\ Fairness

-----------------------------------------------------------------------------
(* Every variable has its type, and the mempool stays within its capacity. *)
TypeOK ==
    /\ IsLedger(ledger)
    /\ mempool \subseteq Submissions \cup gossiped
    /\ Cardinality(mempool) <= Capacity
    /\ my_address \in Wallets
    /\ claims \subseteq FaucetClients
    /\ last_slot \in {0, 1}
    /\ slot \in {"none", "produced", "failed"}
    /\ gossiped \subseteq Transaction
    /\ confirmed \subseteq Submissions \cup gossiped
    /\ restarts \in 0 .. MaxRestarts

(* A transaction that a block has confirmed is not in the mempool, however *)
(* often it is gossiped again and whoever produced the block.              *)
ConfirmedLeavesPool == mempool \cap confirmed = {}

(* The transactions that the node signs and has pending carry the nonces   *)
(* that follow the state's, each once, although the nonce is computed from *)
(* two sources that blocks change independently.  (A restart forgets what  *)
(* its peers still have.)                                                  *)
OwnNoncesContiguous ==
    restarts = 0 =>
        \A a \in Wallets :
            LET mine == {tx \in mempool : tx.sender = a}
                next == GetNonce(ledger, a)
            IN  {tx.nonce : tx \in mine} = next .. next + Cardinality(mine) - 1

(* Who has to wait for the faucet was paid or is about to be.              *)
ClaimsArePaid ==
    restarts = 0 =>
        \A r \in claims : \E tx \in mempool \cup confirmed :
            tx.receiver = r /\ tx.data.amount = FaucetAmount

(* Admission looks at each transaction alone.  Together a sender's may     *)
(* cost more than it has, and those of others may leave out a nonce.       *)
Overcommitted(a) ==
    LET pending == {tx \in mempool : tx.sender = a}
        next == GetNonce(ledger, a)
    IN  \/ MapThenSumSet(LAMBDA tx : tx.data.amount, pending)
               > GetBalance(ledger, a)
        \/ /\ a \notin Wallets
           /\ {tx.nonce : tx \in pending} # next .. next + Cardinality(pending) - 1

(* What the node signs for its owner or the faucet is confirmed in the     *)
(* end, whichever of it other producers take into their blocks, unless an  *)
(* overcommitted sender is in the mempool: its blocks are rejected.        *)
OwnTransactionsConfirmed ==
    \A a \in Wallets, n \in 0 .. MaxNonce :
        (\E tx \in mempool : tx.sender = a /\ tx.nonce = n)
            ~> \/ \E tx \in confirmed : tx.sender = a /\ tx.nonce = n
               \/ \E x \in Addrs : Overcommitted(x)
               \/ restarts > 0

-----------------------------------------------------------------------------
(* What a test expects and the code does not do. *)

(* tests/integration_test.rs 131: "Blockchain failed to progress!".  A     *)
(* node that leads slots produces blocks again and again.                  *)
BlocksKeepComing == []<>(slot = "produced")
=============================================================================
