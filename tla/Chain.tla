-------------------------------- MODULE Chain --------------------------------
(***************************************************************************)
(* One node's chain (core/src/chain.rs) on its storage                     *)
(* (core/src/storage.rs), with the consensus rules (core/src/consensus.rs) *)
(* and the set-up a node goes through when it starts (core/src/node.rs     *)
(* 178-213).                                                               *)
(*                                                                         *)
(* The blocks that exist are a constant: a hash determines its block.      *)
(* They are delivered in any order, any number of times, valid or not.     *)
(* add_block runs on one task and nothing interleaves with it, except that *)
(* the process can die between any two of its writes to storage: the       *)
(* handler is therefore cut at its writes, `pc` says where it stands, and  *)
(* every other handler waits for pc = "idle".                              *)
(***************************************************************************)
EXTENDS LedgerOps, ValidatorOps, Sequences, Functions

CONSTANTS
    Hashes,             \* the hashes of all blocks that exist
    Genesis,            \* the hash of the genesis block
    NoHash,             \* "0", the parent of genesis; also: no hash at all
    Header,             \* the block of each hash
    Keys,               \* consensus keys (Schnorrkel): produce and vote
    InitialValidators,  \* genesis.initial_validators, by consensus key
    SelfFunded,         \* the node's own wallet address in standalone mode
    GenesisFund,        \* 1_000_000: balance and stake given at the start
    Votes,              \* bound: the votes <<key, hash>> that may arrive
    KeepBlocks,         \* 1000: slots below the head that pruning keeps
    MaxCrashes,         \* bound on the number of crashes
    FailingWrites       \* the kinds of write that storage may refuse

(* `vrf` orders the VRF outputs as byte strings, `draw` reads them as      *)
(* fractions of ProbScale: the code compares them in both ways.  `valid`:  *)
(* the VRF proof verifies against the parent and tx_root is the root of    *)
(* `txs`.  `root_ok`: state_root is empty, as it is in every block that a  *)
(* node produces, or equal to the root computed.                           *)
Block ==
    [parent : Hashes \cup {NoHash}, slot : Nat, producer : Keys,
     vrf : Nat, draw : 0 .. ProbScale, valid : BOOLEAN, root_ok : BOOLEAN,
     txs : Seq(Transaction)]

WriteKinds == {"seen", "head", "block", "account", "height", "index", "vote"}

ASSUME ChainAssumption ==
    /\ Genesis \in Hashes /\ NoHash \notin Hashes
    /\ Header \in [Hashes -> Block]
    /\ Header[Genesis].slot = 0 /\ Header[Genesis].parent = NoHash
    /\ Keys \subseteq Addrs /\ InitialValidators \subseteq Keys
    /\ SelfFunded \subseteq Addrs \ Keys
    /\ GenesisFund \in U64 /\ GenesisFund >= MinStake /\ GenesisFund # 0
    /\ Votes \subseteq Keys \X Hashes
    /\ KeepBlocks \in Nat /\ MaxCrashes \in Nat
    /\ FailingWrites \subseteq WriteKinds

VARIABLES
    disk,           \* Chain::storage, except the accounts
    ledger,         \* Chain::state; its `accounts` are in storage
    head,           \* Chain::head
    validators,     \* Chain::validators
    seen_headers,   \* Chain::seen_headers
    votes,          \* Chain::votes
    finalized_head, \* Chain::finalized_head
    pc,             \* where the one running handler stands
    block,          \* the hash add_block is working on
    rest,           \* the transactions its current loop has yet to handle
    unwritten,      \* the staged accounts apply_changes has yet to write
    crashes,        \* how often the process died
    checked         \* history: blocks that reached the equivocation check

memory == <<ledger, head, validators, seen_headers, votes, finalized_head>>
handler == <<pc, block, rest, unwritten>>
vars == <<disk, memory, handler, crashes, checked>>

Slot(h) == Header[h].slot
SlotKey(h) == <<Header[h].slot, Header[h].producer>>

EmptyDisk ==
    [blocks |-> {}, head |-> NoHash, height |-> EmptyMap, seen |-> EmptyMap,
     votes |-> {}, txs |-> EmptyMap, history |-> [a \in Address |-> <<>>]]

(* store_block, store_head, store_seen_header, store_block_by_height and    *)
(* store_vote; storing again what is there changes nothing.                *)
PutBlock(d, h) == [d EXCEPT !.blocks = d.blocks \cup {h}]
PutHead(d, h) == [d EXCEPT !.head = h]
PutSeen(d, h) == [d EXCEPT !.seen = Put(d.seen, SlotKey(h), h)]
PutHeight(d, h) == [d EXCEPT !.height = Put(d.height, Slot(h), h)]
PutVote(d, key, h) == [d EXCEPT !.votes = d.votes \cup {<<key, h>>}]

(* The outcomes of a write whose error is logged and otherwise ignored. *)
Persist(kind, d) == IF kind \in FailingWrites THEN {disk, d} ELSE {d}

Init ==
    /\ disk = EmptyDisk
    /\ ledger = OpenLedger(EmptyMap)
    /\ head = NoHash
    /\ validators = NoValidators
    /\ seen_headers = EmptyMap
    /\ votes = [h \in Hashes |-> {}]
    /\ finalized_head = NoHash
    /\ pc = "down" /\ block = NoHash /\ rest = <<>> /\ unwritten = {}
    /\ crashes = 0
    /\ checked = {}

-----------------------------------------------------------------------------
(* Starting, and dying. *)

(* A configured validator is funded and registered only if its stored      *)
(* balance is zero.                                                        *)
Unfunded(accounts) ==
    {k \in InitialValidators \cup SelfFunded :
        Lookup(accounts, k, NewAccount).balance = 0}

Funding(accounts) ==
    [k \in Unfunded(accounts) |->
        [Lookup(accounts, k, NewAccount) EXCEPT !.balance = GenesisFund]]

GenesisValidators(keys) ==
    [members |-> [k \in keys |-> [stake |-> GenesisFund, slashed |-> FALSE]],
     total_stake |-> GenesisFund * Cardinality(keys)]

(* Chain::new and the node's set-up: everything in memory starts afresh. *)
Boot ==
    /\ pc = "down"
    /\ disk' = IF disk.head # NoHash THEN disk
               ELSE PutHead(PutBlock(disk, Genesis), Genesis)
    /\ head' = disk'.head
    /\ finalized_head' = disk'.head
    /\ ledger' = [OpenLedger(ledger.accounts)
                    EXCEPT !.pending = Funding(ledger.accounts)]
    /\ validators' = GenesisValidators(Unfunded(ledger.accounts))
    /\ seen_headers' = EmptyMap
    /\ votes' = [h \in Hashes |-> {}]
    /\ unwritten' = Unfunded(ledger.accounts)
    /\ pc' = "boot"
    /\ UNCHANGED <<block, rest, crashes, checked>>

Crash ==
    /\ pc # "down"
    /\ crashes < MaxCrashes
    /\ crashes' = crashes + 1
    /\ pc' = "down" /\ block' = NoHash /\ rest' = <<>> /\ unwritten' = {}
    /\ UNCHANGED <<disk, memory, checked>>

-----------------------------------------------------------------------------
(* add_block, up to its transactions. *)

(* Fork choice: the higher slot wins, then the lower VRF output. *)
IsBetter(new, old) ==
    \/ Slot(new) > Slot(old)
    \/ Slot(new) = Slot(old) /\ Header[new].vrf < Header[old].vrf

ParentStored(b) == Header[b].parent \in disk.blocks

SeenHash(b) ==
    Lookup(seen_headers, SlotKey(b), Lookup(disk.seen, SlotKey(b), NoHash))

(* Mutant: only the memory of this process is consulted. *)
EquivocatesInMemory(b) == Lookup(seen_headers, SlotKey(b), b) # b

Equivocates(b) == SeenHash(b) \notin {NoHash, b}

ValidBlock(b) ==
    /\ Slot(b) > Slot(Header[b].parent)
    /\ Header[b].valid
    /\ IsSlotLeader(validators, Header[b].producer, Header[b].draw)

(* The handler returns. *)
Return == pc' = "idle" /\ block' = NoHash /\ rest' = <<>> /\ unwritten' = {}

(* The header is remembered before the block is validated. *)
RecordHeader(b) ==
    IF SeenHash(b) = b
    THEN UNCHANGED <<seen_headers, disk>>
    ELSE /\ seen_headers' = Put(seen_headers, SlotKey(b), b)
         /\ disk' \in Persist("seen", PutSeen(disk, b))

IgnoreOrphan(b) ==
    /\ pc = "idle"
    /\ ~ParentStored(b)
    /\ UNCHANGED vars

(* Mutant: the second block is refused, its producer keeps its stake. *)
RejectEquivocation(b) ==
    /\ pc = "idle" /\ ParentStored(b) /\ Equivocates(b)
    /\ checked' = checked \cup {b}
    /\ UNCHANGED <<disk, memory, handler, crashes>>

SlashEquivocator(b) ==
    /\ pc = "idle" /\ ParentStored(b) /\ Equivocates(b)
    /\ validators' = SlashValidator(validators, Header[b].producer)
    /\ checked' = checked \cup {b}
    /\ UNCHANGED <<disk, ledger, head, seen_headers, votes, finalized_head,
                   handler, crashes>>

RejectBlock(b) ==
    /\ pc = "idle" /\ ParentStored(b) /\ ~Equivocates(b) /\ ~ValidBlock(b)
    /\ RecordHeader(b)
    /\ checked' = checked \cup {b}
    /\ UNCHANGED <<ledger, head, validators, votes, finalized_head, handler,
                   crashes>>

BeginBlock(b) ==
    /\ pc = "idle" /\ ParentStored(b) /\ ~Equivocates(b) /\ ValidBlock(b)
    /\ RecordHeader(b)
    /\ checked' = checked \cup {b}
    /\ ledger' = DiscardChanges(ledger)
    /\ pc' = "execute" /\ block' = b /\ rest' = Header[b].txs
    /\ UNCHANGED <<head, validators, votes, finalized_head, unwritten, crashes>>

-----------------------------------------------------------------------------
(* add_block: transactions, fork choice and commit. *)

ExecTx ==
    /\ pc = "execute" /\ rest # <<>>
    /\ LET outcome == ProcessTransaction(ledger, Head(rest)) IN
       IF outcome.ok
       THEN /\ ledger' = outcome.st
            /\ rest' = Tail(rest)
            /\ UNCHANGED <<pc, block, unwritten>>
       ELSE /\ ledger' = DiscardChanges(outcome.st)
            /\ Return
    /\ UNCHANGED <<disk, head, validators, seen_headers, votes, finalized_head,
                   crashes, checked>>

RejectRoot ==
    /\ pc = "execute" /\ rest = <<>>
    /\ ~Header[block].root_ok
    /\ ledger' = DiscardChanges(ledger)
    /\ Return
    /\ UNCHANGED <<disk, head, validators, seen_headers, votes, finalized_head,
                   crashes, checked>>

(* get_head panics when the head's block is not in storage: add_block      *)
(* calls it before it compares, the node at every slot.                    *)
PanicOnHead ==
    /\ \/ pc = "idle"
       \/ pc = "execute" /\ rest = <<>> /\ Header[block].root_ok
    /\ head \notin disk.blocks
    /\ pc' = "panicked"
    /\ UNCHANGED <<disk, memory, block, rest, unwritten, crashes, checked>>

(* Mutant: the head follows every block that is accepted. *)
FollowLatest ==
    /\ pc = "execute" /\ rest = <<>>
    /\ Header[block].root_ok
    /\ head \in disk.blocks
    /\ head' = block
    /\ disk' \in Persist("head", PutHead(disk, block))
    /\ pc' = "store"
    /\ UNCHANGED <<ledger, validators, seen_headers, votes, finalized_head,
                   block, rest, unwritten, crashes, checked>>

(* The head is written to storage before its block is. *)
ChooseFork ==
    /\ pc = "execute" /\ rest = <<>>
    /\ Header[block].root_ok
    /\ head \in disk.blocks
    /\ IF IsBetter(block, head)
       THEN /\ head' = block
            /\ disk' \in Persist("head", PutHead(disk, block))
       ELSE UNCHANGED <<head, disk>>
    /\ pc' = "store"
    /\ UNCHANGED <<ledger, validators, seen_headers, votes, finalized_head,
                   block, rest, unwritten, crashes, checked>>

StoreBlock ==
    /\ pc = "store"
    /\ disk' = PutBlock(disk, block)
    /\ pc' = "commit"
    /\ unwritten' = DOMAIN ledger.pending
    /\ UNCHANGED <<memory, block, rest, crashes, checked>>

StoreBlockFails ==
    /\ pc = "store" /\ "block" \in FailingWrites
    /\ ledger' = DiscardChanges(ledger)
    /\ Return
    /\ UNCHANGED <<disk, head, validators, seen_headers, votes, finalized_head,
                   crashes, checked>>

(* apply_changes writes the staged accounts one by one, in no order. *)
WriteAccount(a) ==
    /\ pc \in {"boot", "commit"}
    /\ a \in unwritten
    /\ ledger' = [ledger EXCEPT !.accounts =
                    Put(ledger.accounts, a, ledger.pending[a])]
    /\ unwritten' = unwritten \ {a}
    /\ UNCHANGED <<disk, head, validators, seen_headers, votes, finalized_head,
                   pc, block, rest, crashes, checked>>

(* It returns at the first write that fails, with the overlay in place.    *)
WriteAccountFails ==
    /\ pc \in {"boot", "commit"} /\ "account" \in FailingWrites
    /\ unwritten # {}
    /\ Return
    /\ UNCHANGED <<disk, memory, crashes, checked>>

FinishBoot ==
    /\ pc = "boot" /\ unwritten = {}
    /\ ledger' = DiscardChanges(ledger)
    /\ Return
    /\ UNCHANGED <<disk, head, validators, seen_headers, votes, finalized_head,
                   crashes, checked>>

(* apply_changes empties the overlay, and the block is indexed by its slot *)
(* whether or not it is the head.                                          *)
FinishCommit ==
    /\ pc = "commit" /\ unwritten = {}
    /\ ledger' = DiscardChanges(ledger)
    /\ disk' \in Persist("height", PutHeight(disk, block))
    /\ pc' = "index" /\ rest' = Header[block].txs
    /\ UNCHANGED <<head, validators, seen_headers, votes, finalized_head,
                   block, unwritten, crashes, checked>>

-----------------------------------------------------------------------------
(* add_block: what follows the commit, for each transaction. *)

AppendHistory(d, a, tx) ==
    [d EXCEPT !.history = [d.history EXCEPT ![a] = Append(@, tx)]]

PutTx(d, tx, h) == [d EXCEPT !.txs = Put(d.txs, tx, h)]

IndexEntries == {"tx", "sender", "receiver"}

(* The three writes are separate: each may fail on its own.                *)
IndexWrites ==
    IF "index" \in FailingWrites THEN SUBSET IndexEntries ELSE {IndexEntries}

(* Mutant: the receiver's history is forgotten. *)
IndexTxSenderOnly(d, tx, h, written) ==
    LET indexed == IF "tx" \in written THEN PutTx(d, tx, h) ELSE d
    IN  IF "sender" \in written
        THEN AppendHistory(indexed, tx.sender, tx) ELSE indexed

(* Both parties get an entry, also when they are the same address.         *)
IndexTx(d, tx, h, written) ==
    LET indexed == IF "tx" \in written THEN PutTx(d, tx, h) ELSE d
        sent == IF "sender" \in written
                THEN AppendHistory(indexed, tx.sender, tx) ELSE indexed
    IN  IF "receiver" \in written
        THEN AppendHistory(sent, tx.receiver, tx) ELSE sent

PostTx ==
    /\ pc = "index" /\ rest # <<>>
    /\ LET tx == Head(rest)
           type == tx.data.type
           member == IsValidator(validators, tx.sender)
       IN
       /\ validators' =
            CASE type = "RegisterValidator" ->
                   RegisterValidator(validators, tx.sender, tx.data.stake)
              [] type = "UnregisterValidator" ->
                   UnregisterValidator(validators, tx.sender)
              [] OTHER -> validators
       /\ ledger' =
            IF type = "UnregisterValidator" /\ member
            THEN Credit(ledger, tx.sender, validators.members[tx.sender].stake)
            ELSE ledger
       /\ \E written \in IndexWrites :
             disk' = IndexTx(disk, tx, block, written)
    /\ rest' = Tail(rest)
    /\ UNCHANGED <<head, seen_headers, votes, finalized_head, pc, block,
                   unwritten, crashes, checked>>

EndBlock ==
    /\ pc = "index" /\ rest = <<>>
    /\ Return
    /\ UNCHANGED <<disk, memory, crashes, checked>>

-----------------------------------------------------------------------------
(* Votes and pruning. *)

Stakes == [k \in DOMAIN validators.members |-> validators.members[k].stake]

VoteStake(keys) ==
    SumFunctionOnSet(Stakes, keys \cap DOMAIN validators.members)

(* Mutant: half of the stake is enough. *)
ReachesHalf(keys) ==
    /\ validators.total_stake > 0
    /\ 2 * VoteStake(keys) >= validators.total_stake

(* total_vote_stake > 0.6666 * total_stake *)
ReachesFinality(keys) ==
    /\ validators.total_stake > 0
    /\ 10000 * VoteStake(keys) > 6666 * validators.total_stake

(* A vote need not be for a block the node has. *)
AddVote(key, h) ==
    /\ pc = "idle"
    /\ IsValidator(validators, key)
    /\ key \notin votes[h]
    /\ votes' = [votes EXCEPT ![h] = votes[h] \cup {key}]
    /\ disk' \in Persist("vote", PutVote(disk, key, h))
    /\ finalized_head' = IF ReachesFinality(votes'[h]) THEN h ELSE finalized_head
    /\ UNCHANGED <<ledger, head, validators, seen_headers, handler, crashes,
                   checked>>

(* Removes the blocks indexed at some heights, except the head.            *)
DropBlocksAt(d, heights) ==
    [d EXCEPT !.blocks = d.blocks \ ({d.height[s] : s \in heights} \ {head})]

(* Removes these heights from the index.                                   *)
DropHeights(d, heights) ==
    [d EXCEPT !.height = [s \in DOMAIN d.height \ heights |-> d.height[s]]]

IndexedBelow(d, target) == DOMAIN d.height \cap 1 .. target - 1

(* Mutant: the index entries of the pruned blocks stay behind.             *)
PruneBlocksOnly(d, target) == DropBlocksAt(d, IndexedBelow(d, target))

(* Mutant: the target height itself is pruned too.                         *)
PruneUpTo(d, target) ==
    LET heights == IndexedBelow(d, target + 1)
    IN  DropHeights(DropBlocksAt(d, heights), heights)

PruneBlocksBefore(d, target) ==
    LET heights == IndexedBelow(d, target)
    IN  DropHeights(DropBlocksAt(d, heights), heights)

Prune ==
    /\ pc = "idle"
    /\ head \in disk.blocks
    /\ Slot(head) > KeepBlocks
    /\ disk' = PruneBlocksBefore(disk, Slot(head) - KeepBlocks)
    /\ UNCHANGED <<memory, handler, crashes, checked>>

-----------------------------------------------------------------------------
AddBlock ==
    \/ \E b \in Hashes : \/ IgnoreOrphan(b)
                         \/ SlashEquivocator(b)
                         \/ RejectBlock(b)
                         \/ BeginBlock(b)
    \/ ExecTx
    \/ RejectRoot
    \/ ChooseFork
    \/ StoreBlock
    \/ StoreBlockFails
    \/ \E a \in Address : WriteAccount(a)
    \/ WriteAccountFails
    \/ FinishCommit
    \/ PostTx
    \/ EndBlock

Next ==
    \/ Boot
    \/ FinishBoot
    \/ AddBlock
    \/ PanicOnHead
    \/ \E v \in Votes : AddVote(v[1], v[2])
    \/ Prune
    \/ Crash

Spec == Init /\ [][Next]_vars

-----------------------------------------------------------------------------
(* Types. *)

IsDisk(d) ==
    /\ d = [blocks |-> d.blocks, head |-> d.head, height |-> d.height,
            seen |-> d.seen, votes |-> d.votes, txs |-> d.txs,
            history |-> d.history]
    /\ d.blocks \subseteq Hashes
    /\ d.head \in Hashes \cup {NoHash}
    /\ IsMap(d.height, Nat, Hashes)
    /\ IsMap(d.seen, Nat \X Keys, Hashes)
    /\ d.votes \subseteq Votes
    /\ IsMap(d.txs, Transaction, Hashes)
    /\ d.history \in [Address -> Seq(Transaction)]

(* Every variable has its type, whatever the history of crashes is.        *)
TypeOK ==
    /\ IsDisk(disk)
    /\ IsLedger(ledger)
    /\ head \in Hashes \cup {NoHash}
    /\ IsMap(validators.members, Address, ValidatorInfo)
    /\ IsMap(seen_headers, Nat \X Keys, Hashes)
    /\ votes \in [Hashes -> SUBSET Keys]
    /\ finalized_head \in Hashes \cup {NoHash}
    /\ pc \in {"down", "boot", "idle", "execute", "store", "commit", "index",
               "panicked"}
    /\ block \in Hashes \cup {NoHash}
    /\ rest \in Seq(Transaction)
    /\ unwritten \subseteq DOMAIN ledger.pending
    /\ crashes \in 0 .. MaxCrashes
    /\ checked \subseteq Hashes

-----------------------------------------------------------------------------
(* Fork choice and the block tree. *)

(* Whatever the order of delivery, crashes included, no block in storage   *)
(* is better than the head.                                                *)
HeadIsBest ==
    pc # "down" => \A b \in disk.blocks : ~IsBetter(b, head)

(* chain.rs 254: "Block hash found but content missing (shouldn't happen)".*)
(* The height index names blocks that are in storage, at their own slot,   *)
(* across accepting, pruning, crashing and failing writes.                 *)
HeightIndexSound ==
    \A s \in DOMAIN disk.height :
        disk.height[s] \in disk.blocks /\ Slot(disk.height[s]) = s

(* Of a producer that signs several blocks for one slot at most one is     *)
(* ever stored, also when the process dies and forgets what it saw.        *)
OneBlockPerProducerSlot ==
    \A b, c \in disk.blocks \ {Genesis} : SlotKey(b) = SlotKey(c) => b = c

(* Blocks form a tree with increasing slots, from which pruning cuts only  *)
(* what lies more than KeepBlocks slots behind the head.                   *)
ParentBehindAndKept ==
    \A b \in disk.blocks \ {Genesis} :
        LET p == Header[b].parent
        IN  /\ Slot(p) < Slot(b)
            /\ p \in disk.blocks \/ Slot(p) < Slot(head) - KeepBlocks

-----------------------------------------------------------------------------
(* Validators. *)

(* The running total is the sum of the stakes, and slashed members have    *)
(* none, under any interleaving of registration, refund and slashing.      *)
StakeAccounting ==
    /\ validators.total_stake = SumFunction(Stakes)
    /\ \A k \in DOMAIN validators.members :
         validators.members[k].slashed => validators.members[k].stake = 0

(* WHITEPAPER 7.2: "Slashing: 100% of stake for equivocation".  Once two   *)
(* blocks of a producer for one slot have been examined, in any order and  *)
(* on any forks, the producer has no stake as long as the process runs.    *)
EquivocatorHasNoStake ==
    \A b, c \in checked :
        b # c /\ SlotKey(b) = SlotKey(c) =>
            LET k == Header[b].producer
            IN  ~IsValidator(validators, k) \/ validators.members[k].stake = 0

(* Accountable finality: whenever the votes on two blocks would both pass  *)
(* the threshold, validators with a third of the stake voted for both (up  *)
(* to the rounding of 0.6666), whatever was slashed, registered or paid    *)
(* back since they voted.                                                  *)
FinalityQuorumsOverlap ==
    \A g1, g2 \in Hashes :
        ReachesFinality(votes[g1]) /\ ReachesFinality(votes[g2]) =>
            10000 * VoteStake(votes[g1] \cap votes[g2])
                > 3332 * validators.total_stake

-----------------------------------------------------------------------------
(* The ledger and the indexes. *)

IndexedBy(a) == {tx \in DOMAIN disk.txs : tx.sender = a}
IndexedFor(a) == {tx \in DOMAIN disk.txs : tx.receiver = a}

(* Between blocks an account's stored nonce counts the transactions it has *)
(* in accepted blocks: none is applied twice, by a re-delivered block or   *)
(* on a second fork, and none is skipped.                                  *)
NonceCountsIndexedTxs ==
    pc = "idle" =>
        \A a \in Addrs :
            Lookup(ledger.accounts, a, NewAccount).nonce =
                Cardinality(IndexedBy(a))

(* The history of an address lists the indexed transactions it takes part  *)
(* in, as often as it takes part.                                          *)
HistoryMatchesIndex ==
    \A a \in Address :
        /\ Len(disk.history[a]) =
             Cardinality(IndexedBy(a)) + Cardinality(IndexedFor(a))
        /\ \A i \in DOMAIN disk.history[a] :
             disk.history[a][i] \in IndexedBy(a) \cup IndexedFor(a)

-----------------------------------------------------------------------------
(* What the documentation says and the code does not do. *)

(* node.rs 180: "PRE-REGISTER Configured Validators".  A node that runs    *)
(* has the configured validators in its set.                               *)
ConfiguredValidatorsRegistered ==
    pc = "idle" => InitialValidators \subseteq DOMAIN validators.members
=============================================================================
