----------------------------- MODULE ChainProofs -----------------------------
(***************************************************************************)
(* Proofs about one node's chain, for every universe of blocks, any number *)
(* of crashes, and storage that may refuse writes:                         *)
(*   the height index only names stored blocks, at their slots;            *)
(*   the head is the best block in storage, if writes of the head succeed; *)
(*   storage holds one block per producer and slot, if writes of seen      *)
(*   headers succeed;                                                      *)
(*   parents lie behind their blocks, and are kept or pruned far below the *)
(*   head, if writes of the head succeed;                                  *)
(*   every variable keeps its type;                                        *)
(*   the total stake is the sum of the members' stakes, and two finality   *)
(*   quorums overlap;                                                      *)
(*   an equivocator has no stake, while the process lives and no consensus *)
(*   key registers again;                                                  *)
(*   the nonces count the indexed transactions and the histories list      *)
(*   them, if no block is cut off between its accounts and its index.      *)
(***************************************************************************)
EXTENDS Chain, LedgerOpsProofs

-----------------------------------------------------------------------------
(* Storage. *)

(* The shape of the storage record and what its block keys are.            *)
DiskShape(d) ==
    /\ d = [blocks |-> d.blocks, head |-> d.head, height |-> d.height,
            seen |-> d.seen, votes |-> d.votes, txs |-> d.txs,
            history |-> d.history]
    /\ d.blocks \subseteq Hashes
    /\ d.head \in Hashes \cup {NoHash}

(* What one handler step may do to the parts of storage that its name does *)
(* not mention: nothing.                                                   *)
SameBut(field, c, d) ==
    /\ field # "blocks" => c.blocks = d.blocks
    /\ field # "head" => c.head = d.head
    /\ field # "height" => c.height = d.height
    /\ field # "seen" => c.seen = d.seen

(* store_block adds one block.                                             *)
LEMMA PutBlockShape ==
    ASSUME NEW d, DiskShape(d), NEW h \in Hashes
    PROVE  /\ DiskShape(PutBlock(d, h))
           /\ SameBut("blocks", PutBlock(d, h), d)
           /\ PutBlock(d, h).blocks = d.blocks \cup {h}
  BY DEF DiskShape, SameBut, PutBlock

(* store_head moves the stored head.                                       *)
LEMMA PutHeadShape ==
    ASSUME NEW d, DiskShape(d), NEW h \in Hashes
    PROVE  /\ DiskShape(PutHead(d, h))
           /\ SameBut("head", PutHead(d, h), d)
           /\ PutHead(d, h).head = h
  BY DEF DiskShape, SameBut, PutHead

(* store_seen_header records one header.                                   *)
LEMMA PutSeenShape ==
    ASSUME NEW d, DiskShape(d), NEW h
    PROVE  /\ DiskShape(PutSeen(d, h))
           /\ SameBut("seen", PutSeen(d, h), d)
           /\ PutSeen(d, h).seen = Put(d.seen, SlotKey(h), h)
  BY DEF DiskShape, SameBut, PutSeen

(* store_block_by_height points one slot at one block.                     *)
LEMMA PutHeightShape ==
    ASSUME NEW d, DiskShape(d), NEW h
    PROVE  /\ DiskShape(PutHeight(d, h))
           /\ SameBut("height", PutHeight(d, h), d)
           /\ PutHeight(d, h).height = Put(d.height, Slot(h), h)
  BY DEF DiskShape, SameBut, PutHeight

(* store_vote touches votes only.                                          *)
LEMMA PutVoteShape ==
    ASSUME NEW d, DiskShape(d), NEW key, NEW h
    PROVE  /\ DiskShape(PutVote(d, key, h))
           /\ SameBut("votes", PutVote(d, key, h), d)
  BY DEF DiskShape, SameBut, PutVote

(* The transaction indexes are apart from blocks, head, heights and seen   *)
(* headers, whichever of their writes fail.                                *)
LEMMA IndexTxShape ==
    ASSUME NEW d, DiskShape(d), NEW tx, NEW h, NEW written
    PROVE  /\ DiskShape(IndexTx(d, tx, h, written))
           /\ SameBut("txs", IndexTx(d, tx, h, written), d)
  <1>1. ASSUME NEW c, DiskShape(c)
        PROVE  DiskShape(PutTx(c, tx, h)) /\ SameBut("txs", PutTx(c, tx, h), c)
    BY <1>1 DEF DiskShape, SameBut, PutTx
  <1>2. ASSUME NEW c, DiskShape(c), NEW a
        PROVE  /\ DiskShape(AppendHistory(c, a, tx))
               /\ SameBut("txs", AppendHistory(c, a, tx), c)
    BY <1>2 DEF DiskShape, SameBut, AppendHistory
  <1> DEFINE indexed == IF "tx" \in written THEN PutTx(d, tx, h) ELSE d
             sent == IF "sender" \in written
                     THEN AppendHistory(indexed, tx.sender, tx) ELSE indexed
  <1>3. DiskShape(indexed) /\ SameBut("txs", indexed, d)
    BY <1>1 DEF SameBut
  <1> HIDE DEF indexed
  <1>4. DiskShape(sent) /\ SameBut("txs", sent, d)
    BY <1>2, <1>3 DEF SameBut
  <1> HIDE DEF sent
  <1>5. /\ DiskShape(IF "receiver" \in written
                     THEN AppendHistory(sent, tx.receiver, tx) ELSE sent)
        /\ SameBut("txs", IF "receiver" \in written
                          THEN AppendHistory(sent, tx.receiver, tx) ELSE sent, d)
    BY <1>2, <1>4 DEF SameBut
  <1> QED
    BY <1>5 DEF IndexTx, indexed, sent

(* prune_blocks_before removes heights below its target, and of the blocks *)
(* only those that the removed heights name.                               *)
LEMMA PruneShape ==
    ASSUME NEW d, DiskShape(d), NEW target
    PROVE  LET p == PruneBlocksBefore(d, target)
               heights == IndexedBelow(d, target)
           IN  /\ DiskShape(p)
               /\ p.head = d.head /\ p.seen = d.seen
               /\ p.height = [s \in DOMAIN d.height \ heights |-> d.height[s]]
               /\ p.blocks = d.blocks \ ({d.height[s] : s \in heights} \ {head})
  <1> DEFINE heights == IndexedBelow(d, target)
             c == DropBlocksAt(d, heights)
  <1>1. /\ DiskShape(c) /\ SameBut("blocks", c, d)
        /\ c.blocks = d.blocks \ ({d.height[s] : s \in heights} \ {head})
    BY DEF DiskShape, SameBut, DropBlocksAt
  <1> HIDE DEF c
  <1>2. /\ DiskShape(DropHeights(c, heights))
        /\ SameBut("height", DropHeights(c, heights), c)
        /\ DropHeights(c, heights).height =
             [s \in DOMAIN c.height \ heights |-> c.height[s]]
    BY <1>1 DEF DiskShape, SameBut, DropHeights
  <1> QED
    BY <1>1, <1>2 DEF PruneBlocksBefore, SameBut, c

-----------------------------------------------------------------------------
(* The shape of every reachable state. *)

Shape ==
    /\ DiskShape(disk)
    /\ pc \in {"execute", "store", "commit", "index"} => block \in Hashes
    /\ pc # "down" => head \in Hashes

(* The outcomes of a write are the storage before and after it.            *)
LEMMA PersistOutcomes ==
    ASSUME NEW kind, NEW d, NEW e \in Persist(kind, d)
    PROVE  e = d \/ e = disk
  BY DEF Persist

(* Storage always has its shape, the head is always a hash, and a handler  *)
(* that works on a block works on one that exists.                         *)
LEMMA ShapeInvariant == Spec => []Shape
  <1>1. Init => Shape
    BY DEF Init, Shape, DiskShape, EmptyDisk
  <1>2. Shape /\ [Next]_vars => Shape'
    <2> SUFFICES ASSUME Shape, [Next]_vars PROVE Shape'
      OBVIOUS
    <2> USE DEF Shape, memory, handler
    <2>1. CASE Boot
      <3>1. Genesis \in Hashes
        BY ChainAssumption
      <3>2. DiskShape(PutHead(PutBlock(disk, Genesis), Genesis))
            /\ PutHead(PutBlock(disk, Genesis), Genesis).head = Genesis
        BY <3>1, PutBlockShape, PutHeadShape
      <3>3. DiskShape(disk') /\ disk'.head \in Hashes
        BY <2>1, <3>1, <3>2 DEF Boot, DiskShape
      <3> QED
        BY <2>1, <3>3 DEF Boot
    <2>2. CASE FinishBoot
      BY <2>2 DEF FinishBoot, Return
    <2>3. ASSUME NEW b \in Hashes, IgnoreOrphan(b) PROVE Shape'
      BY <2>3 DEF IgnoreOrphan, vars
    <2>4. ASSUME NEW b \in Hashes, SlashEquivocator(b) PROVE Shape'
      BY <2>4 DEF SlashEquivocator
    <2>5. ASSUME NEW b \in Hashes, RecordHeader(b) PROVE DiskShape(disk')
      BY <2>5, PutSeenShape, PersistOutcomes DEF RecordHeader
    <2>6. ASSUME NEW b \in Hashes, RejectBlock(b) PROVE Shape'
      BY <2>5, <2>6 DEF RejectBlock
    <2>7. ASSUME NEW b \in Hashes, BeginBlock(b) PROVE Shape'
      BY <2>5, <2>7 DEF BeginBlock
    <2>8. CASE ExecTx
      BY <2>8 DEF ExecTx, Return
    <2>9. CASE RejectRoot
      BY <2>9 DEF RejectRoot, Return
    <2>10. CASE ChooseFork
      <3>1. block \in Hashes
        BY <2>10 DEF ChooseFork
      <3>2. DiskShape(PutHead(disk, block))
        BY <3>1, PutHeadShape
      <3>3. DiskShape(disk') /\ head' \in Hashes
        BY <2>10, <3>1, <3>2, PersistOutcomes DEF ChooseFork
      <3> QED
        BY <2>10, <3>1, <3>3 DEF ChooseFork
    <2>11. CASE StoreBlock
      BY <2>11, PutBlockShape DEF StoreBlock
    <2>12. CASE StoreBlockFails
      BY <2>12 DEF StoreBlockFails, Return
    <2>13. ASSUME NEW a \in Address, WriteAccount(a) PROVE Shape'
      BY <2>13 DEF WriteAccount
    <2>14. CASE WriteAccountFails
      BY <2>14 DEF WriteAccountFails, Return
    <2>15. CASE FinishCommit
      BY <2>15, PutHeightShape, PersistOutcomes DEF FinishCommit
    <2>16. CASE PostTx
      BY <2>16, IndexTxShape DEF PostTx
    <2>17. CASE EndBlock
      BY <2>17 DEF EndBlock, Return
    <2>18. CASE PanicOnHead
      BY <2>18 DEF PanicOnHead
    <2>19. ASSUME NEW v \in Votes, AddVote(v[1], v[2]) PROVE Shape'
      BY <2>19, PutVoteShape, PersistOutcomes DEF AddVote
    <2>20. CASE Prune
      BY <2>20, PruneShape DEF Prune
    <2>21. CASE Crash
      BY <2>21 DEF Crash
    <2>22. CASE UNCHANGED vars
      BY <2>22 DEF vars
    <2> QED
      BY <2>1, <2>2, <2>3, <2>4, <2>6, <2>7, <2>8, <2>9, <2>10, <2>11, <2>12,
         <2>13, <2>14, <2>15, <2>16, <2>17, <2>18, <2>19, <2>20, <2>21, <2>22
      DEF Next, AddBlock
  <1> QED
    BY <1>1, <1>2, PTL DEF Spec

-----------------------------------------------------------------------------
(* The height index. *)

(* HeightIndexSound alone is not inductive: FinishCommit indexes `block`,  *)
(* which must be in storage by then.                                       *)
HeightInv ==
    /\ HeightIndexSound
    /\ pc = "commit" => block \in disk.blocks

(* Steps that keep the index and remove no block keep HeightIndexSound.    *)
LEMMA HeightKept ==
    ASSUME HeightIndexSound, disk'.height = disk.height,
           disk.blocks \subseteq disk'.blocks
    PROVE  HeightIndexSound'
  BY DEF HeightIndexSound, Slot

(* chain.rs 254, "Block hash found but content missing (shouldn't happen)":*)
(* it does not happen.  Whatever blocks exist, whichever writes fail,      *)
(* however often the process dies and however it prunes, the height index  *)
(* names blocks that are in storage, at their own slots.                   *)
THEOREM HeightIndexCorrect == Spec => []HeightIndexSound
  <1>1. Init => HeightInv
    BY DEF Init, HeightInv, HeightIndexSound, EmptyDisk, EmptyMap
  <1>2. Shape /\ HeightInv /\ [Next]_vars => HeightInv'
    <2> SUFFICES ASSUME Shape, HeightInv, [Next]_vars PROVE HeightInv'
      OBVIOUS
    <2> USE DEF memory, handler
    <2>0. DiskShape(disk) /\ HeightIndexSound
      BY DEF Shape, HeightInv
    <2>1. CASE Boot
      <3>1. Genesis \in Hashes
        BY ChainAssumption
      <3>2. /\ PutHead(PutBlock(disk, Genesis), Genesis).height = disk.height
            /\ disk.blocks \subseteq PutHead(PutBlock(disk, Genesis), Genesis).blocks
        BY <2>0, <3>1, PutBlockShape, PutHeadShape DEF SameBut
      <3> QED
        BY <2>0, <2>1, <3>2, HeightKept DEF Boot, HeightInv
    <2>2. CASE FinishBoot
      BY <2>0, <2>2, HeightKept DEF FinishBoot, Return, HeightInv
    <2>3. ASSUME NEW b \in Hashes, IgnoreOrphan(b) PROVE HeightInv'
      BY <2>0, <2>3, HeightKept DEF IgnoreOrphan, vars, HeightInv
    <2>4. ASSUME NEW b \in Hashes, SlashEquivocator(b) PROVE HeightInv'
      BY <2>0, <2>4, HeightKept DEF SlashEquivocator, HeightInv
    <2>5. ASSUME NEW b \in Hashes, RecordHeader(b) PROVE HeightIndexSound'
      BY <2>0, <2>5, PutSeenShape, PersistOutcomes, HeightKept
      DEF RecordHeader, SameBut
    <2>6. ASSUME NEW b \in Hashes, RejectBlock(b) PROVE HeightInv'
      BY <2>5, <2>6 DEF RejectBlock, HeightInv
    <2>7. ASSUME NEW b \in Hashes, BeginBlock(b) PROVE HeightInv'
      BY <2>5, <2>7 DEF BeginBlock, HeightInv
    <2>8. CASE ExecTx
      BY <2>0, <2>8, HeightKept DEF ExecTx, Return, HeightInv
    <2>9. CASE RejectRoot
      BY <2>0, <2>9, HeightKept DEF RejectRoot, Return, HeightInv
    <2>10. CASE ChooseFork
      <3>1. block \in Hashes
        BY <2>10 DEF ChooseFork, Shape
      <3>2. disk'.height = disk.height /\ disk'.blocks = disk.blocks
        BY <2>0, <2>10, <3>1, PutHeadShape, PersistOutcomes DEF ChooseFork, SameBut
      <3> QED
        BY <2>0, <2>10, <3>2, HeightKept DEF ChooseFork, HeightInv
    <2>11. CASE StoreBlock
      <3>1. /\ disk'.height = disk.height
            /\ disk'.blocks = disk.blocks \cup {block}
        BY <2>0, <2>11, PutBlockShape DEF StoreBlock, Shape, SameBut
      <3> QED
        BY <2>0, <2>11, <3>1, HeightKept DEF StoreBlock, HeightInv
    <2>12. CASE StoreBlockFails
      BY <2>0, <2>12, HeightKept DEF StoreBlockFails, Return, HeightInv
    <2>13. ASSUME NEW a \in Address, WriteAccount(a) PROVE HeightInv'
      BY <2>0, <2>13, HeightKept DEF WriteAccount, HeightInv
    <2>14. CASE WriteAccountFails
      BY <2>0, <2>14, HeightKept DEF WriteAccountFails, Return, HeightInv
    <2>15. CASE FinishCommit
      <3>1. block \in disk.blocks
        BY <2>15 DEF FinishCommit, HeightInv
      <3>2. /\ disk'.blocks = disk.blocks
            /\ \/ disk'.height = disk.height
               \/ disk'.height = Put(disk.height, Slot(block), block)
        BY <2>0, <2>15, PutHeightShape, PersistOutcomes DEF FinishCommit, SameBut
      <3>3. HeightIndexSound'
        BY <2>0, <3>1, <3>2 DEF HeightIndexSound, Put, Slot
      <3> QED
        BY <2>15, <3>3 DEF FinishCommit, HeightInv
    <2>16. CASE PostTx
      <3>1. disk'.height = disk.height /\ disk'.blocks = disk.blocks
        BY <2>0, <2>16, IndexTxShape DEF PostTx, SameBut
      <3> QED
        BY <2>0, <2>16, <3>1, HeightKept DEF PostTx, HeightInv
    <2>17. CASE EndBlock
      BY <2>0, <2>17, HeightKept DEF EndBlock, Return, HeightInv
    <2>18. CASE PanicOnHead
      BY <2>0, <2>18, HeightKept DEF PanicOnHead, HeightInv
    <2>19. ASSUME NEW v \in Votes, AddVote(v[1], v[2]) PROVE HeightInv'
      <3>1. disk'.height = disk.height /\ disk'.blocks = disk.blocks
        BY <2>0, <2>19, PutVoteShape, PersistOutcomes DEF AddVote, SameBut
      <3> QED
        BY <2>0, <2>19, <3>1, HeightKept DEF AddVote, HeightInv
    <2>20. CASE Prune
      <3> DEFINE target == Slot(head) - KeepBlocks
                 heights == IndexedBelow(disk, target)
      <3>1. /\ disk'.height =
                 [s \in DOMAIN disk.height \ heights |-> disk.height[s]]
            /\ disk'.blocks =
                 disk.blocks \ ({disk.height[s] : s \in heights} \ {head})
        BY <2>0, <2>20, PruneShape DEF Prune
      <3>2. heights \subseteq DOMAIN disk.height
        BY DEF IndexedBelow
      <3> HIDE DEF heights
      <3>3. ASSUME NEW s \in DOMAIN disk'.height
            PROVE  disk'.height[s] \in disk'.blocks /\ Slot(disk'.height[s]) = s
        <4>1. s \in DOMAIN disk.height /\ s \notin heights
              /\ disk'.height[s] = disk.height[s]
          BY <3>1, <3>3
        <4>2. disk.height[s] \in disk.blocks /\ Slot(disk.height[s]) = s
          BY <2>0, <4>1 DEF HeightIndexSound
        <4>3. \A t \in heights : disk.height[t] # disk.height[s]
          BY <2>0, <3>2, <4>1, <4>2 DEF HeightIndexSound
        <4> QED
          BY <3>1, <4>1, <4>2, <4>3
      <3> QED
        BY <2>20, <3>3 DEF Prune, HeightInv, HeightIndexSound, Slot
    <2>21. CASE Crash
      BY <2>0, <2>21, HeightKept DEF Crash, HeightInv
    <2>22. CASE UNCHANGED vars
      BY <2>0, <2>22, HeightKept DEF vars, HeightInv
    <2> QED
      BY <2>1, <2>2, <2>3, <2>4, <2>6, <2>7, <2>8, <2>9, <2>10, <2>11, <2>12,
         <2>13, <2>14, <2>15, <2>16, <2>17, <2>18, <2>19, <2>20, <2>21, <2>22
      DEF Next, AddBlock
  <1>3. HeightInv => HeightIndexSound
    BY DEF HeightInv
  <1> QED
    BY <1>1, <1>2, <1>3, ShapeInvariant, PTL DEF Spec

-----------------------------------------------------------------------------
(* Fork choice. *)

(* is_better_block compares natural numbers lexicographically: no block is *)
(* better than itself, and what does not beat a block does not beat a      *)
(* better one.                                                             *)
LEMMA BetterIsOrder ==
    ASSUME NEW a \in Hashes, NEW b \in Hashes, NEW c \in Hashes
    PROVE  /\ ~IsBetter(a, a)
           /\ IsBetter(b, c) /\ ~IsBetter(a, c) => ~IsBetter(a, b)
  <1>1. \A h \in Hashes : Header[h].slot \in Nat /\ Header[h].vrf \in Nat
    BY ChainAssumption DEF Block
  <1> QED
    BY <1>1 DEF IsBetter, Slot

(* HeadIsBest alone is not inductive.  Between the choice of the head and  *)
(* the write of its block the stored head runs ahead of the stored blocks; *)
(* the process may die there and restart from the stored head.             *)
HeadInv ==
    /\ disk.head = NoHash => disk.blocks = {}
    /\ disk.head # NoHash => \A b \in disk.blocks : ~IsBetter(b, disk.head)
    /\ pc # "down" => head = disk.head
    /\ pc = "store" => ~IsBetter(block, head)

(* Steps that add no block, leave both heads alone and do not enter the    *)
(* state in which a block is about to be stored keep HeadInv.              *)
LEMMA HeadKept ==
    ASSUME HeadInv, disk'.head = disk.head, disk'.blocks \subseteq disk.blocks,
           head' = head, pc # "down", pc' # "store"
    PROVE  HeadInv'
  <1>1. \A b \in disk'.blocks : ~IsBetter(b, disk'.head) \/ disk'.head = NoHash
    BY DEF HeadInv
  <1>2. (\A b \in disk.blocks : ~IsBetter(b, disk.head)) =>
           \A b \in disk'.blocks : ~IsBetter(b, disk'.head)
    OBVIOUS
  <1> QED
    BY <1>1, <1>2 DEF HeadInv, IsBetter, Slot

(* HeadInv holds in every reachable state, provided that writes of the     *)
(* head succeed.                                                           *)
LEMMA HeadInvariant ==
    ASSUME "head" \notin FailingWrites
    PROVE  Spec => []HeadInv
  <1>1. Init => HeadInv
    BY DEF Init, HeadInv, EmptyDisk
  <1>2. Shape /\ HeadInv /\ [Next]_vars => HeadInv'
    <2> SUFFICES ASSUME Shape, HeadInv, [Next]_vars PROVE HeadInv'
      OBVIOUS
    <2> USE DEF memory, handler
    <2>0. DiskShape(disk)
      BY DEF Shape
    <2>1. CASE Boot
      <3>1. CASE disk.head # NoHash
        BY <2>1, <3>1 DEF Boot, HeadInv, IsBetter, Slot
      <3>2. CASE disk.head = NoHash
        <4>1. Genesis \in Hashes /\ NoHash \notin Hashes
          BY ChainAssumption
        <4> DEFINE d == PutBlock(disk, Genesis)
        <4>2. disk.blocks = {} /\ disk' = PutHead(d, Genesis)
          BY <2>1, <3>2 DEF Boot, HeadInv
        <4>3. DiskShape(d) /\ d.blocks = {Genesis}
          BY <2>0, <4>1, <4>2, PutBlockShape
        <4>4. disk'.blocks = {Genesis} /\ disk'.head = Genesis
          BY <4>1, <4>2, <4>3, PutHeadShape DEF SameBut
        <4>5. ~IsBetter(Genesis, Genesis)
          BY <4>1, BetterIsOrder
        <4> QED
          BY <2>1, <4>1, <4>4, <4>5 DEF Boot, HeadInv, IsBetter, Slot
      <3> QED
        BY <3>1, <3>2
    <2>2. CASE FinishBoot
      BY <2>2, HeadKept DEF FinishBoot, Return
    <2>3. ASSUME NEW b \in Hashes, IgnoreOrphan(b) PROVE HeadInv'
      BY <2>3, HeadKept DEF IgnoreOrphan, vars
    <2>4. ASSUME NEW b \in Hashes, SlashEquivocator(b) PROVE HeadInv'
      BY <2>4, HeadKept DEF SlashEquivocator
    <2>5. ASSUME NEW b \in Hashes, RecordHeader(b)
          PROVE  disk'.head = disk.head /\ disk'.blocks = disk.blocks
      BY <2>0, <2>5, PutSeenShape, PersistOutcomes DEF RecordHeader, SameBut
    <2>6. ASSUME NEW b \in Hashes, RejectBlock(b) PROVE HeadInv'
      BY <2>5, <2>6, HeadKept DEF RejectBlock
    <2>7. ASSUME NEW b \in Hashes, BeginBlock(b) PROVE HeadInv'
      BY <2>5, <2>7, HeadKept DEF BeginBlock
    <2>8. CASE ExecTx
      BY <2>8, HeadKept DEF ExecTx, Return
    <2>9. CASE RejectRoot
      BY <2>9, HeadKept DEF RejectRoot, Return
    <2>10. CASE ChooseFork
      <3>1. /\ block \in Hashes /\ head \in Hashes /\ NoHash \notin Hashes
            /\ head = disk.head /\ disk.blocks \subseteq Hashes
        BY <2>0, <2>10, ChainAssumption DEF ChooseFork, Shape, HeadInv, DiskShape
      <3>2. CASE IsBetter(block, head)
        <4>1. disk' = PutHead(disk, block)
          BY <2>10, <3>2 DEF ChooseFork, Persist
        <4>2. disk'.head = block /\ disk'.blocks = disk.blocks
          BY <2>0, <3>1, <4>1, PutHeadShape DEF SameBut
        <4>3. \A b \in disk.blocks : ~IsBetter(b, head)
          BY <3>1 DEF HeadInv
        <4>4. \A b \in disk.blocks : ~IsBetter(b, block)
          BY <3>1, <3>2, <4>3, BetterIsOrder
        <4>5. ~IsBetter(block, block)
          BY <3>1, BetterIsOrder
        <4>6. head' = block /\ block' = block
          BY <2>10, <3>2 DEF ChooseFork
        <4> QED
          BY <3>1, <4>2, <4>4, <4>5, <4>6 DEF HeadInv, IsBetter, Slot
      <3>3. CASE ~IsBetter(block, head)
        BY <2>10, <3>1, <3>3 DEF ChooseFork, HeadInv, IsBetter, Slot
      <3> QED
        BY <3>2, <3>3
    <2>11. CASE StoreBlock
      <3>1. /\ block \in Hashes /\ head = disk.head /\ head \in Hashes
            /\ NoHash \notin Hashes /\ ~IsBetter(block, head)
        BY <2>11, ChainAssumption DEF StoreBlock, Shape, HeadInv
      <3>2. /\ disk'.head = disk.head
            /\ disk'.blocks = disk.blocks \cup {block}
        BY <2>0, <2>11, <3>1, PutBlockShape DEF StoreBlock, SameBut
      <3>3. \A b \in disk'.blocks : ~IsBetter(b, head)
        BY <3>1, <3>2 DEF HeadInv
      <3> QED
        BY <2>11, <3>1, <3>2, <3>3 DEF StoreBlock, HeadInv, IsBetter, Slot
    <2>12. CASE StoreBlockFails
      BY <2>12, HeadKept DEF StoreBlockFails, Return
    <2>13. ASSUME NEW a \in Address, WriteAccount(a) PROVE HeadInv'
      BY <2>13, HeadKept DEF WriteAccount
    <2>14. CASE WriteAccountFails
      BY <2>14, HeadKept DEF WriteAccountFails, Return
    <2>15. CASE FinishCommit
      <3>1. disk'.head = disk.head /\ disk'.blocks = disk.blocks
        BY <2>0, <2>15, PutHeightShape, PersistOutcomes DEF FinishCommit, SameBut
      <3> QED
        BY <2>15, <3>1, HeadKept DEF FinishCommit
    <2>16. CASE PostTx
      <3>1. disk'.head = disk.head /\ disk'.blocks = disk.blocks
        BY <2>0, <2>16, IndexTxShape DEF PostTx, SameBut
      <3> QED
        BY <2>16, <3>1, HeadKept DEF PostTx
    <2>17. CASE EndBlock
      BY <2>17, HeadKept DEF EndBlock, Return
    <2>18. CASE PanicOnHead
      BY <2>18, HeadKept DEF PanicOnHead
    <2>19. ASSUME NEW v \in Votes, AddVote(v[1], v[2]) PROVE HeadInv'
      <3>1. disk'.head = disk.head /\ disk'.blocks = disk.blocks
        BY <2>0, <2>19, PutVoteShape, PersistOutcomes DEF AddVote, SameBut
      <3> QED
        BY <2>19, <3>1, HeadKept DEF AddVote
    <2>20. CASE Prune
      <3>1. disk'.head = disk.head /\ disk'.blocks \subseteq disk.blocks
        BY <2>0, <2>20, PruneShape DEF Prune
      <3> QED
        BY <2>20, <3>1, HeadKept DEF Prune
    <2>21. CASE Crash
      BY <2>21, HeadKept DEF Crash
    <2>22. CASE UNCHANGED vars
      BY <2>22 DEF vars, HeadInv, IsBetter, Slot
    <2> QED
      BY <2>1, <2>2, <2>3, <2>4, <2>6, <2>7, <2>8, <2>9, <2>10, <2>11, <2>12,
         <2>13, <2>14, <2>15, <2>16, <2>17, <2>18, <2>19, <2>20, <2>21, <2>22
      DEF Next, AddBlock
  <1> QED
    BY <1>1, <1>2, ShapeInvariant, PTL DEF Spec

(* Whatever the order in which blocks arrive, and with crashes at any      *)
(* point, no block in storage is better than the head, provided that       *)
(* writes of the head succeed: add_block ignores their failure             *)
(* (chain.rs 129-136) and a restart would then go back to a worse head.    *)
THEOREM HeadIsBestCorrect ==
    ASSUME "head" \notin FailingWrites
    PROVE  Spec => []HeadIsBest
  <1>1. Shape /\ HeadInv => HeadIsBest
    BY ChainAssumption DEF Shape, HeadInv, HeadIsBest
  <1> QED
    BY <1>1, ShapeInvariant, HeadInvariant, PTL

-----------------------------------------------------------------------------
(* Equivocation. *)

(* What storage and memory know of the headers that were seen, and that    *)
(* every stored block, and the block being added, is the one seen for its  *)
(* producer and slot.                                                      *)
SeenInv ==
    /\ \A key \in DOMAIN disk.seen : disk.seen[key] \in Hashes
    /\ pc # "down" =>
          \A key \in DOMAIN seen_headers :
              key \in DOMAIN disk.seen /\ seen_headers[key] = disk.seen[key]
    /\ \A b \in disk.blocks \ {Genesis} :
          SlotKey(b) \in DOMAIN disk.seen /\ disk.seen[SlotKey(b)] = b
    /\ pc \in {"execute", "store"} =>
          SlotKey(block) \in DOMAIN disk.seen /\ disk.seen[SlotKey(block)] = block

(* Steps that leave the seen headers alone and store no new block keep it. *)
LEMMA SeenKept ==
    ASSUME SeenInv, disk'.seen = disk.seen, disk'.blocks \subseteq disk.blocks,
           seen_headers' = seen_headers, pc # "down",
           \/ pc' \notin {"execute", "store"}
           \/ pc \in {"execute", "store"} /\ block' = block
    PROVE  SeenInv'
  BY DEF SeenInv, SlotKey

(* RecordHeader makes a block that is not an equivocation the one seen for *)
(* its producer and slot, and forgets none.                                *)
LEMMA RecordHeaderSees ==
    ASSUME "seen" \notin FailingWrites, DiskShape(disk), SeenInv,
           pc # "down", NEW b \in Hashes, ~Equivocates(b), RecordHeader(b)
    PROVE  /\ disk'.blocks = disk.blocks
           /\ \A key \in DOMAIN disk.seen :
                 key \in DOMAIN disk'.seen /\ disk'.seen[key] = disk.seen[key]
           /\ SlotKey(b) \in DOMAIN disk'.seen /\ disk'.seen[SlotKey(b)] = b
           /\ \A key \in DOMAIN disk'.seen : disk'.seen[key] \in Hashes
           /\ \A key \in DOMAIN seen_headers' :
                 key \in DOMAIN disk'.seen /\ seen_headers'[key] = disk'.seen[key]
  <1> DEFINE k == SlotKey(b)
  <1>1. NoHash \notin Hashes
    BY ChainAssumption
  <1>2. CASE SeenHash(b) = b
    <2>1. disk' = disk /\ seen_headers' = seen_headers
      BY <1>2 DEF RecordHeader
    <2>2. k \in DOMAIN disk.seen /\ disk.seen[k] = b
      BY <1>1, <1>2 DEF SeenHash, Lookup, SeenInv
    <2> QED
      BY <2>1, <2>2 DEF SeenInv
  <1>3. CASE SeenHash(b) # b
    <2>1. SeenHash(b) = NoHash
      BY <1>3 DEF Equivocates
    <2>2. k \notin DOMAIN seen_headers /\ k \notin DOMAIN disk.seen
      BY <1>1, <2>1 DEF SeenHash, Lookup, SeenInv
    <2>3. disk' = PutSeen(disk, b) /\ seen_headers' = Put(seen_headers, k, b)
      BY <1>3 DEF RecordHeader, Persist
    <2>4. disk'.blocks = disk.blocks /\ disk'.seen = Put(disk.seen, k, b)
      BY <2>3, PutSeenShape DEF SameBut
    <2> QED
      BY <2>2, <2>3, <2>4 DEF Put, SeenInv
  <1> QED
    BY <1>2, <1>3

(* Of a producer that signs several blocks for one slot at most one is     *)
(* ever stored, whatever is pruned and however often the process dies      *)
(* between remembering a header and storing its block, provided that       *)
(* writes of seen headers succeed: add_block ignores their failure         *)
(* (chain.rs 67-99), and a restart would then forget the header.           *)
THEOREM OneBlockPerProducerSlotCorrect ==
    ASSUME "seen" \notin FailingWrites
    PROVE  Spec => []OneBlockPerProducerSlot
  <1>1. Init => SeenInv
    BY DEF Init, SeenInv, EmptyDisk, EmptyMap
  <1>2. Shape /\ SeenInv /\ [Next]_vars => SeenInv'
    <2> SUFFICES ASSUME Shape, SeenInv, [Next]_vars PROVE SeenInv'
      OBVIOUS
    <2> USE DEF memory, handler
    <2>0. DiskShape(disk)
      BY DEF Shape
    <2>1. CASE Boot
      <3>1. Genesis \in Hashes
        BY ChainAssumption
      <3>2. /\ disk'.seen = disk.seen
            /\ disk'.blocks \subseteq disk.blocks \cup {Genesis}
        <4> DEFINE d == PutBlock(disk, Genesis)
        <4>1. /\ DiskShape(d) /\ d.seen = disk.seen
              /\ d.blocks = disk.blocks \cup {Genesis}
          BY <2>0, <3>1, PutBlockShape DEF SameBut
        <4>2. PutHead(d, Genesis).seen = d.seen
              /\ PutHead(d, Genesis).blocks = d.blocks
          BY <3>1, <4>1, PutHeadShape DEF SameBut
        <4> QED
          BY <2>1, <4>1, <4>2 DEF Boot
      <3> QED
        BY <2>1, <3>2 DEF Boot, SeenInv, SlotKey, EmptyMap
    <2>2. CASE FinishBoot
      BY <2>2, SeenKept DEF FinishBoot, Return
    <2>3. ASSUME NEW b \in Hashes, IgnoreOrphan(b) PROVE SeenInv'
      BY <2>3, SeenKept DEF IgnoreOrphan, vars
    <2>4. ASSUME NEW b \in Hashes, SlashEquivocator(b) PROVE SeenInv'
      BY <2>4, SeenKept DEF SlashEquivocator
    <2>5. ASSUME NEW b \in Hashes, RejectBlock(b) PROVE SeenInv'
      <3>1. RecordHeader(b) /\ ~Equivocates(b) /\ pc = "idle" /\ pc' = "idle"
        BY <2>5 DEF RejectBlock
      <3> QED
        BY <2>0, <3>1, RecordHeaderSees DEF SeenInv, SlotKey
    <2>6. ASSUME NEW b \in Hashes, BeginBlock(b) PROVE SeenInv'
      <3>1. /\ RecordHeader(b) /\ ~Equivocates(b) /\ pc = "idle"
            /\ pc' = "execute" /\ block' = b
        BY <2>6 DEF BeginBlock
      <3> QED
        BY <2>0, <3>1, RecordHeaderSees DEF SeenInv, SlotKey
    <2>7. CASE ExecTx
      BY <2>7, SeenKept DEF ExecTx, Return
    <2>8. CASE RejectRoot
      BY <2>8, SeenKept DEF RejectRoot, Return
    <2>9. CASE ChooseFork
      <3>1. block \in Hashes
        BY <2>9 DEF ChooseFork, Shape
      <3>2. disk'.seen = disk.seen /\ disk'.blocks = disk.blocks
        BY <2>0, <2>9, <3>1, PutHeadShape, PersistOutcomes DEF ChooseFork, SameBut
      <3> QED
        BY <2>9, <3>2, SeenKept DEF ChooseFork
    <2>10. CASE StoreBlock
      <3>1. /\ disk'.seen = disk.seen
            /\ disk'.blocks = disk.blocks \cup {block}
        BY <2>0, <2>10, PutBlockShape DEF StoreBlock, Shape, SameBut
      <3> QED
        BY <2>10, <3>1 DEF StoreBlock, SeenInv, SlotKey
    <2>11. CASE StoreBlockFails
      BY <2>11, SeenKept DEF StoreBlockFails, Return
    <2>12. ASSUME NEW a \in Address, WriteAccount(a) PROVE SeenInv'
      BY <2>12, SeenKept DEF WriteAccount
    <2>13. CASE WriteAccountFails
      BY <2>13, SeenKept DEF WriteAccountFails, Return
    <2>14. CASE FinishCommit
      <3>1. disk'.seen = disk.seen /\ disk'.blocks = disk.blocks
        BY <2>0, <2>14, PutHeightShape, PersistOutcomes DEF FinishCommit, SameBut
      <3> QED
        BY <2>14, <3>1, SeenKept DEF FinishCommit
    <2>15. CASE PostTx
      <3>1. disk'.seen = disk.seen /\ disk'.blocks = disk.blocks
        BY <2>0, <2>15, IndexTxShape DEF PostTx, SameBut
      <3> QED
        BY <2>15, <3>1, SeenKept DEF PostTx
    <2>16. CASE EndBlock
      BY <2>16, SeenKept DEF EndBlock, Return
    <2>17. CASE PanicOnHead
      BY <2>17, SeenKept DEF PanicOnHead
    <2>18. ASSUME NEW v \in Votes, AddVote(v[1], v[2]) PROVE SeenInv'
      <3>1. disk'.seen = disk.seen /\ disk'.blocks = disk.blocks
        BY <2>0, <2>18, PutVoteShape, PersistOutcomes DEF AddVote, SameBut
      <3> QED
        BY <2>18, <3>1, SeenKept DEF AddVote
    <2>19. CASE Prune
      <3>1. disk'.seen = disk.seen /\ disk'.blocks \subseteq disk.blocks
        BY <2>0, <2>19, PruneShape DEF Prune
      <3> QED
        BY <2>19, <3>1, SeenKept DEF Prune
    <2>20. CASE Crash
      BY <2>20, SeenKept DEF Crash
    <2>21. CASE UNCHANGED vars
      BY <2>21 DEF vars, SeenInv, SlotKey
    <2> QED
      BY <2>1, <2>2, <2>3, <2>4, <2>5, <2>6, <2>7, <2>8, <2>9, <2>10, <2>11,
         <2>12, <2>13, <2>14, <2>15, <2>16, <2>17, <2>18, <2>19, <2>20, <2>21
      DEF Next, AddBlock
  <1>3. SeenInv => OneBlockPerProducerSlot
    BY DEF SeenInv, OneBlockPerProducerSlot
  <1> QED
    BY <1>1, <1>2, <1>3, ShapeInvariant, PTL DEF Spec

-----------------------------------------------------------------------------
(* Types. *)

(* The fields of a block that exists.                                      *)
LEMMA HeaderType ==
    ASSUME NEW h \in Hashes
    PROVE  /\ Header[h] \in Block
           /\ Slot(h) \in Nat
           /\ Header[h].producer \in Keys
           /\ SlotKey(h) \in Nat \X Keys
           /\ Header[h].txs \in Seq(Transaction)
  <1>1. Header[h] \in Block
    BY ChainAssumption
  <1> QED
    BY <1>1 DEF Block, Slot, SlotKey

(* Storage is well-typed if its parts are.                                 *)
LEMMA DiskType ==
    ASSUME NEW blocks \in SUBSET Hashes, NEW stored \in Hashes \cup {NoHash},
           NEW height, IsMap(height, Nat, Hashes),
           NEW seen, IsMap(seen, Nat \X Keys, Hashes),
           NEW ballots \in SUBSET Votes,
           NEW txs, IsMap(txs, Transaction, Hashes),
           NEW history \in [Address -> Seq(Transaction)]
    PROVE  IsDisk([blocks |-> blocks, head |-> stored, height |-> height,
                   seen |-> seen, votes |-> ballots, txs |-> txs,
                   history |-> history])
  BY DEF IsDisk

(* Storage is the record of its parts.                                     *)
LEMMA DiskRecord ==
    ASSUME NEW d, IsDisk(d)
    PROVE  d = [blocks |-> d.blocks, head |-> d.head, height |-> d.height,
                seen |-> d.seen, votes |-> d.votes, txs |-> d.txs,
                history |-> d.history]
  BY DEF IsDisk

(* Each write to storage keeps its type: store_block,                      *)
LEMMA PutBlockType ==
    ASSUME NEW d, IsDisk(d), NEW h \in Hashes
    PROVE  IsDisk(PutBlock(d, h))
  <1>1. d.blocks \cup {h} \in SUBSET Hashes
    BY DEF IsDisk
  <1>2. PutBlock(d, h) =
           [blocks |-> d.blocks \cup {h}, head |-> d.head, height |-> d.height,
            seen |-> d.seen, votes |-> d.votes, txs |-> d.txs,
            history |-> d.history]
    BY DiskRecord DEF PutBlock
  <1> QED
    BY <1>1, <1>2, DiskType DEF IsDisk

(* store_head,                                                             *)
LEMMA PutHeadType ==
    ASSUME NEW d, IsDisk(d), NEW h \in Hashes
    PROVE  IsDisk(PutHead(d, h))
  <1>1. PutHead(d, h) =
           [blocks |-> d.blocks, head |-> h, height |-> d.height,
            seen |-> d.seen, votes |-> d.votes, txs |-> d.txs,
            history |-> d.history]
    BY DiskRecord DEF PutHead
  <1> QED
    BY <1>1, DiskType DEF IsDisk

(* store_seen_header,                                                      *)
LEMMA PutSeenType ==
    ASSUME NEW d, IsDisk(d), NEW h \in Hashes
    PROVE  IsDisk(PutSeen(d, h))
  <1> DEFINE m == Put(d.seen, SlotKey(h), h)
  <1>1. IsMap(m, Nat \X Keys, Hashes)
    BY HeaderType, PutType DEF IsDisk
  <1>2. PutSeen(d, h) =
           [blocks |-> d.blocks, head |-> d.head, height |-> d.height,
            seen |-> m, votes |-> d.votes, txs |-> d.txs, history |-> d.history]
    BY DiskRecord DEF PutSeen
  <1> QED
    BY <1>1, <1>2, DiskType DEF IsDisk

(* store_block_by_height,                                                  *)
LEMMA PutHeightType ==
    ASSUME NEW d, IsDisk(d), NEW h \in Hashes
    PROVE  IsDisk(PutHeight(d, h))
  <1> DEFINE m == Put(d.height, Slot(h), h)
  <1>1. IsMap(m, Nat, Hashes)
    BY HeaderType, PutType DEF IsDisk
  <1>2. PutHeight(d, h) =
           [blocks |-> d.blocks, head |-> d.head, height |-> m,
            seen |-> d.seen, votes |-> d.votes, txs |-> d.txs,
            history |-> d.history]
    BY DiskRecord DEF PutHeight
  <1> QED
    BY <1>1, <1>2, DiskType DEF IsDisk

(* store_vote,                                                             *)
LEMMA PutVoteType ==
    ASSUME NEW d, IsDisk(d), NEW key, NEW h, <<key, h>> \in Votes
    PROVE  IsDisk(PutVote(d, key, h))
  <1> DEFINE ballots == d.votes \cup {<<key, h>>}
  <1>1. ballots \in SUBSET Votes
    BY DEF IsDisk
  <1>2. PutVote(d, key, h) =
           [blocks |-> d.blocks, head |-> d.head, height |-> d.height,
            seen |-> d.seen, votes |-> ballots, txs |-> d.txs,
            history |-> d.history]
    BY DiskRecord DEF PutVote
  <1> QED
    BY <1>1, <1>2, DiskType DEF IsDisk

(* the index of one transaction,                                           *)
LEMMA PutTxType ==
    ASSUME NEW d, IsDisk(d), NEW tx \in Transaction, NEW h \in Hashes
    PROVE  IsDisk(PutTx(d, tx, h))
  <1> DEFINE m == Put(d.txs, tx, h)
  <1>1. IsMap(m, Transaction, Hashes)
    BY PutType DEF IsDisk
  <1>2. PutTx(d, tx, h) =
           [blocks |-> d.blocks, head |-> d.head, height |-> d.height,
            seen |-> d.seen, votes |-> d.votes, txs |-> m, history |-> d.history]
    BY DiskRecord DEF PutTx
  <1> QED
    BY <1>1, <1>2, DiskType DEF IsDisk

(* one entry of a history,                                                 *)
LEMMA AppendHistoryType ==
    ASSUME NEW d, IsDisk(d), NEW a \in Address, NEW tx \in Transaction
    PROVE  IsDisk(AppendHistory(d, a, tx))
  <1> DEFINE m == [d.history EXCEPT ![a] = Append(@, tx)]
  <1>1. m \in [Address -> Seq(Transaction)]
    BY DEF IsDisk
  <1>2. AppendHistory(d, a, tx) = [d EXCEPT !.history = m]
    BY DEF AppendHistory
  <1> HIDE DEF m
  <1>3. [d EXCEPT !.history = m] =
           [blocks |-> d.blocks, head |-> d.head, height |-> d.height,
            seen |-> d.seen, votes |-> d.votes, txs |-> d.txs, history |-> m]
    BY DiskRecord
  <1> QED
    BY <1>1, <1>2, <1>3, DiskType DEF IsDisk

(* all three writes for a transaction, whichever of them fail,             *)
LEMMA IndexTxDiskType ==
    ASSUME NEW d, IsDisk(d), NEW tx \in Transaction, NEW h \in Hashes, NEW written
    PROVE  IsDisk(IndexTx(d, tx, h, written))
  <1> DEFINE indexed == IF "tx" \in written THEN PutTx(d, tx, h) ELSE d
             sent == IF "sender" \in written
                     THEN AppendHistory(indexed, tx.sender, tx) ELSE indexed
  <1>1. tx.sender \in Address /\ tx.receiver \in Address
    BY DEF Transaction
  <1>2. IsDisk(indexed)
    BY PutTxType
  <1> HIDE DEF indexed
  <1>3. IsDisk(sent)
    BY <1>1, <1>2, AppendHistoryType
  <1> HIDE DEF sent
  <1>4. IsDisk(IF "receiver" \in written
               THEN AppendHistory(sent, tx.receiver, tx) ELSE sent)
    BY <1>1, <1>3, AppendHistoryType
  <1> QED
    BY <1>4 DEF IndexTx, indexed, sent

(* and pruning.                                                            *)
LEMMA PruneType ==
    ASSUME NEW d, IsDisk(d), NEW target
    PROVE  IsDisk(PruneBlocksBefore(d, target))
  <1> DEFINE heights == IndexedBelow(d, target)
             blocks == d.blocks \ ({d.height[s] : s \in heights} \ {head})
             m == [s \in DOMAIN d.height \ heights |-> d.height[s]]
  <1>1. blocks \in SUBSET Hashes
    BY DEF IsDisk
  <1>2. IsMap(m, Nat, Hashes)
    BY DEF IsDisk, IsMap
  <1> DEFINE c == [blocks |-> blocks, head |-> d.head, height |-> d.height,
                   seen |-> d.seen, votes |-> d.votes, txs |-> d.txs,
                   history |-> d.history]
  <1>3. DropBlocksAt(d, heights) = [d EXCEPT !.blocks = blocks]
    BY DEF DropBlocksAt
  <1> HIDE DEF blocks
  <1>4. DropBlocksAt(d, heights) = c
    BY <1>3, DiskRecord
  <1>5. IsDisk(c)
    BY <1>1, DiskType DEF IsDisk
  <1>6. PruneBlocksBefore(d, target) = [c EXCEPT !.height = m]
    BY <1>4 DEF PruneBlocksBefore, DropHeights
  <1> HIDE DEF m
  <1>7. [c EXCEPT !.height = m] =
           [blocks |-> c.blocks, head |-> c.head, height |-> m,
            seen |-> c.seen, votes |-> c.votes, txs |-> c.txs,
            history |-> c.history]
    OBVIOUS
  <1> HIDE DEF c
  <1> QED
    BY <1>2, <1>5, <1>6, <1>7, DiskType DEF IsDisk

(* The accounts that a starting node funds, and the set it registers.      *)
LEMMA FundingType ==
    ASSUME NEW accounts, IsAccounts(accounts)
    PROVE  /\ IsAccounts(Funding(accounts))
           /\ Unfunded(accounts) \subseteq Address
           /\ DOMAIN Funding(accounts) = Unfunded(accounts)
  <1>1. Unfunded(accounts) \subseteq Address /\ GenesisFund \in U64
    BY ChainAssumption DEF Unfunded, Address
  <1>2. ASSUME NEW k PROVE IsAccount(Lookup(accounts, k, NewAccount))
    BY NewAccountType DEF IsAccounts, Lookup
  <1>3. ASSUME NEW k \in Unfunded(accounts)
        PROVE  IsAccount([Lookup(accounts, k, NewAccount) EXCEPT !.balance = GenesisFund])
    BY <1>1, <1>2, BalanceType
  <1> QED
    BY <1>1, <1>3 DEF Funding, IsAccounts

(* The set of validators that is registered at the start.                  *)
LEMMA GenesisValidatorsType ==
    ASSUME NEW keys \in SUBSET Address
    PROVE  IsValidatorSet(GenesisValidators(keys)) /\ IsFiniteSet(keys)
  <1>1. IsFiniteSet(keys)
    BY AddressFinite, FS_Subset
  <1>2. GenesisFund \in Nat /\ Cardinality(keys) \in Nat
    BY <1>1, ChainAssumption, FS_CardinalityType DEF U64
  <1>3. IsMap([k \in keys |-> [stake |-> GenesisFund, slashed |-> FALSE]],
              Address, ValidatorInfo)
    BY <1>2 DEF IsMap, ValidatorInfo
  <1>4. GenesisFund * Cardinality(keys) \in Int
    BY <1>2
  <1> QED
    BY <1>1, <1>3, <1>4 DEF GenesisValidators, IsValidatorSet

(* Storage opened for the first time is empty.                             *)
LEMMA EmptyDiskType == IsDisk(EmptyDisk)
  <1>1. /\ IsMap(EmptyMap, Nat, Hashes) /\ IsMap(EmptyMap, Nat \X Keys, Hashes)
        /\ IsMap(EmptyMap, Transaction, Hashes)
    BY EmptyMapType
  <1>2. [a \in Address |-> <<>>] \in [Address -> Seq(Transaction)]
    OBVIOUS
  <1> QED
    BY <1>1, <1>2 DEF IsDisk, EmptyDisk

(* What TypeOK needs to be inductive: a whole validator set, and nothing   *)
(* to write outside apply_changes, where the overlay shrinks and grows.    *)
Typed ==
    /\ TypeOK
    /\ IsValidatorSet(validators)
    /\ pc \notin {"boot", "commit"} => unwritten = {}

(* RecordHeader keeps the types of what it writes.                         *)
LEMMA RecordHeaderType ==
    ASSUME Typed, NEW b \in Hashes, RecordHeader(b)
    PROVE  IsDisk(disk') /\ IsMap(seen_headers', Nat \X Keys, Hashes)
  <1>1. IsMap(Put(seen_headers, SlotKey(b), b), Nat \X Keys, Hashes)
    BY HeaderType, PutType DEF Typed, TypeOK
  <1>2. IsDisk(PutSeen(disk, b))
    BY PutSeenType DEF Typed, TypeOK
  <1> QED
    BY <1>1, <1>2, PersistOutcomes DEF RecordHeader, Typed, TypeOK

(* The stake of a member is a number, and refunding it well-typed.         *)
LEMMA PostTxType ==
    ASSUME Typed, Shape, PostTx
    PROVE  /\ IsLedger(ledger') /\ IsValidatorSet(validators')
           /\ DOMAIN ledger.pending \subseteq DOMAIN ledger'.pending
           /\ IsDisk(disk') /\ rest' \in Seq(Transaction)
  <1> DEFINE tx == Head(rest)
  <1>1. rest \in Seq(Transaction) /\ rest # <<>> /\ block \in Hashes
    BY DEF Typed, TypeOK, Shape, PostTx
  <1>2. tx \in Transaction /\ rest' \in Seq(Transaction)
    BY <1>1 DEF PostTx
  <1>3. tx.sender \in Address /\ tx.data \in TransactionData
    BY <1>2 DEF Transaction
  <1>4. IsDisk(disk')
    BY <1>1, <1>2, IndexTxDiskType DEF PostTx, Typed, TypeOK
  <1>5. IsValidatorSet(validators')
    <2>1. CASE tx.data.type = "RegisterValidator"
      <3>1. tx.data.stake \in Nat
        BY <1>3, <2>1, DataType DEF U64
      <3> QED
        BY <1>3, <2>1, <3>1, RegisterValidatorType DEF PostTx, Typed
    <2>2. CASE tx.data.type = "UnregisterValidator"
      BY <2>2, UnregisterValidatorType DEF PostTx, Typed
    <2>3. CASE tx.data.type \notin {"RegisterValidator", "UnregisterValidator"}
      BY <2>3 DEF PostTx, Typed
    <2> QED
      BY <2>1, <2>2, <2>3
  <1>6. CASE tx.data.type = "UnregisterValidator" /\ IsValidator(validators, tx.sender)
    <2> DEFINE stake == validators.members[tx.sender].stake
    <2>1. stake \in Int
      BY <1>6 DEF Typed, IsValidator, IsValidatorSet, IsMap, ValidatorInfo
    <2>2. ledger' = Credit(ledger, tx.sender, stake)
      BY <1>6 DEF PostTx
    <2>3. DOMAIN ledger.pending \subseteq DOMAIN ledger'.pending
      BY <2>2 DEF Credit, SetBalance, Stage, Put, Typed, TypeOK, IsLedger
    <2> QED
      BY <1>2, <1>3, <1>4, <1>5, <2>1, <2>2, <2>3, CreditType DEF Typed, TypeOK
  <1>7. CASE ~(tx.data.type = "UnregisterValidator" /\ IsValidator(validators, tx.sender))
    BY <1>2, <1>4, <1>5, <1>7 DEF PostTx, Typed, TypeOK
  <1> QED
    BY <1>6, <1>7

(* Typed holds in every reachable state.                                   *)
LEMMA TypedInvariant == Spec => []Typed
  <1>1. Init => Typed
    <2> SUFFICES ASSUME Init PROVE Typed
      OBVIOUS
    <2>1. IsLedger(ledger)
      BY EmptyAccountsType, OpenLedgerType DEF Init
    <2>2. IsValidatorSet(validators) /\ IsMap(seen_headers, Nat \X Keys, Hashes)
      BY EmptyMapType DEF Init, NoValidators, IsValidatorSet
    <2>3. crashes \in 0 .. MaxCrashes
      BY ChainAssumption DEF Init
    <2> QED
      BY <2>1, <2>2, <2>3, EmptyDiskType DEF Init, Typed, TypeOK, IsValidatorSet
  <1>2. Shape /\ Typed /\ [Next]_vars => Typed'
    <2> SUFFICES ASSUME Shape, Typed, [Next]_vars PROVE Typed'
      OBVIOUS
    <2> USE DEF memory, handler
    <2>0. /\ IsLedger(ledger) /\ IsDisk(disk) /\ IsValidatorSet(validators)
          /\ rest \in Seq(Transaction) /\ TypeOK
      BY DEF Typed, TypeOK
    <2>1. CASE Boot
      <3>1. Genesis \in Hashes
        BY ChainAssumption
      <3>2. IsDisk(disk') /\ disk'.head \in Hashes \cup {NoHash}
        BY <2>0, <2>1, <3>1, PutBlockType, PutHeadType DEF Boot, IsDisk
      <3>3. IsAccounts(ledger.accounts)
        BY <2>0 DEF IsLedger
      <3>4. /\ IsLedger(OpenLedger(ledger.accounts))
            /\ IsAccounts(Funding(ledger.accounts))
            /\ DOMAIN Funding(ledger.accounts) = Unfunded(ledger.accounts)
        BY <3>3, OpenLedgerType, FundingType
      <3>5. IsLedger(ledger') /\ DOMAIN ledger'.pending = unwritten'
        BY <2>1, <3>4 DEF Boot, IsLedger
      <3>6. IsValidatorSet(validators')
        BY <2>1, <3>3, FundingType, GenesisValidatorsType DEF Boot
      <3>7. IsMap(seen_headers', Nat \X Keys, Hashes)
        BY <2>1, EmptyMapType DEF Boot
      <3> QED
        BY <2>1, <3>2, <3>5, <3>6, <3>7 DEF Boot, Typed, TypeOK, IsValidatorSet
    <2>2. CASE FinishBoot
      BY <2>0, <2>2, DiscardChangesType DEF FinishBoot, Return, Typed, TypeOK
    <2>3. ASSUME NEW b \in Hashes, IgnoreOrphan(b) PROVE Typed'
      BY <2>3 DEF IgnoreOrphan, vars, Typed, TypeOK
    <2>4. ASSUME NEW b \in Hashes, SlashEquivocator(b) PROVE Typed'
      <3>1. IsValidatorSet(validators')
        BY <2>0, <2>4, SlashValidatorType DEF SlashEquivocator
      <3> QED
        BY <2>4, <3>1 DEF SlashEquivocator, Typed, TypeOK, IsValidatorSet
    <2>5. ASSUME NEW b \in Hashes, RejectBlock(b) PROVE Typed'
      <3>1. IsDisk(disk') /\ IsMap(seen_headers', Nat \X Keys, Hashes)
        BY <2>5, RecordHeaderType DEF RejectBlock
      <3> QED
        BY <2>5, <3>1 DEF RejectBlock, Typed, TypeOK
    <2>6. ASSUME NEW b \in Hashes, BeginBlock(b) PROVE Typed'
      <3>1. IsDisk(disk') /\ IsMap(seen_headers', Nat \X Keys, Hashes)
        BY <2>6, RecordHeaderType DEF BeginBlock
      <3>2. IsLedger(ledger') /\ unwritten' = {} /\ rest' \in Seq(Transaction)
        BY <2>0, <2>6, DiscardChangesType, HeaderType DEF BeginBlock, Typed
      <3> QED
        BY <2>6, <3>1, <3>2 DEF BeginBlock, Typed, TypeOK
    <2>7. CASE ExecTx
      <3> DEFINE outcome == ProcessTransaction(ledger, Head(rest))
      <3>1. IsLedger(outcome.st) /\ Tail(rest) \in Seq(Transaction)
        BY <2>0, <2>7, ProcessTransactionType DEF ExecTx, IsOutcome
      <3>2. IsLedger(DiscardChanges(outcome.st))
        BY <3>1, DiscardChangesType
      <3>3. /\ IsLedger(ledger') /\ rest' \in Seq(Transaction) /\ unwritten' = {}
            /\ pc' \in {"execute", "idle"} /\ block' \in Hashes \cup {NoHash}
        <4>1. /\ block \in Hashes /\ unwritten = {}
              /\ \/ /\ ledger' = outcome.st /\ rest' = Tail(rest)
                    /\ UNCHANGED <<pc, block, unwritten>>
                 \/ /\ ledger' = DiscardChanges(outcome.st)
                    /\ Return
          BY <2>7 DEF ExecTx, Shape, Typed
        <4> QED
          <5>1. ledger' \in {outcome.st, DiscardChanges(outcome.st)}
            BY <4>1
          <5>2. rest' \in {Tail(rest), <<>>}
            BY <4>1 DEF Return
          <5>3. /\ unwritten' = {} /\ pc' \in {"execute", "idle"}
                /\ block' \in Hashes \cup {NoHash}
            BY <2>7, <4>1 DEF Return, ExecTx
          <5>4. IsLedger(ledger')
            BY <3>1, <3>2, <5>1
          <5>5. rest' \in Seq(Transaction)
            <6>1. <<>> \in Seq(Transaction)
              OBVIOUS
            <6> QED
              BY <3>1, <5>2, <6>1
          <5> QED
            BY <5>3, <5>4, <5>5
      <3>4. /\ UNCHANGED <<disk, head, validators, seen_headers, votes,
                           finalized_head, crashes, checked>>
        BY <2>7 DEF ExecTx
      <3> QED
        BY <2>0, <3>3, <3>4 DEF Typed, TypeOK
    <2>8. CASE RejectRoot
      BY <2>0, <2>8, DiscardChangesType DEF RejectRoot, Return, Typed, TypeOK
    <2>9. CASE ChooseFork
      <3>1. block \in Hashes
        BY <2>9 DEF ChooseFork, Shape
      <3>2. IsDisk(disk') /\ head' \in Hashes \cup {NoHash}
        BY <2>0, <2>9, <3>1, PutHeadType, PersistOutcomes DEF ChooseFork, TypeOK
      <3> QED
        BY <2>9, <3>2 DEF ChooseFork, Typed, TypeOK
    <2>10. CASE StoreBlock
      <3>1. IsDisk(disk')
        BY <2>0, <2>10, PutBlockType DEF StoreBlock, Shape
      <3> QED
        BY <2>10, <3>1 DEF StoreBlock, Typed, TypeOK
    <2>11. CASE StoreBlockFails
      BY <2>0, <2>11, DiscardChangesType DEF StoreBlockFails, Return, Typed, TypeOK
    <2>12. ASSUME NEW a \in Address, WriteAccount(a) PROVE Typed'
      <3>1. IsAccounts(ledger.accounts) /\ IsAccount(ledger.pending[a])
        BY <2>0, <2>12 DEF WriteAccount, TypeOK, IsLedger, IsAccounts
      <3>2. IsAccounts(Put(ledger.accounts, a, ledger.pending[a]))
        BY <3>1, PutAccountType
      <3>3. IsLedger(ledger') /\ ledger'.pending = ledger.pending
        BY <2>0, <2>12, <3>2 DEF WriteAccount, IsLedger
      <3> QED
        BY <2>12, <3>3 DEF WriteAccount, Typed, TypeOK
    <2>13. CASE WriteAccountFails
      BY <2>13 DEF WriteAccountFails, Return, Typed, TypeOK
    <2>14. CASE FinishCommit
      <3>1. block \in Hashes
        BY <2>14 DEF FinishCommit, Shape
      <3>2. IsDisk(disk') /\ IsLedger(ledger') /\ rest' \in Seq(Transaction)
        BY <2>0, <2>14, <3>1, PutHeightType, PersistOutcomes, DiscardChangesType,
           HeaderType DEF FinishCommit
      <3> QED
        BY <2>14, <3>2 DEF FinishCommit, Typed, TypeOK
    <2>15. CASE PostTx
      <3>1. /\ IsLedger(ledger') /\ IsValidatorSet(validators')
            /\ DOMAIN ledger.pending \subseteq DOMAIN ledger'.pending
            /\ IsDisk(disk') /\ rest' \in Seq(Transaction)
        BY <2>15, PostTxType
      <3> QED
        BY <2>15, <3>1 DEF PostTx, Typed, TypeOK, IsValidatorSet
    <2>16. CASE EndBlock
      BY <2>16 DEF EndBlock, Return, Typed, TypeOK
    <2>17. CASE PanicOnHead
      BY <2>17 DEF PanicOnHead, Typed, TypeOK
    <2>18. ASSUME NEW v \in Votes, AddVote(v[1], v[2]) PROVE Typed'
      <3>1. v[1] \in Keys /\ v[2] \in Hashes /\ v = <<v[1], v[2]>>
        BY ChainAssumption
      <3>2. IsDisk(disk')
        BY <2>0, <2>18, <3>1, PutVoteType, PersistOutcomes DEF AddVote
      <3>3. votes' \in [Hashes -> SUBSET Keys] /\ finalized_head' \in Hashes \cup {NoHash}
        BY <2>0, <2>18, <3>1 DEF AddVote, TypeOK
      <3> QED
        BY <2>18, <3>2, <3>3 DEF AddVote, Typed, TypeOK
    <2>19. CASE Prune
      BY <2>0, <2>19, PruneType DEF Prune, Typed, TypeOK
    <2>20. CASE Crash
      <3>1. crashes' \in 0 .. MaxCrashes
        BY <2>0, <2>20, ChainAssumption DEF Crash, TypeOK
      <3> QED
        BY <2>20, <3>1 DEF Crash, Typed, TypeOK
    <2>21. CASE UNCHANGED vars
      BY <2>21 DEF vars, Typed, TypeOK
    <2> QED
      BY <2>1, <2>2, <2>3, <2>4, <2>5, <2>6, <2>7, <2>8, <2>9, <2>10, <2>11,
         <2>12, <2>13, <2>14, <2>15, <2>16, <2>17, <2>18, <2>19, <2>20, <2>21
      DEF Next, AddBlock
  <1> QED
    BY <1>1, <1>2, ShapeInvariant, PTL DEF Spec

(* Every variable keeps its type in every reachable state, whichever       *)
(* writes fail and wherever the process dies; in particular apply_changes  *)
(* only writes accounts that are staged.                                   *)
THEOREM ChainTypeCorrect == Spec => []TypeOK
  <1>1. Typed => TypeOK
    BY DEF Typed
  <1> QED
    BY <1>1, TypedInvariant, PTL

-----------------------------------------------------------------------------
(* Stake. *)

(* What StakeAccounting says of a validator set.                           *)
StakesOf(vs) == [k \in DOMAIN vs.members |-> vs.members[k].stake]

Accounted(vs) ==
    /\ vs.total_stake = SumFunctionOnSet(StakesOf(vs), DOMAIN vs.members)
    /\ \A k \in DOMAIN vs.members :
         vs.members[k].slashed => vs.members[k].stake = 0

(* A validator set has finitely many members, with natural stakes.         *)
LEMMA MembersFinite ==
    ASSUME NEW vs, IsValidatorSet(vs)
    PROVE  /\ IsFiniteSet(DOMAIN vs.members)
           /\ DOMAIN StakesOf(vs) = DOMAIN vs.members
           /\ \A k \in DOMAIN vs.members :
                 /\ vs.members[k] \in ValidatorInfo
                 /\ vs.members[k].stake \in Nat
                 /\ StakesOf(vs)[k] = vs.members[k].stake
  <1>1. DOMAIN vs.members \subseteq Address
        /\ \A k \in DOMAIN vs.members : vs.members[k] \in ValidatorInfo
    BY DEF IsValidatorSet, IsMap
  <1>2. IsFiniteSet(DOMAIN vs.members)
    BY <1>1, AddressFinite, FS_Subset
  <1> QED
    BY <1>1, <1>2 DEF StakesOf, ValidatorInfo

(* A set registered at the start: everybody has the same stake.            *)
LEMMA GenesisAccounted ==
    ASSUME NEW keys \in SUBSET Address
    PROVE  Accounted(GenesisValidators(keys))
  <1> DEFINE vs == GenesisValidators(keys)
             f == StakesOf(vs)
             Good == {T \in SUBSET keys :
                        SumFunctionOnSet(f, T) = GenesisFund * Cardinality(T)}
  <1>1. IsFiniteSet(keys) /\ GenesisFund \in Nat
    BY GenesisValidatorsType, ChainAssumption DEF U64
  <1>2. f = [k \in keys |-> GenesisFund] /\ DOMAIN vs.members = keys
    BY DEF GenesisValidators, StakesOf
  <1>3. ASSUME NEW T \in SUBSET keys, \A U \in SUBSET T : U # T => U \in Good
        PROVE  T \in Good
    <2>1. IsFiniteSet(T)
      BY <1>1, FS_Subset
    <2>2. CASE T = {}
      BY <1>1, <2>2, SumEmpty, FS_EmptySet
    <2>3. ASSUME NEW k \in T PROVE T \in Good
      <3>1. PICK U : U = T \ {k}
        OBVIOUS
      <3>2. U \in Good
        BY <1>3, <3>1
      <3>3. SumFunctionOnSet(f, T) = f[k] + SumFunctionOnSet(f, U)
        BY <1>1, <1>2, <2>1, <3>1, SumRemove
      <3>4. Cardinality(U) = Cardinality(T) - 1 /\ Cardinality(T) \in Nat
        BY <2>1, <3>1, FS_RemoveElement, FS_CardinalityType
      <3>5. GenesisFund + GenesisFund * (Cardinality(T) - 1)
              = GenesisFund * Cardinality(T)
        BY <1>1, <3>4
      <3> QED
        BY <1>2, <3>2, <3>3, <3>4, <3>5
    <2> QED
      BY <2>2, <2>3
  <1> HIDE DEF Good
  <1>4. keys \in Good
    BY <1>1, <1>3, SubsetInduction
  <1>5. vs.total_stake = SumFunctionOnSet(f, keys)
    BY <1>4 DEF Good, GenesisValidators
  <1>6. \A k \in keys : vs.members[k].slashed = FALSE
    BY DEF GenesisValidators
  <1> QED
    BY <1>2, <1>5, <1>6 DEF Accounted

(* Registering adds a member and its stake,                                *)
LEMMA RegisterAccounted ==
    ASSUME NEW vs, IsValidatorSet(vs), Accounted(vs),
           NEW key \in Address, NEW stake \in Nat
    PROVE  Accounted(RegisterValidator(vs, key, stake))
  <1>1. CASE ~CanRegister(vs, key, stake)
    BY <1>1 DEF RegisterValidator
  <1>2. CASE CanRegister(vs, key, stake)
    <2> DEFINE new == RegisterValidator(vs, key, stake)
               D == DOMAIN vs.members
    <2>1. /\ new.members = Put(vs.members, key, [stake |-> stake, slashed |-> FALSE])
          /\ new.total_stake = vs.total_stake + stake
          /\ key \notin D
      BY <1>2 DEF RegisterValidator, CanRegister, IsValidator
    <2>2. IsValidatorSet(new)
      BY RegisterValidatorType
    <2> HIDE DEF new
    <2>3. /\ DOMAIN new.members = D \cup {key}
          /\ \A k \in D : new.members[k] = vs.members[k]
          /\ new.members[key] = [stake |-> stake, slashed |-> FALSE]
      BY <2>1 DEF Put
    <2>4. \A k \in D : StakesOf(new)[k] = StakesOf(vs)[k]
      BY <2>3 DEF StakesOf
    <2>5. IsFiniteSet(D) /\ \A k \in D : StakesOf(vs)[k] \in Int
      BY MembersFinite
    <2>6. StakesOf(new)[key] = stake
      BY <2>3 DEF StakesOf
    <2>7. SumFunctionOnSet(StakesOf(new), D \cup {key})
            = stake + SumFunctionOnSet(StakesOf(new), D)
      BY <2>1, <2>4, <2>5, <2>6, SumAdd
    <2>8. SumFunctionOnSet(StakesOf(new), D) = SumFunctionOnSet(StakesOf(vs), D)
      BY <2>4, <2>5, SumEqual
    <2>9. SumFunctionOnSet(StakesOf(vs), D) \in Int
      BY <2>5, SumInt
    <2>10. new.total_stake = SumFunctionOnSet(StakesOf(new), DOMAIN new.members)
      BY <2>1, <2>3, <2>7, <2>8, <2>9 DEF Accounted
    <2>11. \A k \in DOMAIN new.members :
             new.members[k].slashed => new.members[k].stake = 0
      BY <2>3 DEF Accounted
    <2>12. Accounted(new)
      BY <2>10, <2>11 DEF Accounted
    <2> QED
      BY <2>12 DEF new
  <1> QED
    BY <1>1, <1>2

(* unregistering takes both away,                                          *)
LEMMA UnregisterAccounted ==
    ASSUME NEW vs, IsValidatorSet(vs), Accounted(vs), NEW key
    PROVE  Accounted(UnregisterValidator(vs, key))
  <1>1. CASE ~IsValidator(vs, key)
    BY <1>1 DEF UnregisterValidator
  <1>2. CASE IsValidator(vs, key)
    <2> DEFINE new == UnregisterValidator(vs, key)
               D == DOMAIN vs.members
    <2>1. /\ new.members = Drop(vs.members, key)
          /\ new.total_stake = vs.total_stake - vs.members[key].stake
          /\ key \in D
      BY <1>2 DEF UnregisterValidator, IsValidator
    <2> HIDE DEF new
    <2>2. /\ DOMAIN new.members = D \ {key}
          /\ \A k \in D \ {key} : new.members[k] = vs.members[k]
      BY <2>1 DEF Drop
    <2>3. \A k \in D \ {key} : StakesOf(new)[k] = StakesOf(vs)[k]
      BY <2>2 DEF StakesOf
    <2>4. /\ IsFiniteSet(D) /\ IsFiniteSet(D \ {key})
          /\ \A k \in D : StakesOf(vs)[k] \in Int
          /\ StakesOf(vs)[key] = vs.members[key].stake
      BY <2>1, MembersFinite, FS_RemoveElement
    <2>5. SumFunctionOnSet(StakesOf(vs), D)
            = StakesOf(vs)[key] + SumFunctionOnSet(StakesOf(vs), D \ {key})
      BY <2>1, <2>4, SumRemove
    <2>6. SumFunctionOnSet(StakesOf(new), D \ {key})
            = SumFunctionOnSet(StakesOf(vs), D \ {key})
      BY <2>3, <2>4, SumEqual
    <2>7. SumFunctionOnSet(StakesOf(vs), D \ {key}) \in Int
      BY <2>4, SumInt
    <2>10. new.total_stake = SumFunctionOnSet(StakesOf(new), DOMAIN new.members)
      BY <2>1, <2>2, <2>4, <2>5, <2>6, <2>7 DEF Accounted
    <2>11. \A k \in DOMAIN new.members :
             new.members[k].slashed => new.members[k].stake = 0
      BY <2>2 DEF Accounted
    <2>12. Accounted(new)
      BY <2>10, <2>11 DEF Accounted
    <2> QED
      BY <2>12 DEF new
  <1> QED
    BY <1>1, <1>2

(* and slashing takes the stake and leaves the member.                     *)
LEMMA SlashAccounted ==
    ASSUME NEW vs, IsValidatorSet(vs), Accounted(vs), NEW key
    PROVE  Accounted(SlashValidator(vs, key))
  <1> DEFINE new == SlashValidator(vs, key)
             D == DOMAIN vs.members
  <1>1. CASE ~(IsValidator(vs, key) /\ ~vs.members[key].slashed)
    BY <1>1 DEF SlashValidator
  <1>2. CASE IsValidator(vs, key) /\ ~vs.members[key].slashed
    <2>1. /\ new.members = Put(vs.members, key, [stake |-> 0, slashed |-> TRUE])
          /\ new.total_stake = vs.total_stake - vs.members[key].stake
          /\ key \in D
      BY <1>2 DEF SlashValidator, IsValidator
    <2> HIDE DEF new
    <2>2. /\ DOMAIN new.members = D
          /\ \A k \in D \ {key} : new.members[k] = vs.members[k]
          /\ new.members[key] = [stake |-> 0, slashed |-> TRUE]
      BY <2>1 DEF Put
    <2>3. /\ \A k \in D \ {key} : StakesOf(vs)[k] = StakesOf(new)[k]
          /\ StakesOf(new)[key] = 0
      BY <2>1, <2>2 DEF StakesOf
    <2>4. /\ IsFiniteSet(D) /\ \A k \in D : StakesOf(vs)[k] \in Int
          /\ StakesOf(vs)[key] = vs.members[key].stake
      BY <2>1, MembersFinite
    <2>5. SumFunctionOnSet(StakesOf(new), D)
            = SumFunctionOnSet(StakesOf(vs), D) - StakesOf(vs)[key]
                + StakesOf(new)[key]
      BY <2>1, <2>3, <2>4, SumChange
    <2>6. SumFunctionOnSet(StakesOf(vs), D) \in Int
      BY <2>4, SumInt
    <2>10. new.total_stake = SumFunctionOnSet(StakesOf(new), DOMAIN new.members)
      BY <2>1, <2>2, <2>3, <2>4, <2>5, <2>6 DEF Accounted
    <2>11. \A k \in DOMAIN new.members :
             new.members[k].slashed => new.members[k].stake = 0
      BY <2>1, <2>2 DEF Accounted
    <2>12. Accounted(new)
      BY <2>10, <2>11 DEF Accounted
    <2> QED
      BY <2>12 DEF new
  <1> QED
    BY <1>1, <1>2

(* Accounted is StakeAccounting.                                           *)
LEMMA AccountedIs == StakeAccounting <=> Accounted(validators)
  BY DEF StakeAccounting, Accounted, Stakes, StakesOf, SumFunction

(* total_stake is the sum of the stakes and a slashed member has none, in  *)
(* every interleaving of registrations, refunds, slashings, crashes and    *)
(* restarts, and for any number of members: what check_finality and the    *)
(* leader rule divide by is the stake that exists.                         *)
THEOREM StakeAccountingCorrect == Spec => []StakeAccounting
  <1> DEFINE Inv == Accounted(validators)
  <1>1. Init => Inv
    BY SumEmpty DEF Init, NoValidators, EmptyMap, Accounted
  <1>2. Shape /\ Typed /\ Inv /\ [Next]_vars => Inv'
    <2> SUFFICES ASSUME Shape, Typed, Inv, [Next]_vars PROVE Inv'
      OBVIOUS
    <2> USE DEF memory, handler
    <2>0. IsValidatorSet(validators)
      BY DEF Typed
    <2>1. CASE validators' = validators
      BY <2>1
    <2>2. CASE Boot
      <3>1. Unfunded(ledger.accounts) \in SUBSET Address
        BY FundingType DEF Typed, TypeOK, IsLedger
      <3> QED
        BY <2>2, <3>1, GenesisAccounted DEF Boot
    <2>3. ASSUME NEW b \in Hashes, SlashEquivocator(b) PROVE Inv'
      BY <2>0, <2>3, SlashAccounted DEF SlashEquivocator
    <2>4. CASE PostTx
      <3> DEFINE tx == Head(rest)
      <3>1. tx \in Transaction
        BY <2>4 DEF PostTx, Typed, TypeOK
      <3>2. tx.sender \in Address /\ tx.data \in TransactionData
        BY <3>1 DEF Transaction
      <3>3. CASE tx.data.type = "RegisterValidator"
        <4>1. tx.data.stake \in Nat
          BY <3>2, <3>3, DataType DEF U64
        <4>2. validators' = RegisterValidator(validators, tx.sender, tx.data.stake)
          BY <2>4, <3>3 DEF PostTx
        <4> QED
          BY <2>0, <3>2, <4>1, <4>2, RegisterAccounted
      <3>4. CASE tx.data.type = "UnregisterValidator"
        <4>1. validators' = UnregisterValidator(validators, tx.sender)
          BY <2>4, <3>4 DEF PostTx
        <4> QED
          BY <2>0, <4>1, UnregisterAccounted
      <3>5. CASE tx.data.type \notin {"RegisterValidator", "UnregisterValidator"}
        BY <2>4, <3>5 DEF PostTx
      <3> QED
        BY <3>3, <3>4, <3>5
    <2>5. \/ Boot \/ PostTx \/ validators' = validators
          \/ \E b \in Hashes : SlashEquivocator(b)
      BY DEF Next, AddBlock, FinishBoot, IgnoreOrphan, RejectBlock, BeginBlock,
         ExecTx, RejectRoot, ChooseFork, StoreBlock, StoreBlockFails,
         WriteAccount, WriteAccountFails, FinishCommit, EndBlock, PanicOnHead,
         AddVote, Prune, Crash, vars
    <2> QED
      BY <2>1, <2>2, <2>3, <2>4, <2>5
  <1>3. Inv => StakeAccounting
    BY AccountedIs
  <1> QED
    BY <1>1, <1>2, <1>3, ShapeInvariant, TypedInvariant, PTL DEF Spec

(* Two blocks cannot both pass check_finality unless validators with a     *)
(* third of the stake voted for both: by inclusion and exclusion the two   *)
(* sets of voters share what they hold beyond the whole.  It holds at any  *)
(* moment for the stakes of that moment, whatever was slashed, registered  *)
(* or paid back since the votes came in.                                   *)
THEOREM FinalityQuorumsOverlapCorrect == Spec => []FinalityQuorumsOverlap
  <1>1. Typed /\ StakeAccounting => FinalityQuorumsOverlap
    <2> SUFFICES ASSUME Typed, StakeAccounting, NEW g1 \in Hashes, NEW g2 \in Hashes,
                        ReachesFinality(votes[g1]), ReachesFinality(votes[g2])
                 PROVE  10000 * VoteStake(votes[g1] \cap votes[g2])
                           > 3332 * validators.total_stake
      BY DEF FinalityQuorumsOverlap
    <2> DEFINE Sum(T) == SumFunctionOnSet(Stakes, T)
    <2>1. PICK D : D = DOMAIN validators.members
      OBVIOUS
    <2>2. PICK A : A = votes[g1] \cap D
      OBVIOUS
    <2>3. PICK B : B = votes[g2] \cap D
      OBVIOUS
    <2>4. IsValidatorSet(validators)
      BY DEF Typed
    <2>5. IsFiniteSet(D) /\ \A k \in D : Stakes[k] \in Nat
      BY <2>1, <2>4, MembersFinite DEF Stakes, StakesOf
    <2>6. A \in SUBSET D /\ B \in SUBSET D /\ A \cup B \in SUBSET D
          /\ (votes[g1] \cap votes[g2]) \cap D = A \cap B
      BY <2>2, <2>3
    <2> HIDE DEF Sum
    <2>7. Sum(A \cup B) + Sum(A \cap B) = Sum(A) + Sum(B)
      BY <2>5, <2>6, SumUnion DEF Sum
    <2>8. Sum(A \cup B) <= Sum(D)
      BY <2>5, <2>6, SumPart DEF Sum
    <2>9. /\ Sum(D) \in Nat /\ Sum(A) \in Nat /\ Sum(B) \in Nat
          /\ Sum(A \cup B) \in Nat /\ Sum(A \cap B) \in Nat
      <3>1. \A T \in SUBSET D : IsFiniteSet(T) /\ \A k \in T : Stakes[k] \in Nat
        BY <2>5, FS_Subset
      <3>2. \A T \in SUBSET D : Sum(T) \in Nat
        BY <3>1, SumNat DEF Sum
      <3> QED
        BY <2>6, <3>2
    <2>10. Sum(D) = validators.total_stake
      BY <2>1 DEF Sum, StakeAccounting, SumFunction, Stakes
    <2>11. 10000 * Sum(A) > 6666 * Sum(D) /\ 10000 * Sum(B) > 6666 * Sum(D)
      BY <2>1, <2>2, <2>3, <2>10 DEF ReachesFinality, VoteStake, Sum
    <2>12. 10000 * Sum(A \cap B) > 3332 * Sum(D)
      BY <2>7, <2>8, <2>9, <2>11
    <2> QED
      BY <2>1, <2>6, <2>10, <2>12 DEF VoteStake, Sum
  <1> QED
    BY <1>1, TypedInvariant, StakeAccountingCorrect, PTL

-----------------------------------------------------------------------------
(* The block tree. *)

(* ParentBehindAndKept alone is not inductive: the block that add_block    *)
(* works on must have its parent in storage until it is stored itself, and *)
(* a restart must come back to the same head.                              *)
ParentInv ==
    /\ head = disk.head
    /\ ParentBehindAndKept
    /\ \A b \in disk.blocks \ {Genesis} : Header[b].parent \in Hashes
    /\ pc \in {"execute", "store"} =>
          LET p == Header[block].parent
          IN  p \in disk.blocks /\ Slot(p) < Slot(block)

(* Steps that leave the blocks and the head alone and start no block keep  *)
(* ParentInv.                                                              *)
LEMMA ParentKept ==
    ASSUME ParentInv, disk'.blocks = disk.blocks, disk'.head = disk.head,
           head' = head,
           \/ pc' \notin {"execute", "store"}
           \/ pc \in {"execute", "store"} /\ block' = block
    PROVE  ParentInv'
  BY DEF ParentInv, ParentBehindAndKept, Slot

(* The stored blocks form a tree with increasing slots, from which pruning *)
(* takes only what lies more than KeepBlocks slots behind the head,        *)
(* whatever the order of delivery and however often the process dies,      *)
(* provided that writes of the head succeed: a restart would otherwise     *)
(* come back to an older head than the one that pruning went by.           *)
THEOREM ParentBehindAndKeptCorrect ==
    ASSUME "head" \notin FailingWrites
    PROVE  Spec => []ParentBehindAndKept
  <1>1. Init => ParentInv
    BY DEF Init, ParentInv, ParentBehindAndKept, EmptyDisk
  <1>2. Shape /\ HeadInv /\ HeightIndexSound /\ ParentInv /\ [Next]_vars
          => ParentInv'
    <2> SUFFICES ASSUME Shape, HeadInv, HeightIndexSound, ParentInv, [Next]_vars
                 PROVE  ParentInv'
      OBVIOUS
    <2> USE DEF memory, handler
    <2>0. DiskShape(disk)
      BY DEF Shape
    <2>1. CASE Boot
      <3>1. CASE disk.head # NoHash
        BY <2>1, <3>1, ParentKept DEF Boot, ParentInv
      <3>2. CASE disk.head = NoHash
        <4>1. Genesis \in Hashes
          BY ChainAssumption
        <4> DEFINE d == PutBlock(disk, Genesis)
        <4>2. disk.blocks = {} /\ disk' = PutHead(d, Genesis)
          BY <2>1, <3>2 DEF Boot, HeadInv
        <4>3. DiskShape(d) /\ d.blocks = {Genesis}
          BY <2>0, <4>1, <4>2, PutBlockShape
        <4>4. disk'.blocks = {Genesis} /\ disk'.head = Genesis
          BY <4>1, <4>2, <4>3, PutHeadShape DEF SameBut
        <4> QED
          BY <2>1, <4>4 DEF Boot, ParentInv, ParentBehindAndKept
      <3> QED
        BY <3>1, <3>2
    <2>2. CASE FinishBoot
      BY <2>2, ParentKept DEF FinishBoot, Return
    <2>3. ASSUME NEW b \in Hashes, IgnoreOrphan(b) PROVE ParentInv'
      BY <2>3, ParentKept DEF IgnoreOrphan, vars
    <2>4. ASSUME NEW b \in Hashes, SlashEquivocator(b) PROVE ParentInv'
      BY <2>4, ParentKept DEF SlashEquivocator
    <2>5. ASSUME NEW b \in Hashes, RecordHeader(b)
          PROVE  disk'.head = disk.head /\ disk'.blocks = disk.blocks
      BY <2>0, <2>5, PutSeenShape, PersistOutcomes DEF RecordHeader, SameBut
    <2>6. ASSUME NEW b \in Hashes, RejectBlock(b) PROVE ParentInv'
      BY <2>5, <2>6, ParentKept DEF RejectBlock
    <2>7. ASSUME NEW b \in Hashes, BeginBlock(b) PROVE ParentInv'
      <3>1. disk'.head = disk.head /\ disk'.blocks = disk.blocks
        BY <2>5, <2>7 DEF BeginBlock
      <3>2. /\ Header[b].parent \in disk.blocks
            /\ Slot(Header[b].parent) < Slot(b)
        <4>1. Slot(b) > Slot(Header[b].parent) /\ Header[b].parent \in disk.blocks
          BY <2>7 DEF BeginBlock, ValidBlock, ParentStored
        <4>2. Slot(b) \in Nat /\ Slot(Header[b].parent) \in Nat
          BY <2>0, <4>1, HeaderType DEF DiskShape
        <4> QED
          BY <4>1, <4>2
      <3> QED
        BY <2>7, <3>1, <3>2 DEF BeginBlock, ParentInv, ParentBehindAndKept, Slot
    <2>8. CASE ExecTx
      BY <2>8, ParentKept DEF ExecTx, Return
    <2>9. CASE RejectRoot
      BY <2>9, ParentKept DEF RejectRoot, Return
    <2>10. CASE ChooseFork
      <3>1. /\ block \in Hashes /\ head \in Hashes
            /\ KeepBlocks \in Nat
        BY <2>10, ChainAssumption DEF ChooseFork, Shape
      <3>2. CASE IsBetter(block, head)
        <4>1. disk' = PutHead(disk, block) /\ head' = block
          BY <2>10, <3>2 DEF ChooseFork, Persist
        <4>2. disk'.head = block /\ disk'.blocks = disk.blocks
          BY <2>0, <3>1, <4>1, PutHeadShape DEF SameBut
        <4>3. Slot(head) <= Slot(block) /\ Slot(head) \in Nat /\ Slot(block) \in Nat
          BY <3>1, <3>2, HeaderType DEF IsBetter
        <4>4. ASSUME NEW b \in disk.blocks \ {Genesis}
              PROVE  LET p == Header[b].parent
                     IN  /\ Slot(p) < Slot(b)
                         /\ p \in disk.blocks \/ Slot(p) < Slot(block) - KeepBlocks
          <5> DEFINE p == Header[b].parent
          <5>1. /\ p \in Hashes /\ Slot(p) < Slot(b)
                /\ p \in disk.blocks \/ Slot(p) < Slot(head) - KeepBlocks
            BY DEF ParentInv, ParentBehindAndKept
          <5>2. Slot(p) \in Nat
            BY <5>1, HeaderType
          <5> QED
            BY <3>1, <4>3, <5>1, <5>2
        <4>5. block' = block
          BY <2>10 DEF ChooseFork
        <4>6. ParentBehindAndKept'
          BY <4>1, <4>2, <4>4 DEF ParentBehindAndKept, Slot
        <4> QED
          BY <2>10, <4>1, <4>2, <4>5, <4>6 DEF ChooseFork, ParentInv, Slot
      <3>3. CASE ~IsBetter(block, head)
        BY <2>10, <3>3, ParentKept DEF ChooseFork
      <3> QED
        BY <3>2, <3>3
    <2>11. CASE StoreBlock
      <3>1. /\ block \in Hashes /\ Header[block].parent \in disk.blocks
            /\ Slot(Header[block].parent) < Slot(block)
            /\ Header[block].parent \in Hashes
        BY <2>0, <2>11 DEF StoreBlock, Shape, ParentInv, DiskShape
      <3>2. disk'.blocks = disk.blocks \cup {block} /\ disk'.head = disk.head
        BY <2>0, <2>11, <3>1, PutBlockShape DEF StoreBlock, SameBut
      <3>3. ParentBehindAndKept'
        BY <2>11, <3>1, <3>2 DEF StoreBlock, ParentInv, ParentBehindAndKept, Slot
      <3> QED
        BY <2>11, <3>1, <3>2, <3>3 DEF StoreBlock, ParentInv
    <2>12. CASE StoreBlockFails
      BY <2>12, ParentKept DEF StoreBlockFails, Return
    <2>13. ASSUME NEW a \in Address, WriteAccount(a) PROVE ParentInv'
      BY <2>13, ParentKept DEF WriteAccount
    <2>14. CASE WriteAccountFails
      BY <2>14, ParentKept DEF WriteAccountFails, Return
    <2>15. CASE FinishCommit
      <3>1. disk'.head = disk.head /\ disk'.blocks = disk.blocks
        BY <2>0, <2>15, PutHeightShape, PersistOutcomes DEF FinishCommit, SameBut
      <3> QED
        BY <2>15, <3>1, ParentKept DEF FinishCommit
    <2>16. CASE PostTx
      <3>1. disk'.head = disk.head /\ disk'.blocks = disk.blocks
        BY <2>0, <2>16, IndexTxShape DEF PostTx, SameBut
      <3> QED
        BY <2>16, <3>1, ParentKept DEF PostTx
    <2>17. CASE EndBlock
      BY <2>17, ParentKept DEF EndBlock, Return
    <2>18. CASE PanicOnHead
      BY <2>18, ParentKept DEF PanicOnHead
    <2>19. ASSUME NEW v \in Votes, AddVote(v[1], v[2]) PROVE ParentInv'
      <3>1. disk'.head = disk.head /\ disk'.blocks = disk.blocks
        BY <2>0, <2>19, PutVoteShape, PersistOutcomes DEF AddVote, SameBut
      <3> QED
        BY <2>19, <3>1, ParentKept DEF AddVote
    <2>20. CASE Prune
      <3> DEFINE target == Slot(head) - KeepBlocks
                 heights == IndexedBelow(disk, target)
                 cut == {disk.height[s] : s \in heights}
      <3>1. /\ disk'.head = disk.head
            /\ disk'.blocks = disk.blocks \ (cut \ {head})
        BY <2>0, <2>20, PruneShape DEF Prune
      <3>2. ASSUME NEW p \in cut PROVE Slot(p) < target
        <4>1. PICK s \in heights : p = disk.height[s]
          BY <3>2
        <4>2. s \in DOMAIN disk.height /\ s \in 1 .. target - 1
          BY <4>1 DEF IndexedBelow
        <4>3. Slot(p) = s
          BY <4>1, <4>2 DEF HeightIndexSound
        <4>4. target \in Int
          BY <2>20, HeaderType, ChainAssumption DEF Prune, Shape
        <4> QED
          BY <4>2, <4>3, <4>4
      <3> HIDE DEF cut
      <3>3. ASSUME NEW b \in disk'.blocks \ {Genesis}
            PROVE  LET p == Header[b].parent
                   IN  /\ Slot(p) < Slot(b)
                       /\ p \in disk'.blocks \/ Slot(p) < target
        <4>1. b \in disk.blocks \ {Genesis}
          BY <3>1
        <4> DEFINE p == Header[b].parent
        <4>2. Slot(p) < Slot(b) /\ (p \in disk.blocks \/ Slot(p) < target)
          BY <4>1 DEF ParentInv, ParentBehindAndKept
        <4>3. p \in disk.blocks => p \in disk'.blocks \/ p \in cut
          BY <3>1
        <4> QED
          BY <3>2, <4>2, <4>3
      <3>4. head' = head /\ pc' = "idle"
        BY <2>20 DEF Prune
      <3> HIDE DEF target
      <3>5. \A b \in disk'.blocks \ {Genesis} : Header[b].parent \in Hashes
        BY <3>1 DEF ParentInv
      <3> QED
        BY <3>1, <3>3, <3>4, <3>5 DEF ParentInv, ParentBehindAndKept, Slot, target
    <2>21. CASE Crash
      BY <2>21, ParentKept DEF Crash
    <2>22. CASE UNCHANGED vars
      BY <2>22, ParentKept DEF vars
    <2> QED
      BY <2>1, <2>2, <2>3, <2>4, <2>6, <2>7, <2>8, <2>9, <2>10, <2>11, <2>12,
         <2>13, <2>14, <2>15, <2>16, <2>17, <2>18, <2>19, <2>20, <2>21, <2>22
      DEF Next, AddBlock
  <1>3. ParentInv => ParentBehindAndKept
    BY DEF ParentInv
  <1> QED
    BY <1>1, <1>2, <1>3, ShapeInvariant, HeadInvariant, HeightIndexCorrect, PTL
    DEF Spec

-----------------------------------------------------------------------------
(* Slashing. *)

(* The keys that a validator set gives no stake.                           *)
Stakeless(vs, k) == ~IsValidator(vs, k) \/ vs.members[k].stake = 0

(* Nobody registers the consensus keys in `txs`.                           *)
NoKeyRegisters(txs) ==
    \A i \in DOMAIN txs :
        txs[i].data.type = "RegisterValidator" => txs[i].sender \notin Keys

(* What EquivocatorHasNoStake needs to be inductive while the process      *)
(* lives: memory knows every header that storage knows, and of the blocks  *)
(* that were examined for a slot all but the one remembered have cost      *)
(* their producer its stake.                                               *)
SlashInv ==
    /\ pc = "down" => checked = {} /\ disk.seen = EmptyMap
    /\ NoKeyRegisters(rest)
    /\ \A key \in DOMAIN disk.seen :
          key \in DOMAIN seen_headers /\ seen_headers[key] = disk.seen[key]
    /\ \A key \in DOMAIN seen_headers : seen_headers[key] \in Hashes
    /\ \A b \in checked :
          /\ SlotKey(b) \in DOMAIN seen_headers
          /\ \/ seen_headers[SlotKey(b)] = b
             \/ Stakeless(validators, Header[b].producer)

(* Steps that leave the headers and the validator set alone keep it.       *)
LEMMA SlashKept ==
    ASSUME SlashInv, disk'.seen = disk.seen, seen_headers' = seen_headers,
           validators' = validators, checked' = checked, pc' # "down",
           NoKeyRegisters(rest')
    PROVE  SlashInv'
  BY DEF SlashInv, SlotKey

(* What is left of a block's transactions registers no key either.         *)
LEMMA TailRegistersNoKey ==
    ASSUME NEW txs \in Seq(Transaction), txs # <<>>, NoKeyRegisters(txs)
    PROVE  /\ NoKeyRegisters(Tail(txs)) /\ NoKeyRegisters(<<>>)
           /\ Head(txs).data.type = "RegisterValidator"
                 => Head(txs).sender \notin Keys
  BY DEF NoKeyRegisters

(* RecordHeader keeps what SlashInv says of the headers, and remembers b.  *)
LEMMA RecordHeaderRemembers ==
    ASSUME SlashInv, DiskShape(disk), NEW b \in Hashes, ~Equivocates(b),
           RecordHeader(b)
    PROVE  /\ \A key \in DOMAIN disk'.seen :
                 key \in DOMAIN seen_headers' /\ seen_headers'[key] = disk'.seen[key]
           /\ \A key \in DOMAIN seen_headers' : seen_headers'[key] \in Hashes
           /\ \A key \in DOMAIN seen_headers :
                 key \in DOMAIN seen_headers' /\ seen_headers'[key] = seen_headers[key]
           /\ SlotKey(b) \in DOMAIN seen_headers' /\ seen_headers'[SlotKey(b)] = b
  <1> DEFINE k == SlotKey(b)
  <1>1. NoHash \notin Hashes
    BY ChainAssumption
  <1>2. CASE SeenHash(b) = b
    <2>1. disk' = disk /\ seen_headers' = seen_headers
      BY <1>2 DEF RecordHeader
    <2>2. k \in DOMAIN seen_headers /\ seen_headers[k] = b
      BY <1>1, <1>2 DEF SeenHash, Lookup, SlashInv
    <2> QED
      BY <2>1, <2>2 DEF SlashInv
  <1>3. CASE SeenHash(b) # b
    <2>1. SeenHash(b) = NoHash
      BY <1>3 DEF Equivocates
    <2>2. k \notin DOMAIN seen_headers
      BY <1>1, <2>1 DEF SeenHash, Lookup, SlashInv
    <2>3. seen_headers' = Put(seen_headers, k, b)
      BY <1>3 DEF RecordHeader
    <2>4. disk'.seen = disk.seen \/ disk'.seen = Put(disk.seen, k, b)
      BY <1>3, PersistOutcomes, PutSeenShape DEF RecordHeader
    <2> QED
      BY <2>2, <2>3, <2>4 DEF Put, SlashInv
  <1> QED
    BY <1>2, <1>3

(* A slashed key has no stake, and nobody gains stake by it.               *)
LEMMA SlashMakesStakeless ==
    ASSUME NEW vs, IsValidatorSet(vs), Accounted(vs), NEW key
    PROVE  /\ Stakeless(SlashValidator(vs, key), key)
           /\ \A k : Stakeless(vs, k) => Stakeless(SlashValidator(vs, key), k)
  BY DEF Stakeless, SlashValidator, Accounted, IsValidator, Put

(* WHITEPAPER 7.2, "Slashing: 100% of stake for equivocation".  While the  *)
(* process lives, whoever signed two examined blocks for one slot has no   *)
(* stake, in whatever order the blocks came and whatever else happens      *)
(* between.  MaxCrashes = 0: a restart forgets who was slashed.  The       *)
(* second hypothesis says that consensus keys do not sign registrations:   *)
(* they are Schnorrkel keys, and transactions carry signatures of another  *)
(* scheme.  Without it a slashed key could leave the set and register      *)
(* again.                                                                  *)
THEOREM EquivocatorHasNoStakeCorrect ==
    ASSUME MaxCrashes = 0, \A h \in Hashes : NoKeyRegisters(Header[h].txs)
    PROVE  Spec => []EquivocatorHasNoStake
  <1>1. Init => SlashInv
    BY DEF Init, SlashInv, EmptyDisk, EmptyMap, NoKeyRegisters
  <1>2. Shape /\ Typed /\ StakeAccounting /\ SlashInv /\ [Next]_vars => SlashInv'
    <2> SUFFICES ASSUME Shape, Typed, StakeAccounting, SlashInv, [Next]_vars
                 PROVE  SlashInv'
      OBVIOUS
    <2> USE DEF memory, handler
    <2>0. /\ DiskShape(disk) /\ NoKeyRegisters(rest) /\ NoKeyRegisters(<<>>)
          /\ rest \in Seq(Transaction)
      BY DEF Shape, SlashInv, Typed, TypeOK, NoKeyRegisters
    <2>1. CASE Boot
      <3>1. Genesis \in Hashes
        BY ChainAssumption
      <3>2. PutHead(PutBlock(disk, Genesis), Genesis).seen = disk.seen
        BY <2>0, <3>1, PutBlockShape, PutHeadShape DEF SameBut
      <3>3. disk'.seen = EmptyMap /\ checked' = {} /\ seen_headers' = EmptyMap
            /\ rest' = rest
        BY <2>1, <3>2 DEF Boot, SlashInv
      <3> QED
        BY <2>0, <3>3 DEF SlashInv, EmptyMap
    <2>2. CASE FinishBoot
      BY <2>0, <2>2, SlashKept DEF FinishBoot, Return
    <2>3. ASSUME NEW b \in Hashes, IgnoreOrphan(b) PROVE SlashInv'
      BY <2>0, <2>3, SlashKept DEF IgnoreOrphan, vars
    <2>4. ASSUME NEW b \in Hashes, SlashEquivocator(b) PROVE SlashInv'
      <3> DEFINE producer == Header[b].producer
      <3>1. /\ validators' = SlashValidator(validators, producer)
            /\ checked' = checked \cup {b}
            /\ UNCHANGED <<disk, seen_headers, rest, pc>> /\ pc = "idle"
            /\ Equivocates(b)
        BY <2>4 DEF SlashEquivocator
      <3>2. SlotKey(b) \in DOMAIN seen_headers
        BY <3>1 DEF Equivocates, SeenHash, Lookup, SlashInv
      <3>3. /\ Stakeless(validators', producer)
            /\ \A k : Stakeless(validators, k) => Stakeless(validators', k)
        BY <3>1, SlashMakesStakeless, AccountedIs DEF Typed
      <3>4. \A c \in checked' :
              /\ SlotKey(c) \in DOMAIN seen_headers
              /\ \/ seen_headers[SlotKey(c)] = c
                 \/ Stakeless(validators', Header[c].producer)
        BY <3>1, <3>2, <3>3 DEF SlashInv
      <3> QED
        BY <3>1, <3>4 DEF SlashInv, SlotKey
    <2>5. ASSUME NEW b \in Hashes, RecordHeader(b), ~Equivocates(b),
                 checked' = checked \cup {b}, validators' = validators,
                 pc' # "down", NoKeyRegisters(rest')
          PROVE  SlashInv'
      BY <2>0, <2>5, RecordHeaderRemembers DEF SlashInv, SlotKey
    <2>6. ASSUME NEW b \in Hashes, RejectBlock(b) PROVE SlashInv'
      BY <2>0, <2>5, <2>6 DEF RejectBlock
    <2>7. ASSUME NEW b \in Hashes, BeginBlock(b) PROVE SlashInv'
      BY <2>5, <2>7 DEF BeginBlock
    <2>8. CASE ExecTx
      <3>1. NoKeyRegisters(rest')
        BY <2>0, <2>8, TailRegistersNoKey DEF ExecTx, Return
      <3> QED
        BY <2>8, <3>1, SlashKept DEF ExecTx, Return
    <2>9. CASE RejectRoot
      BY <2>0, <2>9, SlashKept DEF RejectRoot, Return
    <2>10. CASE ChooseFork
      <3>1. disk'.seen = disk.seen
        BY <2>0, <2>10, PutHeadShape, PersistOutcomes DEF ChooseFork, SameBut, Shape
      <3> QED
        BY <2>0, <2>10, <3>1, SlashKept DEF ChooseFork
    <2>11. CASE StoreBlock
      <3>1. disk'.seen = disk.seen
        BY <2>0, <2>11, PutBlockShape DEF StoreBlock, Shape, SameBut
      <3> QED
        BY <2>0, <2>11, <3>1, SlashKept DEF StoreBlock
    <2>12. CASE StoreBlockFails
      BY <2>0, <2>12, SlashKept DEF StoreBlockFails, Return
    <2>13. ASSUME NEW a \in Address, WriteAccount(a) PROVE SlashInv'
      BY <2>0, <2>13, SlashKept DEF WriteAccount
    <2>14. CASE WriteAccountFails
      BY <2>0, <2>14, SlashKept DEF WriteAccountFails, Return
    <2>15. CASE FinishCommit
      <3>1. disk'.seen = disk.seen
        BY <2>0, <2>15, PutHeightShape, PersistOutcomes DEF FinishCommit, SameBut
      <3>2. NoKeyRegisters(rest')
        BY <2>15 DEF FinishCommit, Shape
      <3> QED
        BY <2>15, <3>1, <3>2, SlashKept DEF FinishCommit
    <2>16. CASE PostTx
      <3> DEFINE tx == Head(rest)
      <3>1. disk'.seen = disk.seen
        BY <2>0, <2>16, IndexTxShape DEF PostTx, SameBut
      <3>2. /\ NoKeyRegisters(rest')
            /\ tx.data.type = "RegisterValidator" => tx.sender \notin Keys
        BY <2>0, <2>16, TailRegistersNoKey DEF PostTx
      <3>3. ASSUME NEW k \in Keys, Stakeless(validators, k)
            PROVE  Stakeless(validators', k)
        <4>1. CASE tx.data.type = "RegisterValidator"
          <5>1. /\ validators' = RegisterValidator(validators, tx.sender, tx.data.stake)
                /\ k # tx.sender
            BY <2>16, <3>2, <4>1 DEF PostTx
          <5> QED
            BY <3>3, <5>1 DEF RegisterValidator, Stakeless, IsValidator, Put
        <4>2. CASE tx.data.type = "UnregisterValidator"
          <5>1. validators' = UnregisterValidator(validators, tx.sender)
            BY <2>16, <4>2 DEF PostTx
          <5> QED
            BY <3>3, <5>1 DEF UnregisterValidator, Stakeless, IsValidator, Drop
        <4>3. CASE tx.data.type \notin {"RegisterValidator", "UnregisterValidator"}
          BY <2>16, <3>3, <4>3 DEF PostTx
        <4> QED
          BY <4>1, <4>2, <4>3
      <3>4. \A b \in checked : Header[b].producer \in Keys
        BY HeaderType DEF Typed, TypeOK
      <3>5. UNCHANGED <<seen_headers, checked, pc>> /\ pc # "down"
        BY <2>16 DEF PostTx
      <3>6. \A b \in checked' :
              /\ SlotKey(b) \in DOMAIN seen_headers
              /\ \/ seen_headers[SlotKey(b)] = b
                 \/ Stakeless(validators', Header[b].producer)
        BY <3>3, <3>4, <3>5 DEF SlashInv
      <3> QED
        BY <3>1, <3>2, <3>5, <3>6 DEF SlashInv, SlotKey
    <2>17. CASE EndBlock
      BY <2>0, <2>17, SlashKept DEF EndBlock, Return
    <2>18. CASE PanicOnHead
      BY <2>0, <2>18, SlashKept DEF PanicOnHead
    <2>19. ASSUME NEW v \in Votes, AddVote(v[1], v[2]) PROVE SlashInv'
      <3>1. disk'.seen = disk.seen
        BY <2>0, <2>19, PutVoteShape, PersistOutcomes DEF AddVote, SameBut
      <3> QED
        BY <2>0, <2>19, <3>1, SlashKept DEF AddVote
    <2>20. CASE Prune
      <3>1. disk'.seen = disk.seen
        BY <2>0, <2>20, PruneShape DEF Prune
      <3> QED
        BY <2>0, <2>20, <3>1, SlashKept DEF Prune
    <2>21. CASE Crash
      BY <2>21 DEF Crash, Typed, TypeOK
    <2>22. CASE UNCHANGED vars
      BY <2>22 DEF vars, SlashInv, SlotKey
    <2> QED
      BY <2>1, <2>2, <2>3, <2>4, <2>6, <2>7, <2>8, <2>9, <2>10, <2>11, <2>12,
         <2>13, <2>14, <2>15, <2>16, <2>17, <2>18, <2>19, <2>20, <2>21, <2>22
      DEF Next, AddBlock
  <1>3. SlashInv => EquivocatorHasNoStake
    <2> SUFFICES ASSUME SlashInv, NEW b \in checked, NEW c \in checked,
                        b # c, SlotKey(b) = SlotKey(c)
                 PROVE  Stakeless(validators, Header[b].producer)
      BY DEF EquivocatorHasNoStake, Stakeless
    <2>1. Header[b].producer = Header[c].producer
      BY DEF SlotKey
    <2> QED
      BY <2>1 DEF SlashInv
  <1> QED
    BY <1>1, <1>2, <1>3, ShapeInvariant, TypedInvariant, StakeAccountingCorrect,
       PTL DEF Spec

-----------------------------------------------------------------------------
(* Nonces and the index of transactions. *)

(* Neither the accounts of a block nor its index entries fail to be        *)
(* written.                                                                *)
IndexedWhole == MaxCrashes = 0 /\ FailingWrites \cap {"account", "index"} = {}

SentBy(S, a) == {tx \in S : tx.sender = a}

(* The transactions S of each address have the nonces below nonces[a].     *)
Numbered(S, nonces) ==
    \A a \in Addrs : nonces[a] \in Nat /\ Contiguous(SentBy(S, a), 0, nonces[a])

(* The nonces of the stored accounts, of those that are read through the   *)
(* overlay, and of those that will be stored once the accounts left are.   *)
Stored(st) == [a \in Addrs |-> Lookup(st.accounts, a, NewAccount).nonce]
Current(st) == [a \in Addrs |-> GetNonce(st, a)]
Committed(st, left) ==
    [a \in Addrs |-> IF a \in left THEN st.pending[a].nonce
                     ELSE Lookup(st.accounts, a, NewAccount).nonce]

(* The first n of a sequence of transactions.                              *)
Done(txs, n) == {txs[i] : i \in 1 .. n}

(* They are new to S, and different.                                       *)
New(S, txs, n) ==
    \A i \in 1 .. n : txs[i] \notin S /\ \A j \in 1 .. i - 1 : txs[j] # txs[i]

(* What is left to do of a sequence.                                       *)
Left(txs, left) ==
    /\ Len(left) <= Len(txs)
    /\ \A i \in 1 .. Len(left) : left[i] = txs[Len(txs) - Len(left) + i]

Indexed(d) == DOMAIN d.txs

(* Where the handler stands, and what the nonces count there: the indexed  *)
(* transactions, with those that were executed and are not yet indexed.    *)
CountInv ==
    /\ pc \in {"down", "boot", "idle", "panicked", "execute", "store"} =>
          Numbered(Indexed(disk), Stored(ledger))
    /\ pc = "boot" =>
          \A a \in unwritten : ledger.pending[a].nonce
                                 = Lookup(ledger.accounts, a, NewAccount).nonce
    /\ pc = "execute" =>
          LET txs == Header[block].txs
              n == Len(txs) - Len(rest)
          IN  /\ Left(txs, rest)
              /\ Numbered(Indexed(disk) \cup Done(txs, n), Current(ledger))
              /\ New(Indexed(disk), txs, n)
    /\ pc \in {"store", "commit"} =>
          LET txs == Header[block].txs
          IN  New(Indexed(disk), txs, Len(txs))
    /\ pc = "store" =>
          LET txs == Header[block].txs
          IN  Numbered(Indexed(disk) \cup Done(txs, Len(txs)), Current(ledger))
    /\ pc = "commit" =>
          LET txs == Header[block].txs
          IN  Numbered(Indexed(disk) \cup Done(txs, Len(txs)),
                       Committed(ledger, unwritten))
    /\ pc = "index" =>
          /\ Numbered(Indexed(disk) \cup Done(rest, Len(rest)), Stored(ledger))
          /\ New(Indexed(disk), rest, Len(rest))

(* Between blocks the nonce counts the indexed transactions.               *)
LEMMA CountMeans == CountInv => NonceCountsIndexedTxs
  <1> SUFFICES ASSUME CountInv, pc = "idle", NEW a \in Addrs
               PROVE  Lookup(ledger.accounts, a, NewAccount).nonce
                         = Cardinality(IndexedBy(a))
    BY DEF NonceCountsIndexedTxs
  <1>1. Numbered(Indexed(disk), Stored(ledger))
    BY DEF CountInv
  <1>2. IndexedBy(a) = SentBy(Indexed(disk), a)
    BY DEF IndexedBy, SentBy, Indexed
  <1>3. Stored(ledger)[a] = Lookup(ledger.accounts, a, NewAccount).nonce
    BY DEF Stored
  <1> QED
    BY <1>1, <1>2, <1>3, ContiguousSize DEF Numbered

(* A transaction that executes is new, and the next of its sender.         *)
LEMMA NumberedNext ==
    ASSUME NEW st, IsLedger(st), NEW tx \in Transaction,
           ProcessTransaction(st, tx).ok, NEW S, Numbered(S, Current(st))
    PROVE  /\ tx \notin S
           /\ Numbered(S \cup {tx}, Current(ProcessTransaction(st, tx).st))
  <1> DEFINE t == ProcessTransaction(st, tx).st
  <1>1. /\ tx.nonce = GetNonce(st, tx.sender)
        /\ GetNonce(t, tx.sender) = GetNonce(st, tx.sender) + 1
        /\ \A c : c # tx.sender => GetNonce(t, c) = GetNonce(st, c)
    BY ExecutedNonces
  <1>2. tx.sender \in Addrs
    <2>1. Validate(tx)
      BY ProcessTransactionSteps
    <2> QED
      BY <2>1 DEF Validate, ValidLogic, Transaction, Address
  <1> HIDE DEF t
  <1>3. ASSUME NEW a \in Addrs
        PROVE  /\ GetNonce(t, a) \in Nat
               /\ Contiguous(SentBy(S \cup {tx}, a), 0, GetNonce(t, a))
               /\ a = tx.sender => tx \notin S
    <2>1. /\ GetNonce(st, a) \in Nat
          /\ Contiguous(SentBy(S, a), 0, GetNonce(st, a))
      BY DEF Numbered, Current
    <2>2. CASE a = tx.sender
      <3>1. SentBy(S \cup {tx}, a) = SentBy(S, a) \cup {tx}
        BY <2>2 DEF SentBy
      <3>2. tx.nonce = 0 + GetNonce(st, a)
        BY <1>1, <2>1, <2>2
      <3>3. tx \notin SentBy(S, a)
            /\ Contiguous(SentBy(S, a) \cup {tx}, 0, GetNonce(st, a) + 1)
        BY <2>1, <3>2, ContiguousAdd
      <3>4. GetNonce(t, a) = GetNonce(st, a) + 1
        BY <1>1, <2>2
      <3> QED
        BY <2>1, <2>2, <3>1, <3>3, <3>4 DEF SentBy
    <2>3. CASE a # tx.sender
      <3>1. SentBy(S \cup {tx}, a) = SentBy(S, a)
        BY <2>3 DEF SentBy
      <3> QED
        BY <1>1, <2>1, <2>3, <3>1
    <2> QED
      BY <2>2, <2>3
  <1> QED
    BY <1>2, <1>3 DEF Numbered, Current, t

(* The sequence that is left, one transaction later.                       *)
LEMMA LeftTail ==
    ASSUME NEW txs \in Seq(Transaction), NEW left \in Seq(Transaction),
           Left(txs, left), left # <<>>
    PROVE  LET n == Len(txs) - Len(left)
           IN  /\ n \in Nat /\ n + 1 <= Len(txs)
               /\ Head(left) = txs[n + 1]
               /\ Left(txs, Tail(left))
               /\ Len(txs) - Len(Tail(left)) = n + 1
               /\ Done(txs, n + 1) = Done(txs, n) \cup {Head(left)}
  <1> DEFINE n == Len(txs) - Len(left)
  <1>1. Len(txs) \in Nat /\ Len(left) \in Nat /\ Len(left) > 0
        /\ Len(left) <= Len(txs)
    BY DEF Left
  <1>2. n \in Nat /\ n + 1 <= Len(txs)
    BY <1>1
  <1>3. Head(left) = txs[n + 1]
    BY <1>1 DEF Left
  <1>4. /\ Len(Tail(left)) = Len(left) - 1
        /\ \A i \in 1 .. Len(left) - 1 : Tail(left)[i] = left[i + 1]
    BY <1>1
  <1>5. Left(txs, Tail(left))
    BY <1>1, <1>4 DEF Left
  <1>6. Done(txs, n + 1) = Done(txs, n) \cup {txs[n + 1]}
    BY <1>2 DEF Done
  <1> QED
    BY <1>1, <1>2, <1>3, <1>4, <1>5, <1>6

(* The transaction that is indexed leaves what is still to be indexed.     *)
LEMMA DoneTail ==
    ASSUME NEW s \in Seq(Transaction), s # <<>>, NEW S, New(S, s, Len(s))
    PROVE  /\ Head(s) \notin S
           /\ Done(s, Len(s)) = {Head(s)} \cup Done(Tail(s), Len(Tail(s)))
           /\ New(S \cup {Head(s)}, Tail(s), Len(Tail(s)))
  <1>1. /\ Len(s) \in Nat /\ Len(s) > 0 /\ Len(Tail(s)) = Len(s) - 1
        /\ Head(s) = s[1]
        /\ \A i \in 1 .. Len(s) - 1 : Tail(s)[i] = s[i + 1]
    OBVIOUS
  <1>2. Head(s) \notin S
    BY <1>1 DEF New
  <1>3. Done(s, Len(s)) = {Head(s)} \cup Done(Tail(s), Len(Tail(s)))
    <2>1. ASSUME NEW i \in 1 .. Len(s)
          PROVE  s[i] \in {Head(s)} \cup Done(Tail(s), Len(Tail(s)))
      <3>1. CASE i = 1
        BY <1>1, <3>1
      <3>2. CASE i # 1
        <4>1. i - 1 \in 1 .. Len(s) - 1 /\ (i - 1) + 1 = i
          BY <1>1, <3>2
        <4>2. Tail(s)[i - 1] = s[i]
          BY <1>1, <4>1
        <4> QED
          BY <1>1, <4>1, <4>2 DEF Done
      <3> QED
        BY <3>1, <3>2
    <2>2. ASSUME NEW i \in 1 .. Len(Tail(s)) PROVE Tail(s)[i] \in Done(s, Len(s))
      <3>1. i + 1 \in 1 .. Len(s) /\ Tail(s)[i] = s[i + 1]
        BY <1>1
      <3> QED
        BY <3>1 DEF Done
    <2>3. Head(s) \in Done(s, Len(s))
      <3>1. 1 \in 1 .. Len(s)
        BY <1>1
      <3> QED
        BY <1>1, <3>1 DEF Done
    <2> QED
      BY <2>1, <2>2, <2>3 DEF Done
  <1>4. New(S \cup {Head(s)}, Tail(s), Len(Tail(s)))
    <2> SUFFICES ASSUME NEW i \in 1 .. Len(s) - 1
                 PROVE  /\ Tail(s)[i] \notin S \cup {Head(s)}
                        /\ \A j \in 1 .. i - 1 : Tail(s)[j] # Tail(s)[i]
      BY <1>1 DEF New
    <2>1. i + 1 \in 1 .. Len(s) /\ Tail(s)[i] = s[i + 1]
      BY <1>1
    <2>2. s[i + 1] \notin S /\ \A j \in 1 .. i : s[j] # s[i + 1]
      <3>1. (i + 1) - 1 = i
        OBVIOUS
      <3> QED
        BY <2>1, <3>1 DEF New
    <2>3. Head(s) # s[i + 1]
      BY <1>1, <2>2
    <2>4. ASSUME NEW j \in 1 .. i - 1 PROVE Tail(s)[j] # Tail(s)[i]
      <3>1. j + 1 \in 1 .. i /\ Tail(s)[j] = s[j + 1]
        BY <1>1
      <3> QED
        BY <2>1, <2>2, <3>1
    <2> QED
      BY <2>1, <2>2, <2>3, <2>4
  <1> QED
    BY <1>2, <1>3, <1>4

(* A write to the rest of storage leaves transactions and histories alone. *)
LEMMA IndexesApart ==
    ASSUME NEW d, IsDisk(d), NEW h, NEW key, NEW target
    PROVE  \A e \in {PutBlock(d, h), PutHead(d, h), PutSeen(d, h),
                     PutHeight(d, h), PutVote(d, key, h),
                     PruneBlocksBefore(d, target)} :
              e.txs = d.txs /\ e.history = d.history
  <1>1. PutBlock(d, h).txs = d.txs /\ PutBlock(d, h).history = d.history
    BY DiskRecord DEF PutBlock
  <1>2. PutHead(d, h).txs = d.txs /\ PutHead(d, h).history = d.history
    BY DiskRecord DEF PutHead
  <1>3. PutSeen(d, h).txs = d.txs /\ PutSeen(d, h).history = d.history
    BY DiskRecord DEF PutSeen
  <1>4. PutHeight(d, h).txs = d.txs /\ PutHeight(d, h).history = d.history
    BY DiskRecord DEF PutHeight
  <1>5. PutVote(d, key, h).txs = d.txs /\ PutVote(d, key, h).history = d.history
    BY DiskRecord DEF PutVote
  <1>6. LET e == PruneBlocksBefore(d, target)
        IN  e.txs = d.txs /\ e.history = d.history
    BY DiskRecord DEF PruneBlocksBefore, DropHeights, DropBlocksAt
  <1> QED
    BY <1>1, <1>2, <1>3, <1>4, <1>5, <1>6

(* Of all steps only the last loop of a block writes the indexes.          *)
LEMMA IndexesKept ==
    ASSUME Typed, [Next]_vars, ~PostTx
    PROVE  disk'.txs = disk.txs /\ disk'.history = disk.history
  <1> DEFINE Kept == disk'.txs = disk.txs /\ disk'.history = disk.history
  <1> SUFFICES Kept
    OBVIOUS
  <1>0. IsDisk(disk)
    BY DEF Typed, TypeOK
  <1>1. CASE Boot
    <2> DEFINE d == PutBlock(disk, Genesis)
    <2>1. IsDisk(d) /\ d.txs = disk.txs /\ d.history = disk.history
      BY <1>0, PutBlockType, IndexesApart, ChainAssumption
    <2> HIDE DEF d
    <2>2. PutHead(d, Genesis).txs = d.txs /\ PutHead(d, Genesis).history = d.history
      BY <2>1, IndexesApart
    <2>3. disk' = disk \/ disk' = PutHead(d, Genesis)
      BY <1>1 DEF Boot, d
    <2> QED
      BY <2>1, <2>2, <2>3
  <1>2. ASSUME NEW b, RecordHeader(b) PROVE Kept
    BY <1>0, <1>2, IndexesApart, PersistOutcomes DEF RecordHeader
  <1>3. ASSUME NEW b, IgnoreOrphan(b) \/ SlashEquivocator(b) \/ RejectBlock(b)
                        \/ BeginBlock(b)
        PROVE  Kept
    BY <1>2, <1>3
    DEF IgnoreOrphan, SlashEquivocator, RejectBlock, BeginBlock, vars
  <1>4. CASE ChooseFork
    BY <1>0, <1>4, IndexesApart, PersistOutcomes DEF ChooseFork
  <1>5. CASE StoreBlock
    BY <1>0, <1>5, IndexesApart DEF StoreBlock
  <1>6. CASE FinishCommit
    BY <1>0, <1>6, IndexesApart, PersistOutcomes DEF FinishCommit
  <1>7. ASSUME NEW v \in Votes, AddVote(v[1], v[2]) PROVE Kept
    BY <1>0, <1>7, IndexesApart, PersistOutcomes DEF AddVote
  <1>8. CASE Prune
    BY <1>0, <1>8, IndexesApart DEF Prune
  <1>9. CASE \/ FinishBoot \/ ExecTx \/ RejectRoot \/ StoreBlockFails
             \/ WriteAccountFails \/ EndBlock \/ PanicOnHead \/ Crash
             \/ UNCHANGED vars
    BY <1>9 DEF FinishBoot, ExecTx, RejectRoot, StoreBlockFails,
                WriteAccountFails, EndBlock, PanicOnHead, Crash, vars
  <1>10. ASSUME NEW a, WriteAccount(a) PROVE Kept
    BY <1>10 DEF WriteAccount
  <1> HIDE DEF Kept
  <1> QED
    BY <1>1, <1>3, <1>4, <1>5, <1>6, <1>7, <1>8, <1>9, <1>10 DEF Next, AddBlock

(* A handler that returns is at rest, where the stored nonces count.       *)
LEMMA CountAtRest ==
    ASSUME pc' \in {"idle", "panicked"}, Numbered(Indexed(disk'), Stored(ledger'))
    PROVE  CountInv'
  BY DEF CountInv

(* Steps that move neither the handler nor the accounts keep the count.    *)
LEMMA CountKept ==
    ASSUME CountInv, UNCHANGED <<ledger, pc, block, rest, unwritten>>,
           Indexed(disk') = Indexed(disk)
    PROVE  CountInv'
  BY DEF CountInv

(* Discarding the overlay leaves what is stored, and shows it.             *)
LEMMA DiscardNonces ==
    ASSUME NEW st, IsLedger(st)
    PROVE  /\ Stored(DiscardChanges(st)) = Stored(st)
           /\ Current(DiscardChanges(st)) = Stored(st)
  <1>1. /\ DiscardChanges(st).accounts = st.accounts
        /\ DiscardChanges(st).pending = EmptyMap
    BY DEF DiscardChanges, IsLedger
  <1>2. ASSUME NEW a
        PROVE  GetNonce(DiscardChanges(st), a) = Lookup(st.accounts, a, NewAccount).nonce
    BY <1>1 DEF GetNonce, GetAccount, Lookup, EmptyMap
  <1>3. Stored(DiscardChanges(st)) = Stored(st)
    BY <1>1 DEF Stored
  <1> HIDE DEF DiscardChanges
  <1> QED
    BY <1>2, <1>3 DEF Stored, Current

(* Only the stored accounts matter to the stored nonces.                   *)
LEMMA StoredKept ==
    ASSUME NEW s, NEW t, t.accounts = s.accounts
    PROVE  Stored(t) = Stored(s)
  BY DEF Stored

(* With all of the overlay left to write, what will be stored is what is   *)
(* read through it; with nothing left, it is what is stored.               *)
LEMMA CommittedEnds ==
    ASSUME NEW st
    PROVE  /\ Committed(st, DOMAIN st.pending) = Current(st)
           /\ Committed(st, {}) = Stored(st)
  <1>1. ASSUME NEW a \in Addrs
        PROVE  Committed(st, DOMAIN st.pending)[a] = GetNonce(st, a)
    BY DEF Committed, GetNonce, GetAccount, Lookup
  <1>2. Committed(st, DOMAIN st.pending) = Current(st)
    BY <1>1 DEF Committed, Current
  <1> QED
    BY <1>2 DEF Committed, Stored

(* Writing one of the accounts left does not change what will be stored.   *)
LEMMA CommittedNext ==
    ASSUME NEW st, IsLedger(st), NEW left, NEW a \in left
    PROVE  LET t == [st EXCEPT !.accounts = Put(st.accounts, a, st.pending[a])]
           IN  /\ Committed(t, left \ {a}) = Committed(st, left)
               /\ t.pending = st.pending
               /\ \A c : Lookup(t.accounts, c, NewAccount)
                           = IF c = a THEN st.pending[a]
                             ELSE Lookup(st.accounts, c, NewAccount)
  <1> DEFINE t == [st EXCEPT !.accounts = Put(st.accounts, a, st.pending[a])]
  <1>1. t.pending = st.pending /\ t.accounts = Put(st.accounts, a, st.pending[a])
    BY DEF IsLedger
  <1> HIDE DEF t
  <1>2. ASSUME NEW c
        PROVE  Lookup(t.accounts, c, NewAccount)
                 = IF c = a THEN st.pending[a]
                   ELSE Lookup(st.accounts, c, NewAccount)
    BY <1>1 DEF Lookup, Put
  <1>3. ASSUME NEW c \in Addrs
        PROVE  Committed(t, left \ {a})[c] = Committed(st, left)[c]
    BY <1>1, <1>2 DEF Committed
  <1>4. Committed(t, left \ {a}) = Committed(st, left)
    BY <1>3 DEF Committed
  <1> QED
    BY <1>1, <1>2, <1>4 DEF t

(* Nothing is done of an empty sequence, or of any at its start.           *)
LEMMA DoneNothing ==
    ASSUME NEW txs PROVE Done(txs, 0) = {} /\ \A S : New(S, txs, 0)
  BY DEF Done, New

(* Nothing is left, or all is.                                             *)
LEMMA LeftEnds ==
    ASSUME NEW txs \in Seq(Transaction)
    PROVE  Left(txs, txs) /\ Len(txs) \in Nat /\ Len(txs) - Len(txs) = 0
  BY DEF Left

(* All three index entries of a transaction, when none of them fails.      *)
LEMMA IndexTxWhole ==
    ASSUME IndexedWhole, Shape, Typed, PostTx
    PROVE  LET tx == Head(rest)
           IN  /\ tx \in Transaction
               /\ disk'.txs = Put(disk.txs, tx, block)
               /\ disk'.history =
                    [[disk.history EXCEPT ![tx.sender] = Append(@, tx)]
                        EXCEPT ![tx.receiver] = Append(@, tx)]
  <1> DEFINE tx == Head(rest)
             c == PutTx(disk, tx, block)
             d == AppendHistory(c, tx.sender, tx)
             e == AppendHistory(d, tx.receiver, tx)
  <1>1. /\ rest \in Seq(Transaction) /\ rest # <<>> /\ block \in Hashes
        /\ IsDisk(disk)
    BY DEF Typed, TypeOK, Shape, PostTx
  <1>2. tx \in Transaction /\ tx.sender \in Address /\ tx.receiver \in Address
    <2>1. tx \in Transaction
      BY <1>1
    <2> HIDE DEF tx
    <2> QED
      BY <2>1 DEF Transaction
  <1>3. disk' = IndexTx(disk, tx, block, IndexEntries)
    BY DEF PostTx, IndexWrites, IndexedWhole
  <1>4. disk' = e
    BY <1>3 DEF IndexTx, IndexEntries
  <1>5. IsDisk(c) /\ c.txs = Put(disk.txs, tx, block) /\ c.history = disk.history
    BY <1>1, <1>2, PutTxType, DiskRecord DEF PutTx
  <1> HIDE DEF c
  <1>6. /\ IsDisk(d) /\ d.txs = c.txs
        /\ d.history = [c.history EXCEPT ![tx.sender] = Append(@, tx)]
    BY <1>2, <1>5, AppendHistoryType, DiskRecord DEF AppendHistory
  <1> HIDE DEF d
  <1>7. /\ e.txs = d.txs
        /\ e.history = [d.history EXCEPT ![tx.receiver] = Append(@, tx)]
    BY <1>6, DiskRecord DEF AppendHistory
  <1> QED
    BY <1>2, <1>4, <1>5, <1>6, <1>7

(* Every handler step keeps the count.                                     *)
LEMMA CountNext ==
    ASSUME IndexedWhole, Shape, Typed, CountInv, [Next]_vars
    PROVE  CountInv'
  <1> USE DEF memory, handler
  <1>0. /\ IsLedger(ledger) /\ rest \in Seq(Transaction)
        /\ pc \in {"down", "boot", "idle", "execute", "store", "commit", "index",
                   "panicked"}
    BY DEF Typed, TypeOK
  <1>a. ~PostTx => Indexed(disk') = Indexed(disk)
    BY IndexesKept DEF Indexed
  <1>b. CASE Boot
    <2>1. Indexed(disk') = Indexed(disk) /\ pc = "down" /\ pc' = "boot"
      BY <1>a, <1>b DEF Boot, PostTx
    <2>2. /\ ledger'.accounts = ledger.accounts
          /\ ledger'.pending = Funding(ledger.accounts)
          /\ unwritten' = Unfunded(ledger.accounts)
      BY <1>b DEF Boot, OpenLedger
    <2>3. ASSUME NEW a \in unwritten'
          PROVE  ledger'.pending[a].nonce
                   = Lookup(ledger'.accounts, a, NewAccount).nonce
      <3>1. IsAccount(Lookup(ledger.accounts, a, NewAccount))
        BY <1>0, NewAccountType DEF IsLedger, IsAccounts, Lookup
      <3>2. ledger'.pending[a]
              = [Lookup(ledger.accounts, a, NewAccount) EXCEPT !.balance = GenesisFund]
        BY <2>2, <2>3 DEF Funding
      <3> QED
        BY <2>2, <3>1, <3>2 DEF IsAccount
    <2>4. Stored(ledger') = Stored(ledger)
      BY <2>2, StoredKept
    <2> QED
      BY <2>1, <2>3, <2>4 DEF CountInv
  <1>c. CASE FinishBoot
    <2>1. /\ pc = "boot" /\ pc' = "idle" /\ Indexed(disk') = Indexed(disk)
          /\ ledger' = DiscardChanges(ledger)
      BY <1>c DEF FinishBoot, Return
    <2>2. Numbered(Indexed(disk), Stored(ledger))
      BY <2>1 DEF CountInv
    <2> QED
      BY <1>0, <2>1, <2>2, DiscardNonces, CountAtRest
  <1>d. ASSUME NEW b \in Hashes, IgnoreOrphan(b) \/ SlashEquivocator(b) \/ RejectBlock(b)
        PROVE  CountInv'
    <2>1. UNCHANGED <<ledger, pc, block, rest, unwritten>> /\ pc = "idle"
      BY <1>d DEF IgnoreOrphan, SlashEquivocator, RejectBlock, vars
    <2> QED
      BY <1>a, <2>1, CountKept DEF PostTx
  <1>e. ASSUME NEW b \in Hashes, BeginBlock(b) PROVE CountInv'
    <2> DEFINE txs == Header[b].txs
    <2>1. /\ pc = "idle" /\ pc' = "execute" /\ block' = b /\ rest' = txs
          /\ ledger' = DiscardChanges(ledger)
      BY <1>e DEF BeginBlock
    <2>2. Indexed(disk') = Indexed(disk)
      BY <1>a, <2>1 DEF PostTx
    <2>3. Numbered(Indexed(disk), Stored(ledger))
      BY <2>1 DEF CountInv
    <2>4. Stored(ledger') = Stored(ledger) /\ Current(ledger') = Stored(ledger)
      BY <1>0, <2>1, DiscardNonces
    <2>5. Left(txs, txs) /\ Len(txs) - Len(txs) = 0
      BY HeaderType, LeftEnds
    <2>6. /\ Done(txs, 0) = {} /\ New(Indexed(disk), txs, 0)
          /\ Indexed(disk) \cup {} = Indexed(disk)
      BY DoneNothing
    <2> QED
      BY <2>1, <2>2, <2>3, <2>4, <2>5, <2>6 DEF CountInv
  <1>f. CASE ExecTx
    <2> DEFINE txs == Header[block].txs
               n == Len(txs) - Len(rest)
               tx == Head(rest)
               outcome == ProcessTransaction(ledger, tx)
    <2>1. /\ pc = "execute" /\ rest # <<>> /\ block \in Hashes
          /\ Indexed(disk') = Indexed(disk)
      BY <1>f DEF ExecTx, Shape
    <2>2. /\ Numbered(Indexed(disk), Stored(ledger))
          /\ Left(txs, rest) /\ New(Indexed(disk), txs, n)
          /\ Numbered(Indexed(disk) \cup Done(txs, n), Current(ledger))
      BY <2>1 DEF CountInv
    <2>3. tx \in Transaction /\ txs \in Seq(Transaction)
      BY <1>0, <2>1, HeaderType
    <2>4. IsLedger(outcome.st) /\ outcome.st.accounts = ledger.accounts
      BY <1>0, <2>3, ProcessTransactionType, ProcessTransactionTouches
      DEF IsOutcome, Touches
    <2>5. Stored(outcome.st) = Stored(ledger)
      BY <2>4, StoredKept
    <2>6. CASE outcome.ok
      <3>1. /\ ledger' = outcome.st /\ rest' = Tail(rest)
            /\ pc' = "execute" /\ block' = block
        BY <1>f, <2>1, <2>6 DEF ExecTx
      <3>2. /\ n \in Nat /\ n + 1 <= Len(txs) /\ tx = txs[n + 1]
            /\ Left(txs, Tail(rest)) /\ Len(txs) - Len(Tail(rest)) = n + 1
            /\ Done(txs, n + 1) = Done(txs, n) \cup {tx}
        BY <1>0, <2>1, <2>2, <2>3, LeftTail
      <3>3. /\ tx \notin Indexed(disk) \cup Done(txs, n)
            /\ Numbered((Indexed(disk) \cup Done(txs, n)) \cup {tx}, Current(outcome.st))
        BY <1>0, <2>2, <2>3, <2>6, NumberedNext
      <3>4. (Indexed(disk) \cup Done(txs, n)) \cup {tx}
               = Indexed(disk) \cup Done(txs, n + 1)
        BY <3>2
      <3>5. Numbered(Indexed(disk) \cup Done(txs, n + 1), Current(outcome.st))
        BY ONLY <3>3, <3>4, Zenon
      <3>6. New(Indexed(disk), txs, n + 1)
        <4> SUFFICES ASSUME NEW i \in 1 .. n + 1
                     PROVE  /\ txs[i] \notin Indexed(disk)
                            /\ \A j \in 1 .. i - 1 : txs[j] # txs[i]
          BY DEF New
        <4>1. CASE i \in 1 .. n
          BY <2>2, <4>1 DEF New
        <4>2. CASE i = n + 1
          BY <3>2, <3>3, <4>2 DEF Done
        <4> QED
          BY <3>2, <4>1, <4>2
      <3>7. Numbered(Indexed(disk), Stored(outcome.st))
        BY <2>2, <2>5
      <3> HIDE DEF outcome
      <3> QED
        BY <2>1, <3>1, <3>2, <3>5, <3>6, <3>7 DEF CountInv
    <2>7. CASE ~outcome.ok
      <3>1. ledger' = DiscardChanges(outcome.st) /\ pc' = "idle"
        BY <1>f, <2>7 DEF ExecTx, Return
      <3>2. Stored(ledger') = Stored(ledger)
        BY <2>4, <2>5, <3>1, DiscardNonces
      <3> QED
        BY <2>1, <2>2, <3>1, <3>2, CountAtRest
    <2> QED
      BY <2>6, <2>7
  <1>g. CASE RejectRoot \/ StoreBlockFails
    <2>1. /\ pc \in {"execute", "store"} /\ pc' = "idle"
          /\ Indexed(disk') = Indexed(disk) /\ ledger' = DiscardChanges(ledger)
      BY <1>g DEF RejectRoot, StoreBlockFails, Return
    <2>2. Numbered(Indexed(disk), Stored(ledger))
      BY <2>1 DEF CountInv
    <2> QED
      BY <1>0, <2>1, <2>2, DiscardNonces, CountAtRest
  <1>h. CASE ChooseFork
    <2> DEFINE txs == Header[block].txs
    <2>1. /\ pc = "execute" /\ rest = <<>> /\ block \in Hashes /\ pc' = "store"
          /\ UNCHANGED <<ledger, block, rest, unwritten>>
      BY <1>h DEF ChooseFork, Shape
    <2>2. Indexed(disk') = Indexed(disk)
      BY <1>a, <2>1 DEF PostTx
    <2>3. Len(txs) - Len(rest) = Len(txs)
      BY <2>1, HeaderType, LeftEnds
    <2>4. /\ Numbered(Indexed(disk), Stored(ledger))
          /\ New(Indexed(disk), txs, Len(txs))
          /\ Numbered(Indexed(disk) \cup Done(txs, Len(txs)), Current(ledger))
      BY <2>1, <2>3 DEF CountInv
    <2> QED
      BY <2>1, <2>2, <2>4 DEF CountInv
  <1>i. CASE StoreBlock
    <2>1. /\ pc = "store" /\ pc' = "commit" /\ unwritten' = DOMAIN ledger.pending
          /\ UNCHANGED <<ledger, block, rest>>
      BY <1>i DEF StoreBlock
    <2>2. Indexed(disk') = Indexed(disk)
      BY <1>a, <2>1 DEF PostTx
    <2>3. Committed(ledger, DOMAIN ledger.pending) = Current(ledger)
      BY CommittedEnds
    <2> QED
      BY <2>1, <2>2, <2>3 DEF CountInv
  <1>j. ASSUME NEW a \in Address, WriteAccount(a) PROVE CountInv'
    <2>1. /\ pc \in {"boot", "commit"} /\ a \in unwritten
          /\ ledger' = [ledger EXCEPT !.accounts = Put(ledger.accounts, a, ledger.pending[a])]
          /\ unwritten' = unwritten \ {a}
          /\ UNCHANGED <<pc, block, rest>> /\ Indexed(disk') = Indexed(disk)
      BY <1>j DEF WriteAccount
    <2>2. /\ Committed(ledger', unwritten') = Committed(ledger, unwritten)
          /\ ledger'.pending = ledger.pending
          /\ \A c : Lookup(ledger'.accounts, c, NewAccount)
                      = IF c = a THEN ledger.pending[a]
                        ELSE Lookup(ledger.accounts, c, NewAccount)
      BY <1>0, <2>1, CommittedNext
    <2>3. CASE pc = "commit"
      BY <2>1, <2>2, <2>3 DEF CountInv
    <2>4. CASE pc = "boot"
      <3>1. \A c : Lookup(ledger'.accounts, c, NewAccount).nonce
                     = Lookup(ledger.accounts, c, NewAccount).nonce
        BY <2>1, <2>2, <2>4 DEF CountInv
      <3>2. Stored(ledger') = Stored(ledger)
        BY <3>1 DEF Stored
      <3>3. \A c \in unwritten' : ledger'.pending[c].nonce
                     = Lookup(ledger'.accounts, c, NewAccount).nonce
        BY <2>1, <2>2, <2>4, <3>1 DEF CountInv
      <3> QED
        BY <2>1, <2>4, <3>2, <3>3 DEF CountInv
    <2> QED
      BY <2>1, <2>3, <2>4
  <1>k. CASE WriteAccountFails
    BY <1>k DEF WriteAccountFails, IndexedWhole
  <1>l. CASE FinishCommit
    <2> DEFINE txs == Header[block].txs
    <2>1. /\ pc = "commit" /\ pc' = "index" /\ unwritten = {} /\ rest' = txs
          /\ ledger' = DiscardChanges(ledger)
      BY <1>l DEF FinishCommit
    <2>2. Indexed(disk') = Indexed(disk)
      BY <1>a, <2>1 DEF PostTx
    <2>3. /\ Numbered(Indexed(disk) \cup Done(txs, Len(txs)), Committed(ledger, {}))
          /\ New(Indexed(disk), txs, Len(txs))
      BY <2>1 DEF CountInv
    <2>4. Committed(ledger, {}) = Stored(ledger) /\ Stored(ledger') = Stored(ledger)
      BY <1>0, <2>1, CommittedEnds, DiscardNonces
    <2> QED
      BY <2>1, <2>2, <2>3, <2>4 DEF CountInv
  <1>m. CASE PostTx
    <2> DEFINE tx == Head(rest)
    <2>1. /\ pc = "index" /\ pc' = "index" /\ rest # <<>> /\ rest' = Tail(rest)
          /\ \E written \in IndexWrites : disk' = IndexTx(disk, tx, block, written)
      BY <1>m DEF PostTx
    <2>2. /\ Numbered(Indexed(disk) \cup Done(rest, Len(rest)), Stored(ledger))
          /\ New(Indexed(disk), rest, Len(rest))
      BY <2>1 DEF CountInv
    <2>3. Indexed(disk') = Indexed(disk) \cup {tx}
      BY <1>m, IndexTxWhole DEF Indexed, Put
    <2>4. /\ Done(rest, Len(rest)) = {tx} \cup Done(Tail(rest), Len(Tail(rest)))
          /\ New(Indexed(disk) \cup {tx}, Tail(rest), Len(Tail(rest)))
      BY <1>0, <2>1, <2>2, DoneTail
    <2>5. Indexed(disk') \cup Done(rest', Len(rest'))
            = Indexed(disk) \cup Done(rest, Len(rest))
      BY <2>1, <2>3, <2>4
    <2>6. ledger'.accounts = ledger.accounts
      BY <1>0, <1>m DEF PostTx, Credit, SetBalance, Stage, IsLedger
    <2>7. Stored(ledger') = Stored(ledger)
      BY <2>6, StoredKept
    <2>8. Numbered(Indexed(disk') \cup Done(rest', Len(rest')), Stored(ledger'))
      BY ONLY <2>2, <2>5, <2>7, Zenon
    <2>9. New(Indexed(disk'), rest', Len(rest'))
      BY <2>1, <2>3, <2>4
    <2> QED
      BY <2>1, <2>8, <2>9 DEF CountInv
  <1>n. CASE EndBlock
    <2>1. /\ pc = "index" /\ pc' = "idle" /\ rest = <<>>
          /\ ledger' = ledger /\ Indexed(disk') = Indexed(disk)
      BY <1>n DEF EndBlock, Return
    <2>2. Numbered(Indexed(disk) \cup Done(rest, Len(rest)), Stored(ledger))
      BY <2>1 DEF CountInv
    <2>3. Indexed(disk) \cup Done(rest, Len(rest)) = Indexed(disk)
      BY <2>1, DoneNothing
    <2>4. Numbered(Indexed(disk'), Stored(ledger'))
      BY ONLY <2>1, <2>2, <2>3
    <2> QED
      BY <2>1, <2>4, CountAtRest
  <1>o. CASE PanicOnHead
    <2>1. /\ pc \in {"idle", "execute"} /\ pc' = "panicked"
          /\ ledger' = ledger /\ disk' = disk
      BY <1>o DEF PanicOnHead
    <2>2. Numbered(Indexed(disk), Stored(ledger))
      BY <2>1 DEF CountInv
    <2> QED
      BY <2>1, <2>2, CountAtRest
  <1>p. ASSUME NEW v \in Votes, AddVote(v[1], v[2]) PROVE CountInv'
    <2>1. UNCHANGED <<ledger, pc, block, rest, unwritten>> /\ pc = "idle"
      BY <1>p DEF AddVote
    <2> QED
      BY <1>a, <2>1, CountKept DEF PostTx
  <1>q. CASE Prune
    <2>1. UNCHANGED <<ledger, pc, block, rest, unwritten>> /\ pc = "idle"
      BY <1>q DEF Prune
    <2> QED
      BY <1>a, <2>1, CountKept DEF PostTx
  <1>r. CASE Crash
    BY <1>r DEF Crash, IndexedWhole, Typed, TypeOK
  <1>s. CASE UNCHANGED vars
    BY <1>s, CountKept DEF vars
  <1> QED
    BY <1>b, <1>c, <1>d, <1>e, <1>f, <1>g, <1>h, <1>i, <1>j, <1>k, <1>l, <1>m,
       <1>n, <1>o, <1>p, <1>q, <1>r, <1>s DEF Next, AddBlock

(* The count starts at nothing: no account has sent, nothing is indexed.   *)
LEMMA CountInit == Init => CountInv
  <1> SUFFICES ASSUME Init PROVE CountInv
    OBVIOUS
  <1>1. pc = "down" /\ Indexed(disk) = {}
    BY DEF Init, EmptyDisk, EmptyMap, Indexed
  <1>2. ASSUME NEW a \in Addrs PROVE Stored(ledger)[a] = 0
    BY DEF Init, OpenLedger, EmptyMap, Stored, Lookup, NewAccount
  <1>3. ASSUME NEW a \in Addrs
        PROVE  Stored(ledger)[a] \in Nat
               /\ Contiguous(SentBy({}, a), 0, Stored(ledger)[a])
    BY <1>2 DEF SentBy, Contiguous
  <1>4. Numbered(Indexed(disk), Stored(ledger))
    BY <1>1, <1>3 DEF Numbered
  <1> QED
    BY <1>1, <1>4 DEF CountInv

(* The count holds in every reachable state.                               *)
LEMMA CountInvariant ==
    ASSUME IndexedWhole
    PROVE  Spec => []CountInv
  <1>1. Shape /\ Typed /\ CountInv /\ [Next]_vars => CountInv'
    BY CountNext
  <1> QED
    BY <1>1, CountInit, ShapeInvariant, TypedInvariant, PTL DEF Spec

(* Between blocks an account's stored nonce counts the transactions it has *)
(* in accepted blocks: none is applied twice, by a block delivered again   *)
(* or on a second fork, and none is skipped, whatever blocks exist and in  *)
(* whatever order they come.  A process that dies between the accounts and *)
(* the index entries of a block, or storage that refuses one of them,      *)
(* breaks this in the code: IndexedWhole excludes both.                    *)
THEOREM NonceCountsIndexedTxsCorrect ==
    ASSUME IndexedWhole
    PROVE  Spec => []NonceCountsIndexedTxs
  <1>1. Spec => []CountInv
    BY CountInvariant
  <1> QED
    BY <1>1, CountMeans, PTL

-----------------------------------------------------------------------------
(* The histories of the addresses. *)

Listed(S, a) == {tx \in S : tx.receiver = a}

(* What the theorem says of one address, for a set of transactions: its    *)
(* history is as long as the two sets together and names no other.         *)
Lists(S, history, a) ==
    /\ Len(history[a]) = Cardinality(SentBy(S, a)) + Cardinality(Listed(S, a))
    /\ \A i \in DOMAIN history[a] :
          history[a][i] \in SentBy(S, a) \cup Listed(S, a)

HistInv ==
    /\ IsFiniteSet(Indexed(disk))
    /\ \A a \in Address : Lists(Indexed(disk), disk.history, a)

(* One more transaction makes the set of an address one larger, if the     *)
(* address takes part in it.                                               *)
LEMMA PartGrows ==
    ASSUME NEW S, IsFiniteSet(S), NEW tx, tx \notin S, NEW a
    PROVE  /\ Cardinality(SentBy(S \cup {tx}, a))
                = Cardinality(SentBy(S, a)) + (IF tx.sender = a THEN 1 ELSE 0)
           /\ Cardinality(Listed(S \cup {tx}, a))
                = Cardinality(Listed(S, a)) + (IF tx.receiver = a THEN 1 ELSE 0)
           /\ Cardinality(SentBy(S, a)) \in Nat
           /\ Cardinality(Listed(S, a)) \in Nat
  <1>1. /\ IsFiniteSet(SentBy(S, a)) /\ IsFiniteSet(Listed(S, a))
        /\ tx \notin SentBy(S, a) /\ tx \notin Listed(S, a)
    <2>1. SentBy(S, a) \subseteq S /\ Listed(S, a) \subseteq S
      BY DEF SentBy, Listed
    <2> QED
      BY <2>1, FS_Subset
  <1>2. /\ Cardinality(SentBy(S, a)) \in Nat /\ Cardinality(Listed(S, a)) \in Nat
        /\ Cardinality(SentBy(S, a) \cup {tx}) = Cardinality(SentBy(S, a)) + 1
        /\ Cardinality(Listed(S, a) \cup {tx}) = Cardinality(Listed(S, a)) + 1
    BY <1>1, FS_CardinalityType, FS_AddElement
  <1>3. SentBy(S \cup {tx}, a)
           = IF tx.sender = a THEN SentBy(S, a) \cup {tx} ELSE SentBy(S, a)
    BY DEF SentBy
  <1>4. Listed(S \cup {tx}, a)
           = IF tx.receiver = a THEN Listed(S, a) \cup {tx} ELSE Listed(S, a)
    BY DEF Listed
  <1>5. Cardinality(SentBy(S \cup {tx}, a))
           = Cardinality(SentBy(S, a)) + (IF tx.sender = a THEN 1 ELSE 0)
    BY <1>2, <1>3
  <1>6. Cardinality(Listed(S \cup {tx}, a))
           = Cardinality(Listed(S, a)) + (IF tx.receiver = a THEN 1 ELSE 0)
    BY <1>2, <1>4
  <1> QED
    BY <1>2, <1>5, <1>6

(* One more entry, that is among M, in a sequence of members of M.         *)
LEMMA AppendNames ==
    ASSUME NEW h \in Seq(Transaction), NEW tx \in Transaction, NEW M,
           tx \in M, \A i \in DOMAIN h : h[i] \in M
    PROVE  /\ Append(h, tx) \in Seq(Transaction)
           /\ Len(Append(h, tx)) = Len(h) + 1
           /\ \A i \in DOMAIN Append(h, tx) : Append(h, tx)[i] \in M
  OBVIOUS

(* The histories with one more transaction.                                *)
LEMMA HistoryGrows ==
    ASSUME NEW S, IsFiniteSet(S), NEW tx \in Transaction, tx \notin S,
           NEW history \in [Address -> Seq(Transaction)], NEW a \in Address,
           Lists(S, history, a)
    PROVE  Lists(S \cup {tx},
                 [[history EXCEPT ![tx.sender] = Append(@, tx)]
                     EXCEPT ![tx.receiver] = Append(@, tx)], a)
  <1> DEFINE one == [history EXCEPT ![tx.sender] = Append(@, tx)]
             two == [one EXCEPT ![tx.receiver] = Append(@, tx)]
             T == S \cup {tx}
             sent == Cardinality(SentBy(S, a))
             got == Cardinality(Listed(S, a))
             s == IF tx.sender = a THEN 1 ELSE 0
             r == IF tx.receiver = a THEN 1 ELSE 0
  <1>1. tx.sender \in Address /\ tx.receiver \in Address
    BY DEF Transaction
  <1>2. /\ Cardinality(SentBy(T, a)) = sent + s
        /\ Cardinality(Listed(T, a)) = got + r
        /\ sent \in Nat /\ got \in Nat
    BY PartGrows
  <1>3. /\ SentBy(S, a) \subseteq SentBy(T, a) /\ Listed(S, a) \subseteq Listed(T, a)
        /\ tx.sender = a => tx \in SentBy(T, a)
        /\ tx.receiver = a => tx \in Listed(T, a)
    BY DEF SentBy, Listed
  <1>4. /\ history[a] \in Seq(Transaction) /\ Len(history[a]) = sent + got
        /\ \A i \in DOMAIN history[a] :
              history[a][i] \in SentBy(S, a) \cup Listed(S, a)
    BY DEF Lists
  <1>5. one[a] = IF tx.sender = a THEN Append(history[a], tx) ELSE history[a]
    BY <1>1
  <1> DEFINE M == SentBy(T, a) \cup Listed(T, a)
  <1>m. /\ \A i \in DOMAIN history[a] : history[a][i] \in M
        /\ tx.sender = a => tx \in M
        /\ tx.receiver = a => tx \in M
    BY <1>3, <1>4
  <1>n. sent \in Nat /\ got \in Nat /\ s \in Nat /\ r \in Nat
    BY <1>2
  <1> HIDE DEF M, sent, got
  <1>6. /\ one[a] \in Seq(Transaction) /\ Len(one[a]) = sent + got + s
        /\ \A i \in DOMAIN one[a] : one[a][i] \in M
    <2>1. CASE tx.sender = a
      <3>1. one[a] = Append(history[a], tx)
        BY <1>5, <2>1
      <3> HIDE DEF one
      <3> QED
        BY <1>4, <1>m, <1>n, <2>1, <3>1, AppendNames
    <2>2. CASE tx.sender # a
      <3>1. one[a] = history[a]
        BY <1>5, <2>2
      <3> HIDE DEF one
      <3> QED
        BY <1>4, <1>m, <1>n, <2>2, <3>1
    <2> QED
      BY <2>1, <2>2
  <1>7. two[a] = IF tx.receiver = a THEN Append(one[a], tx) ELSE one[a]
    BY <1>1
  <1> HIDE DEF one, two
  <1>8. /\ Len(two[a]) = sent + got + s + r
        /\ \A i \in DOMAIN two[a] : two[a][i] \in M
    BY <1>m, <1>n, <1>6, <1>7, AppendNames
  <1>9. Lists(T, two, a)
    <2>1. Len(two[a]) = Cardinality(SentBy(T, a)) + Cardinality(Listed(T, a))
      <3> HIDE DEF s, r, T
      <3> QED
        BY <1>2, <1>n, <1>8
    <2> QED
      BY <1>8, <2>1 DEF Lists, M
  <1> QED
    BY <1>9 DEF one, two

(* The history of an address lists the indexed transactions it takes part  *)
(* in, once for each part: the three index entries of a transaction agree  *)
(* however blocks and forks follow each other, under the same hypothesis   *)
(* and because no transaction is indexed twice (CountInv).                 *)
THEOREM HistoryMatchesIndexCorrect ==
    ASSUME IndexedWhole
    PROVE  Spec => []HistoryMatchesIndex
  <1>1. Init => HistInv
    <2> SUFFICES ASSUME Init PROVE HistInv
      OBVIOUS
    <2>1. Indexed(disk) = {} /\ \A a \in Address : disk.history[a] = <<>>
      BY DEF Init, EmptyDisk, EmptyMap, Indexed
    <2>2. \A a : SentBy({}, a) = {} /\ Listed({}, a) = {}
      BY DEF SentBy, Listed
    <2>3. IsFiniteSet({}) /\ Cardinality({}) = 0
      BY FS_EmptySet
    <2>4. ASSUME NEW a \in Address PROVE Lists({}, disk.history, a)
      <3>1. Len(<<>>) = 0 /\ DOMAIN <<>> = {} /\ 0 + 0 = 0
        OBVIOUS
      <3> QED
        BY <2>1, <2>2, <2>3, <3>1 DEF Lists
    <2> QED
      BY <2>1, <2>3, <2>4 DEF HistInv
  <1>2. Shape /\ Typed /\ CountInv /\ HistInv /\ [Next]_vars => HistInv'
    <2> SUFFICES ASSUME Shape, Typed, CountInv, HistInv, [Next]_vars
                 PROVE  HistInv'
      OBVIOUS
    <2>1. CASE PostTx
      <3> DEFINE tx == Head(rest)
                 S == Indexed(disk)
      <3>1. /\ tx \in Transaction
            /\ disk'.txs = Put(disk.txs, tx, block)
            /\ disk'.history =
                 [[disk.history EXCEPT ![tx.sender] = Append(@, tx)]
                     EXCEPT ![tx.receiver] = Append(@, tx)]
        BY <2>1, IndexTxWhole
      <3>2. tx \notin S
        <4>1. rest \in Seq(Transaction) /\ rest # <<>> /\ New(S, rest, Len(rest))
          BY <2>1 DEF PostTx, CountInv, Typed, TypeOK
        <4> QED
          BY <4>1, DoneTail
      <3>3. Indexed(disk') = S \cup {tx}
        BY <3>1 DEF Indexed, Put
      <3>4. /\ IsFiniteSet(S) /\ \A a \in Address : Lists(S, disk.history, a)
            /\ disk.history \in [Address -> Seq(Transaction)]
        BY DEF HistInv, Typed, TypeOK, IsDisk
      <3>5. IsFiniteSet(S \cup {tx})
        BY <3>4, FS_AddElement
      <3> HIDE DEF tx, S
      <3>6. ASSUME NEW a \in Address PROVE Lists(S \cup {tx}, disk'.history, a)
        <4>1. Lists(S \cup {tx},
                    [[disk.history EXCEPT ![tx.sender] = Append(@, tx)]
                        EXCEPT ![tx.receiver] = Append(@, tx)], a)
          BY <3>1, <3>2, <3>4, HistoryGrows
        <4> QED
          BY ONLY <3>1, <4>1, Zenon
      <3> QED
        BY <3>3, <3>5, <3>6 DEF HistInv
    <2>2. CASE ~PostTx
      <3>1. Indexed(disk') = Indexed(disk) /\ disk'.history = disk.history
        BY <2>2, IndexesKept DEF Indexed
      <3> QED
        BY <3>1 DEF HistInv
    <2> QED
      BY <2>1, <2>2
  <1>3. HistInv => HistoryMatchesIndex
    <2> SUFFICES ASSUME HistInv, NEW a \in Address
                 PROVE  /\ Len(disk.history[a]) =
                             Cardinality(IndexedBy(a)) + Cardinality(IndexedFor(a))
                        /\ \A i \in DOMAIN disk.history[a] :
                             disk.history[a][i] \in IndexedBy(a) \cup IndexedFor(a)
      BY DEF HistoryMatchesIndex
    <2>1. IndexedBy(a) = SentBy(Indexed(disk), a)
          /\ IndexedFor(a) = Listed(Indexed(disk), a)
      BY DEF IndexedBy, IndexedFor, SentBy, Listed, Indexed
    <2> QED
      BY <2>1 DEF HistInv, Lists
  <1>4. Spec => []CountInv
    BY CountInvariant
  <1> QED
    BY <1>1, <1>2, <1>3, <1>4, ShapeInvariant, TypedInvariant, PTL DEF Spec
=============================================================================
