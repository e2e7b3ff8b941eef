----------------------------- MODULE SyncProofs -----------------------------
(***************************************************************************)
(* For every tree of blocks, every set of peers and every batch size: the  *)
(* types of Sync, and that the node keeps the promise of Replica.          *)
(***************************************************************************)
EXTENDS Sync, FiniteSetTheorems, TLAPS

(* What is on its way has the type that the handlers rely on.              *)
NetOK ==
    \A m \in net :
        /\ m.peer \in Peers
        /\ m.kind = "info" => m.height \in Nat
        /\ m.kind = "blocks" => m.blocks \in Seq(Blocks)

GrownOK == \A p \in Peers : grown[p] <= Len(Line[p])

ModeOK ==
    /\ mode \in [state : {"idle", "syncing", "synced"},
                 peer : Peers \cup {None}, target : Nat]
    /\ IsSyncing => mode.peer \in Peers

Types ==
    /\ held \subseteq Blocks /\ head \in held
    /\ ModeOK
    /\ heights \in [Peers -> Nat \cup {None}]
    /\ work \in Batches \cup {None}
    /\ links \subseteq Peers
    /\ grown \in [Peers -> Nat]
    /\ NetOK /\ GrownOK

(* No block that the node has is preferred to its head.                    *)
HeadBest == \A c \in held : ~Better(c, head)

(* The slots and VRF outputs that fork choice compares are numbers.        *)
LEMMA BetterOrder ==
    ASSUME NEW a \in Blocks, NEW b \in Blocks, NEW c \in Blocks
    PROVE  /\ ~Better(a, a)
           /\ Better(b, a) /\ ~Better(c, a) => ~Better(c, b)
           /\ Better(b, a) => ~Better(a, b)
  BY SMT, SyncAssumption DEF SyncAssumption, Better

(* The blocks of a peer's line are blocks.                                 *)
LEMMA PeerChainType ==
    ASSUME grown \in [Peers -> Nat], GrownOK, NEW p \in Peers
    PROVE  PeerChain(p) \subseteq Blocks
  <1>1. SUFFICES ASSUME NEW i \in 1..grown[p]
                 PROVE  Line[p][i] \in Blocks
    BY DEF PeerChain
  <1>2. Line[p] \in Seq(Blocks \ {Genesis}) /\ i \in 1..Len(Line[p])
    BY SyncAssumption DEF SyncAssumption, GrownOK
  <1> QED BY <1>2

(* The height a peer tells is a slot.                                      *)
LEMMA PeerHeadType ==
    ASSUME grown \in [Peers -> Nat], GrownOK, NEW p \in Peers
    PROVE  SlotOf[PeerHead(p)] \in Nat
  <1>1. CASE grown[p] = 0
    BY <1>1, SyncAssumption DEF SyncAssumption, PeerHead
  <1>2. CASE grown[p] # 0
    <2>1. Line[p][grown[p]] \in PeerChain(p)
      BY <1>2 DEF PeerChain
    <2> QED BY <1>2, <2>1, PeerChainType, SyncAssumption
            DEF SyncAssumption, PeerHead
  <1> QED BY <1>1, <1>2

(* Each slot of a run has a block.                                         *)
LEMMA RunHasBlocks ==
    ASSUME NEW p, NEW s \in Nat
    PROVE  /\ RunLength(p, s) \in Nat
           /\ \A k \in 1..RunLength(p, s) : AtHeight(p, s + k - 1) # {}
  <1> DEFINE Run == {k \in 1..Limit : \A j \in 1..k : AtHeight(p, s + j - 1) # {}}
  <1>1. Limit \in Nat
    BY SyncAssumption DEF SyncAssumption
  <1>2. IsFiniteSet(1..Limit)
    BY <1>1, FS_Interval
  <1>3. IsFiniteSet(Run)
    BY <1>2, FS_Subset
  <1>4. RunLength(p, s) = Cardinality(Run)
    BY DEF RunLength
  <1>5. RunLength(p, s) \in Nat
    BY <1>3, <1>4, FS_CardinalityType
  <1>6. ASSUME NEW k \in 1..RunLength(p, s)
        PROVE  AtHeight(p, s + k - 1) # {}
    <2>1. SUFFICES ASSUME AtHeight(p, s + k - 1) = {} PROVE FALSE
      OBVIOUS
    <2>2. k \in Nat /\ k >= 1 /\ k - 1 \in Nat
      BY <1>5
    <2>3. ASSUME NEW n \in Run PROVE n \in 1..(k - 1)
      <3>1. n \in 1..Limit /\ \A j \in 1..n : AtHeight(p, s + j - 1) # {}
        OBVIOUS
      <3>2. n \in Nat /\ n >= 1
        BY <1>1, <3>1
      <3>3. CASE n >= k
        <4>1. k \in 1..n
          BY <2>2, <3>2, <3>3
        <4> QED BY <2>1, <3>1, <4>1
      <3> QED BY <2>2, <3>2, <3>3
    <2>4. Run \subseteq 1..(k - 1)
      BY <2>3
    <2>5. IsFiniteSet(1..(k - 1)) /\ Cardinality(1..(k - 1)) = k - 1
      <3> HIDE DEF Run
      <3>1. 1 \in Int /\ k - 1 \in Int
        BY <2>2
      <3>2. Cardinality(1..(k - 1)) = IF 1 > k - 1 THEN 0 ELSE (k - 1) - 1 + 1
        BY <3>1, FS_Interval, Zenon
      <3> QED BY <2>2, <3>1, <3>2, FS_Interval
    <2>6. Cardinality(Run) <= k - 1
      BY <2>4, <2>5, FS_Subset
    <2> QED BY <1>4, <1>5, <2>2, <2>6
  <1> QED BY <1>5, <1>6

(* What a peer sends are blocks.                                           *)
LEMMA BlocksRangeType ==
    ASSUME grown \in [Peers -> Nat], GrownOK, NEW p \in Peers,
           NEW start \in Blocks
    PROVE  BlocksRange(p, start) \in Seq(Blocks)
  <1>1. CASE start \notin PeerChain(p)
    BY <1>1 DEF BlocksRange
  <1>2. CASE start \in PeerChain(p)
    <2> DEFINE from == SlotOf[start]
               f == [k \in 1..RunLength(p, from) |->
                       CHOOSE b \in PeerChain(p) : b \in AtHeight(p, from + k - 1)]
    <2>1. from \in Nat
      BY SyncAssumption DEF SyncAssumption
    <2>2. RunLength(p, from) \in Nat
      BY <2>1, RunHasBlocks
    <2>3. ASSUME NEW k \in 1..RunLength(p, from)
          PROVE  f[k] \in Blocks
      <3>1. AtHeight(p, from + k - 1) # {}
        BY <2>1, RunHasBlocks
      <3>2. \E b \in PeerChain(p) : b \in AtHeight(p, from + k - 1)
        BY <3>1 DEF AtHeight
      <3>3. f[k] \in PeerChain(p)
        BY <3>2
      <3> QED BY <3>3, PeerChainType
    <2>4. f \in [1..RunLength(p, from) -> Blocks]
      BY <2>3
    <2>5. f \in Seq(Blocks)
      <3> HIDE DEF f
      <3> QED BY <2>2, <2>4
    <2>6. BlocksRange(p, start) = f
      BY <1>2 DEF BlocksRange
    <2> QED BY <2>5, <2>6
  <1> QED BY <1>1, <1>2

----------------------------------------------------------------------------
(* The initial states                                                      *)

(* The invariant holds at the start.                                       *)
LEMMA InitTypes == Init => Types /\ HeadBest
  <1> SUFFICES ASSUME Init PROVE Types /\ HeadBest
    OBVIOUS
  <1> USE DEF Init
  <1>1. held \subseteq Blocks /\ head \in held /\ HeadBest
    BY SyncAssumption DEF SyncAssumption, HeadBest
  <1>2. ModeOK
    BY DEF ModeOK, Idle, IsSyncing
  <1>3. grown \in [Peers -> Nat] /\ GrownOK
    <2>1. ASSUME NEW p \in Peers PROVE Len(Line[p]) \in Nat
      BY SyncAssumption DEF SyncAssumption
    <2> QED BY <2>1 DEF GrownOK
  <1>4. heights \in [Peers -> Nat \cup {None}] /\ work \in Batches \cup {None}
        /\ links \subseteq Peers /\ NetOK
    BY DEF NetOK
  <1> QED BY <1>1, <1>2, <1>3, <1>4 DEF Types

----------------------------------------------------------------------------
(* The steps                                                               *)

(* Taking a block in, for the first time or again, keeps the head best.    *)
LEMMA AddKeepsBest ==
    ASSUME Types, HeadBest, NEW b \in Blocks, Add(b)
    PROVE  held' \subseteq Blocks /\ head' \in held' /\ HeadBest'
  <1>1. held \subseteq Blocks /\ head \in held /\ head \in Blocks
    BY DEF Types
  <1>2. held' = held \cup {b} /\ head' = IF Better(b, head) THEN b ELSE head
    BY DEF Add
  <1>3. CASE Better(b, head)
    <2>1. ASSUME NEW c \in held' PROVE ~Better(c, b)
      BY <1>1, <1>2, <1>3, <2>1, BetterOrder DEF HeadBest
    <2> QED BY <1>1, <1>2, <1>3, <2>1 DEF HeadBest, Better
  <1>4. CASE ~Better(b, head)
    BY <1>1, <1>2, <1>4 DEF HeadBest, Better
  <1> QED BY <1>3, <1>4

(* The first block of a batch is a block, and the rest a batch.            *)
LEMMA BatchHead ==
    ASSUME work \in Batches \cup {None}, work # None, work.rest # <<>>
    PROVE  /\ Head(work.rest) \in Blocks
           /\ [work EXCEPT !.rest = Tail(@), !.added = TRUE] \in Batches
           /\ [work EXCEPT !.rest = Tail(@)] \in Batches
  <1>1. work \in Batches
    OBVIOUS
  <1>2. work.rest \in Seq(Blocks)
    BY <1>1 DEF Batches
  <1>3. Head(work.rest) \in Blocks /\ Tail(work.rest) \in Seq(Blocks)
    BY <1>2
  <1> QED BY <1>1, <1>3 DEF Batches

(* Every step keeps it.                                                    *)
LEMMA StepTypes == Types /\ HeadBest /\ [Next]_vars => Types' /\ HeadBest'
  <1> SUFFICES ASSUME Types, HeadBest, [Next]_vars PROVE Types' /\ HeadBest'
    OBVIOUS
  <1>0. /\ held \subseteq Blocks /\ head \in held /\ ModeOK
        /\ heights \in [Peers -> Nat \cup {None}] /\ work \in Batches \cup {None}
        /\ links \subseteq Peers /\ grown \in [Peers -> Nat] /\ NetOK /\ GrownOK
    BY DEF Types
  <1> USE DEF node, peerside, HeadBest, Better
  <1>1. ASSUME NEW p \in Peers, PeerGrows(p) PROVE Types' /\ HeadBest'
    <2>1. Len(Line[p]) \in Nat /\ grown[p] < Len(Line[p])
      BY <1>1, SyncAssumption DEF PeerGrows, SyncAssumption
    <2>2. grown' \in [Peers -> Nat] /\ GrownOK'
      BY <1>0, <1>1, <2>1 DEF PeerGrows, GrownOK
    <2> QED BY <1>0, <1>1, <2>2 DEF PeerGrows, Types, ModeOK, IsSyncing, NetOK
  <1>2. ASSUME NEW p \in Peers, Connect(p) PROVE Types' /\ HeadBest'
    <2>1. NetOK'
      BY <1>0, <1>2 DEF Connect, NetOK, AskInfo
    <2> QED BY <1>0, <1>2, <2>1 DEF Connect, Types, ModeOK, IsSyncing, GrownOK
  <1>3. ASSUME NEW p \in Peers, Disconnect(p) PROVE Types' /\ HeadBest'
    BY <1>0, <1>3 DEF Disconnect, Types, ModeOK, IsSyncing, NetOK, GrownOK
  <1>4. ASSUME NEW p \in Peers, ServeInfo(p) PROVE Types' /\ HeadBest'
    <2>1. SlotOf[PeerHead(p)] \in Nat
      BY <1>0, PeerHeadType
    <2>2. NetOK'
      BY <1>0, <1>4, <2>1 DEF ServeInfo, NetOK, Info
    <2> QED BY <1>0, <1>4, <2>2 DEF ServeInfo, Types, ModeOK, IsSyncing, GrownOK
  <1>5. ASSUME NEW p \in Peers, NEW b \in Blocks, ServeBlocks(p, b)
        PROVE  Types' /\ HeadBest'
    <2>1. BlocksRange(p, b) \in Seq(Blocks)
      BY <1>0, BlocksRangeType
    <2>2. NetOK'
      BY <1>0, <1>5, <2>1 DEF ServeBlocks, NetOK, BlocksFrom
    <2> QED BY <1>0, <1>5, <2>2 DEF ServeBlocks, Types, ModeOK, IsSyncing, GrownOK
  <1>6. ASSUME NEW p \in Peers, ChainInfo(p) PROVE Types' /\ HeadBest'
    <2>1. PICK m \in net :
            /\ m.kind = "info" /\ m.peer = p
            /\ heights' = [heights EXCEPT ![p] = m.height]
            /\ \/ \E q \in Ahead(heights') :
                    /\ mode' = Syncing(q, heights'[q])
                    /\ net' = (net \ {m}) \cup {AskBlocks(q, head)}
               \/ UNCHANGED mode /\ net' = net \ {m}
      BY <1>6 DEF ChainInfo
    <2>2. heights' \in [Peers -> Nat \cup {None}]
      BY <1>0, <2>1 DEF NetOK
    <2>3. ModeOK' /\ NetOK'
      <3>1. CASE UNCHANGED mode /\ net' = net \ {m}
        BY <1>0, <3>1 DEF ModeOK, IsSyncing, NetOK
      <3>2. ASSUME NEW q \in Ahead(heights'), mode' = Syncing(q, heights'[q]),
                   net' = (net \ {m}) \cup {AskBlocks(q, head)}
            PROVE  ModeOK' /\ NetOK'
        <4>1. q \in Peers /\ heights'[q] \in Nat
          BY <2>2, <3>2 DEF Ahead
        <4> QED BY <1>0, <3>2, <4>1 DEF ModeOK, IsSyncing, Syncing, NetOK, AskBlocks
      <3> QED BY <2>1, <3>1, <3>2
    <2>4. UNCHANGED <<held, head, work, peerside>>
      BY <1>6 DEF ChainInfo
    <2> QED BY <1>0, <2>2, <2>3, <2>4 DEF Types, GrownOK
  <1>7. ASSUME NEW p \in Peers, NEW b \in Blocks, ReceiveBlocks(p, b)
        PROVE  Types' /\ HeadBest'
    <2>1. PICK m \in net :
            /\ m.kind = "blocks"
            /\ work' = [rest |-> m.blocks, added |-> FALSE, empty |-> m.blocks = <<>>]
            /\ net' = net \ {m}
      BY <1>7 DEF ReceiveBlocks
    <2>2. work' \in Batches
      BY <1>0, <2>1 DEF NetOK, Batches
    <2>3. NetOK'
      BY <1>0, <2>1 DEF NetOK
    <2> QED BY <1>0, <1>7, <2>2, <2>3
            DEF ReceiveBlocks, Types, ModeOK, IsSyncing, GrownOK
  <1>8. ASSUME NEW m \in net, Lose(m) PROVE Types' /\ HeadBest'
    BY <1>0, <1>8 DEF Lose, Types, ModeOK, IsSyncing, NetOK, GrownOK
  <1>9. ASSUME ProcessBlock PROVE Types' /\ HeadBest'
    <2> DEFINE b == Head(work.rest)
    <2>1. /\ b \in Blocks
          /\ [work EXCEPT !.rest = Tail(@), !.added = TRUE] \in Batches
          /\ [work EXCEPT !.rest = Tail(@)] \in Batches
      BY <1>0, <1>9, BatchHead DEF ProcessBlock
    <2>2. heights' = heights /\ net' = net /\ links' = links /\ grown' = grown
      BY <1>9 DEF ProcessBlock
    <2>3. NetOK' /\ GrownOK'
      BY <1>0, <2>2 DEF NetOK, GrownOK
    <2>4. work' \in Batches \cup {None}
      BY <1>9, <2>1 DEF ProcessBlock
    <2>5. mode' = mode \/ mode' = Idle
      BY <1>9 DEF ProcessBlock
    <2>6. ModeOK'
      BY <1>0, <2>5 DEF ModeOK, IsSyncing, Idle
    <2>7. Add(b) \/ UNCHANGED <<held, head>>
      BY <1>9 DEF ProcessBlock
    <2>8. held' \subseteq Blocks /\ head' \in held' /\ HeadBest'
      BY <1>0, <2>1, <2>7, AddKeepsBest
    <2> QED BY <1>0, <2>2, <2>3, <2>4, <2>8, <2>6 DEF Types
  <1>10. ASSUME FinishBatch PROVE Types' /\ HeadBest'
    <2>1. NetOK'
      BY <1>0, <1>10 DEF FinishBatch, NetOK, ModeOK, AskBlocks
    <2>2. ModeOK'
      BY <1>0, <1>10 DEF FinishBatch, ModeOK, IsSyncing, Idle, Synced
    <2> QED BY <1>0, <1>10, <2>1, <2>2 DEF FinishBatch, Types, GrownOK
  <1>11. ASSUME NEW b \in Blocks, NewBlock(b) PROVE Types' /\ HeadBest'
    <2>1. held' \subseteq Blocks /\ head' \in held' /\ HeadBest'
      BY <1>11, AddKeepsBest DEF NewBlock
    <2> QED BY <1>0, <1>11, <2>1
            DEF NewBlock, Types, ModeOK, IsSyncing, NetOK, GrownOK
  <1>12. ASSUME UNCHANGED vars PROVE Types' /\ HeadBest'
    BY <1>0, <1>12 DEF vars, Types, ModeOK, IsSyncing, NetOK, GrownOK
  <1> QED BY <1>1, <1>2, <1>3, <1>4, <1>5, <1>6, <1>7, <1>8, <1>9, <1>10,
             <1>11, <1>12 DEF Next

(* Every state that the node and its peers reach is well-typed.            *)
THEOREM SyncTypeCorrect == Spec => []TypeOK
  <1>1. Types => TypeOK
    BY SyncAssumption DEF SyncAssumption, Types, TypeOK, ModeOK, IsSyncing
  <1> QED BY <1>1, InitTypes, StepTypes, PTL DEF Spec

----------------------------------------------------------------------------
(* Refinement: a step of the node takes a block or changes nothing.        *)

(* Adding a block of a batch is a step of the abstract replica.            *)
LEMMA AddRefines ==
    ASSUME Types, HeadBest, NEW b \in Blocks, Addable(b), Add(b)
    PROVE  R!Next \/ UNCHANGED <<held, head>>
  <1>1. b # Genesis /\ Parent[b] \in held
    BY SyncAssumption DEF Addable, Before, SyncAssumption, Types
  <1>2. CASE b \in held
    BY <1>2 DEF Add, HeadBest
  <1>3. CASE b \notin held
    <2>1. held' \subseteq Blocks /\ head' \in held' /\ HeadBest'
      BY AddKeepsBest
    <2>2. \A c \in held' : ~Better(c, head')
      BY <2>1 DEF HeadBest, Better
    <2>3. R!Take(b)
      BY <1>1, <1>3, <2>1, <2>2 DEF Add, R!Take, R!Best
    <2> QED BY <2>3 DEF R!Next
  <1> QED BY <1>2, <1>3

(* Every step is a step of the abstract replica or leaves it alone.        *)
LEMMA StepRefines ==
    Types /\ HeadBest /\ [Next]_vars => R!Next \/ UNCHANGED <<held, head>>
  <1> SUFFICES ASSUME Types, HeadBest, [Next]_vars
               PROVE  R!Next \/ UNCHANGED <<held, head>>
    OBVIOUS
  <1>1. CASE ProcessBlock
    <2>1. Head(work.rest) \in Blocks
      BY <1>1, BatchHead DEF ProcessBlock, Types
    <2> QED BY <1>1, <2>1, AddRefines DEF ProcessBlock
  <1>2. CASE \E b \in Blocks : NewBlock(b)
    BY <1>2, AddRefines DEF NewBlock
  <1>3. CASE ~ProcessBlock /\ ~\E b \in Blocks : NewBlock(b)
    BY <1>3 DEF Next, vars, node, PeerGrows, Connect, Disconnect, ServeInfo,
                ChainInfo, ServeBlocks, ReceiveBlocks, Lose, FinishBatch
  <1> QED BY <1>1, <1>2, <1>3

(* Whatever peers send and in whatever order, the node takes in one block  *)
(* after the other, each after its parent, gives none back, and its head   *)
(* is the best of those it has.                                            *)
THEOREM SyncReplicaRefined == Spec => ReplicaRefined
  <1>1. Init => R!Init
    BY SyncAssumption DEF SyncAssumption, Init, R!Init, R!Best
  <1>2. Types /\ HeadBest /\ [Next]_vars => [R!Next]_<<held, head>>
    BY StepRefines
  <1> QED BY <1>1, <1>2, InitTypes, StepTypes, PTL
          DEF Spec, ReplicaRefined, R!Spec
=============================================================================
