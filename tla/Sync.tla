-------------------------------- MODULE Sync --------------------------------
(***************************************************************************)
(* How a node catches up with its peers: SyncManager of core/src/sync.rs,  *)
(* the synchronisation messages in the main loop of core/src/node.rs, the  *)
(* requests and responses of core/src/network.rs, and get_blocks_range of  *)
(* core/src/chain.rs, which answers them.                                  *)
(*                                                                         *)
(* The node is one task, which handles one message after the other; a      *)
(* batch of blocks is added block by block, and nothing comes between.     *)
(* add_block is what it is for a block that fits the state of the chain    *)
(* (Chain has all of it): whether the parent is there, whether it is       *)
(* valid, and whether its transactions were executed before.  A peer is    *)
(* known by its line, the blocks from genesis to its head.                 *)
(***************************************************************************)
EXTENDS Integers, Sequences, FiniteSets

CONSTANTS
    Blocks, Genesis,
    Parent,        \* for each block but genesis the one before it
    SlotOf,        \* its slot: the height of a chain is the slot of its head
    Rank,          \* its VRF output
    Refused,       \* the blocks that do not pass this node's validation
    WithTxs,       \* the blocks that have transactions
    Peers,
    Line,          \* for each peer the blocks of its chain after genesis
    Stored,        \* the blocks that the node starts with
    Limit,         \* 100: blocks in a response
    MaxConnects,   \* bound: how often a connection is established
    None

Before(b) == IF b = Genesis THEN None ELSE Parent[b]

ASSUME SyncAssumption ==
    /\ Genesis \in Stored /\ Stored \subseteq Blocks
    /\ Parent \in [Blocks \ {Genesis} -> Blocks]
    /\ SlotOf \in [Blocks -> Nat] /\ Rank \in [Blocks -> Nat]
    /\ \A b \in Stored \ {Genesis} : Parent[b] \in Stored
    /\ Line \in [Peers -> Seq(Blocks \ {Genesis})]
    /\ Limit \in Nat \ {0} /\ MaxConnects \in Nat
    /\ None \notin Blocks /\ None \notin Peers /\ None \notin Nat

VARIABLES
    held,      \* the blocks in storage
    head,      \* Chain::head
    mode,      \* SyncManager::state
    heights,   \* SyncManager::peers, the height of each
    work,      \* the batch that process_blocks is in, or None
    net,       \* requests and responses on their way
    links,     \* the peers that are connected
    grown,     \* for each peer how much of its line it has
    connects   \* how many connections there were

node == <<held, head, mode, heights, work>>
peerside == <<links, grown, connects>>
vars == <<node, net, peerside>>

\* Fork choice: the higher slot, then the lower VRF output.
Better(b, c) ==
    \/ SlotOf[b] > SlotOf[c]
    \/ SlotOf[b] = SlotOf[c] /\ Rank[b] < Rank[c]

Height == SlotOf[head]

Idle == [state |-> "idle", peer |-> None, target |-> 0]
Synced == [state |-> "synced", peer |-> None, target |-> 0]
Syncing(p, s) == [state |-> "syncing", peer |-> p, target |-> s]
IsSyncing == mode.state = "syncing"

AskInfo(p) == [kind |-> "ask_info", peer |-> p]
Info(p, s) == [kind |-> "info", peer |-> p, height |-> s]
AskBlocks(p, b) == [kind |-> "ask_blocks", peer |-> p, start |-> b]
BlocksFrom(p, b, blocks) ==
    [kind |-> "blocks", peer |-> p, start |-> b, blocks |-> blocks]

Batches == [rest : Seq(Blocks), added : BOOLEAN, empty : BOOLEAN]

Init ==
    /\ held = Stored
    /\ head \in {b \in Stored : \A c \in Stored : ~Better(c, b)}
    /\ mode = Idle
    /\ heights = [p \in Peers |-> None]
    /\ work = None
    /\ net = {} /\ links = {} /\ connects = 0
    /\ grown \in [Peers -> UNION {0..Len(Line[p]) : p \in Peers}]
    /\ \A p \in Peers : grown[p] <= Len(Line[p])

----------------------------------------------------------------------------
(* The peers                                                               *)

PeerChain(p) == {Line[p][i] : i \in 1..grown[p]}
PeerHead(p) == IF grown[p] = 0 THEN Genesis ELSE Line[p][grown[p]]

PeerGrows(p) ==
    /\ grown[p] < Len(Line[p])
    /\ grown' = [grown EXCEPT ![p] = @ + 1]
    /\ UNCHANGED <<node, net, links, connects>>

\* The height index of the peer.  Genesis is in storage, but not in the index.
AtHeight(p, s) == {b \in PeerChain(p) : SlotOf[b] = s}

\* The length of the run of slots from s on, each of which has a block.
RunLength(p, s) ==
    Cardinality({k \in 1..Limit : \A j \in 1..k : AtHeight(p, s + j - 1) # {}})

\* get_blocks_range: the blocks in the slots from that of the start, up to the
\* first slot that has none.
BlocksRange(p, start) ==
    LET from == SlotOf[start] IN
    IF start \notin PeerChain(p) THEN <<>>
    ELSE [k \in 1..RunLength(p, from) |->
             CHOOSE b \in PeerChain(p) : b \in AtHeight(p, from + k - 1)]

ServeInfo(p) ==
    /\ AskInfo(p) \in net /\ p \in links
    /\ net' = (net \ {AskInfo(p)}) \cup {Info(p, SlotOf[PeerHead(p)])}
    /\ UNCHANGED <<node, peerside>>

ServeBlocks(p, b) ==
    /\ AskBlocks(p, b) \in net /\ p \in links
    /\ net' = (net \ {AskBlocks(p, b)}) \cup {BlocksFrom(p, b, BlocksRange(p, b))}
    /\ UNCHANGED <<node, peerside>>

\* PeerConnected is the only occasion on which a peer is asked for its height.
Connect(p) ==
    /\ p \notin links /\ connects < MaxConnects
    /\ links' = links \cup {p}
    /\ connects' = connects + 1
    /\ net' = net \cup {AskInfo(p)}
    /\ UNCHANGED <<node, grown>>

\* Mutant: a sync with the peer that is gone goes on without a peer.
DisconnectForgets(p) ==
    /\ p \in links
    /\ links' = links \ {p}
    /\ mode' = IF mode.peer = p THEN [mode EXCEPT !.peer = None] ELSE mode
    /\ UNCHANGED <<held, head, heights, work, net, grown, connects>>

\* PeerDisconnected is only logged; nobody hears of a request that failed.
Disconnect(p) ==
    /\ p \in links
    /\ links' = links \ {p}
    /\ UNCHANGED <<node, net, grown, connects>>

Lose(m) ==
    /\ m \in net /\ m.peer \notin links
    /\ net' = net \ {m}
    /\ UNCHANGED <<node, peerside>>

----------------------------------------------------------------------------
(* The messages that the node handles                                      *)

\* should_sync: a peer of the greatest height, if that is above the node's.
Ahead(hs) ==
    {p \in Peers : /\ hs[p] # None /\ hs[p] > Height
                   /\ \A q \in Peers : hs[q] # None => hs[q] <= hs[p]}

ChainInfo(p) ==
    /\ work = None
    /\ \E m \in net :
        /\ m.kind = "info" /\ m.peer = p
        /\ heights' = [heights EXCEPT ![p] = m.height]
        /\ IF mode = Idle /\ Ahead(heights') # {}
           THEN \E q \in Ahead(heights') :
                    /\ mode' = Syncing(q, heights'[q])
                    /\ net' = (net \ {m}) \cup {AskBlocks(q, head)}
           ELSE UNCHANGED mode /\ net' = net \ {m}
    /\ UNCHANGED <<held, head, work, peerside>>

ReceiveBlocks(p, b) ==
    /\ work = None
    /\ \E m \in net :
        /\ m.kind = "blocks" /\ m.peer = p /\ m.start = b
        /\ work' = [rest |-> m.blocks, added |-> FALSE, empty |-> m.blocks = <<>>]
        /\ net' = net \ {m}
    /\ UNCHANGED <<held, head, mode, heights, peerside>>

\* Mutant: a block is taken without its parent.
AddableOrphan(b) == b \notin Refused /\ (b \in held => b \notin WithTxs)

\* add_block.  It does not ask whether the block is there already, and for one
\* without transactions nothing else stops it.
Addable(b) ==
    /\ Before(b) \in held /\ b \notin Refused
    /\ b \in held => b \notin WithTxs

\* Mutant: the head follows the last block.
AddLatest(b) == held' = held \cup {b} /\ head' = b

Add(b) ==
    /\ held' = held \cup {b}
    /\ head' = IF Better(b, head) THEN b ELSE head

\* process_blocks for the next block: added, there already, or the sync fails.
ProcessBlock ==
    /\ work # None /\ work.rest # <<>>
    /\ LET b == Head(work.rest) IN
       \/ /\ Addable(b)
          /\ Add(b)
          /\ work' = [work EXCEPT !.rest = Tail(@), !.added = TRUE]
          /\ UNCHANGED mode
       \/ /\ ~Addable(b) /\ b \in held
          /\ work' = [work EXCEPT !.rest = Tail(@)]
          /\ UNCHANGED <<held, head, mode>>
       \/ /\ ~Addable(b) /\ b \notin held
          /\ work' = None
          /\ mode' = Idle
          /\ UNCHANGED <<held, head>>
    /\ UNCHANGED <<heights, net, peerside>>

\* Mutant: a batch that did not reach the target is the last one.
FinishBatchStop ==
    /\ work # None /\ work.rest = <<>>
    /\ work' = None
    /\ mode' = IF IsSyncing THEN Idle ELSE mode
    /\ UNCHANGED <<held, head, heights, net, peerside>>

\* The end of process_blocks, and what the loop does after it.
FinishBatch ==
    /\ work # None /\ work.rest = <<>>
    /\ work' = None
    /\ IF IsSyncing /\ Height < mode.target
       THEN IF work.empty
            THEN mode' = Idle /\ UNCHANGED net
            ELSE net' = net \cup {AskBlocks(mode.peer, head)} /\ UNCHANGED mode
       ELSE /\ mode' = IF IsSyncing /\ work.added THEN Synced ELSE mode
            /\ UNCHANGED net
    /\ UNCHANGED <<held, head, heights, peerside>>

\* A block that a peer published.
NewBlock(b) ==
    /\ work = None
    /\ \E p \in links : b \in PeerChain(p)
    /\ Addable(b) /\ Add(b)
    /\ UNCHANGED <<mode, heights, work, net, peerside>>

Next ==
    \/ \E p \in Peers : PeerGrows(p) \/ Connect(p) \/ Disconnect(p)
    \/ \E p \in Peers : ServeInfo(p) \/ ChainInfo(p)
    \/ \E p \in Peers, b \in Blocks : ServeBlocks(p, b) \/ ReceiveBlocks(p, b)
    \/ \E m \in net : Lose(m)
    \/ ProcessBlock
    \/ FinishBatch
    \/ \E b \in Blocks : NewBlock(b)

\* Peers answer, and the loop goes on.
Fairness ==
    /\ \A p \in Peers : WF_vars(ServeInfo(p)) /\ WF_vars(ChainInfo(p))
    /\ \A p \in Peers, b \in Blocks :
           WF_vars(ServeBlocks(p, b)) /\ WF_vars(ReceiveBlocks(p, b))
    /\ WF_vars(ProcessBlock) /\ WF_vars(FinishBatch)

Spec == Init /\ [][Next]_vars /\ Fairness

----------------------------------------------------------------------------
(* Properties                                                              *)

TypeOK ==
    /\ held \subseteq Blocks /\ head \in held
    /\ mode \in [state : {"idle", "syncing", "synced"},
                 peer : Peers \cup {None}, target : Nat]
    /\ IsSyncing => mode.peer # None
    /\ heights \in [Peers -> Nat \cup {None}]
    /\ work \in Batches \cup {None}
    /\ links \subseteq Peers
    /\ grown \in [Peers -> Nat]

\* Whatever peers send, in whatever order, and whether it was gossiped, asked
\* for or sent again: the node keeps the promise of Replica.
R == INSTANCE Replica
ReplicaRefined == R!Spec

\* The node can be served from where it stands: its head is a block of the
\* line of p, and from there to the slot s no slot is without a block.
Dense(p, s) ==
    /\ head \in PeerChain(p)
    /\ \A t \in Height..s : \E b \in PeerChain(p) : SlotOf[b] = t

\* Once it syncs from a peer that stays connected and whose line has no gap,
\* the node reaches the height that the peer told, unless a block is refused
\* or its head moves to another line.
CatchesUp ==
    \A p \in Peers, s \in {SlotOf[b] : b \in Blocks} :
        (mode = Syncing(p, s) /\ AskBlocks(p, head) \in net)
        ~> \/ Height >= s
           \/ p \notin links
           \/ ~Dense(p, s)
           \/ \E b \in PeerChain(p) : b \in Refused

\* TESTNET_LAUNCH.md:423: a node that is started anew, its database deleted,
\* "will resync from peers": it reaches the height that a connected peer told.
ResyncsFromPeers ==
    \A p \in Peers, s \in {SlotOf[b] : b \in Blocks} :
        (p \in links /\ heights[p] = s) ~> (p \notin links \/ Height >= s)
=============================================================================
