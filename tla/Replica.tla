------------------------------- MODULE Replica -------------------------------
(***************************************************************************)
(* What a node promises about the chain it keeps while it follows others:  *)
(* it takes in one block after the other, a block only after its parent,   *)
(* gives none back, and its head is the best block it has.                 *)
(***************************************************************************)
CONSTANTS
    Blocks,
    Parent,        \* for each block the one before it
    Better(_, _),  \* fork choice: whether one block is preferred to another
    Stored         \* the blocks it starts with

VARIABLES
    held,   \* the blocks it has
    head    \* the one it builds on

Best(set) == {b \in set : \A c \in set : ~Better(c, b)}

Init == held = Stored /\ head \in Best(Stored)

Take(b) ==
    /\ b \notin held /\ Parent[b] \in held
    /\ held' = held \cup {b}
    /\ head' \in Best(held')

Next == \E b \in Blocks : Take(b)

Spec == Init /\ [][Next]_<<held, head>>
=============================================================================
