------------------------------- MODULE MCChain -------------------------------
(***************************************************************************)
(* Instances of Chain for TLC: small universes of blocks in which forks,   *)
(* equivocation, conflicting transactions, invalid blocks, registrations   *)
(* and refunds meet.                                                       *)
(***************************************************************************)
EXTENDS Chain, TLC

CONSTANTS v0, v1, v2, v3,   \* consensus keys; v0 signs genesis
          w, x,             \* wallets
          g, b1, e1, s2, b2, f2, b3, c3, b4, i3, r3  \* hashes

MCKeys == {v0, v1, v2, v3}
MCAddrs == MCKeys \cup {w, x}

Tx(sender, receiver, nonce, data) ==
    [sender |-> sender, receiver |-> receiver, nonce |-> nonce,
     signed |-> TRUE, data |-> data]

Pay(amount) == [type |-> "NativeTransfer", amount |-> amount]
Bond(stake) == [type |-> "RegisterValidator", stake |-> stake]
Unbond == [type |-> "UnregisterValidator"]

Blk(parent, slot, producer, vrf, draw, txs) ==
    [parent |-> parent, slot |-> slot, producer |-> producer, vrf |-> vrf,
     draw |-> draw, valid |-> TRUE, root_ok |-> TRUE, txs |-> txs]

(* g - b1 - b2 - b3 - b4 is one chain.  e1 is b1's producer's second block *)
(* for slot 1; s2 competes with b2 for slot 2, on g, with a better VRF     *)
(* output and a transaction that conflicts with b1's; f2 is b2's producer's*)
(* second block for slot 2, on g, and spends what s2 may have paid; c3     *)
(* unregisters the wallet that the node funded for itself; i3 has a bad    *)
(* proof and r3 a wrong state root.                                        *)
BlockOf ==
    g :> Blk(NoHash, 0, v0, 0, 0, <<>>)
    @@ b1 :> Blk(g, 1, v1, 2, 1, <<Tx(w, x, 0, Pay(1))>>)
    @@ e1 :> Blk(g, 1, v1, 1, 1, <<>>)
    @@ b2 :> Blk(b1, 2, v2, 3, 2, <<Tx(x, x, 0, Bond(1))>>)
    @@ s2 :> Blk(g, 2, v1, 2, 1, <<Tx(w, x, 0, Pay(2))>>)
    @@ b3 :> Blk(b2, 3, v1, 1, 1, <<Tx(x, NoAddr, 1, Unbond), Tx(w, x, 1, Pay(1))>>)
    @@ b4 :> Blk(b3, 4, v2, 1, 1, <<>>)
    @@ f2 :> Blk(g, 2, v2, 4, 1, <<Tx(x, w, 0, Pay(2))>>)
    @@ c3 :> Blk(b1, 3, v1, 2, 1, <<Tx(w, NoAddr, 1, Unbond)>>)
    @@ i3 :> [Blk(b1, 3, v2, 0, 1, <<>>) EXCEPT !.valid = FALSE]
    @@ r3 :> [Blk(b1, 3, v2, 0, 1, <<>>) EXCEPT !.root_ok = FALSE]

MCHashes == {g, b1, e1, s2, b2, f2, b3, c3, b4, i3, r3}
Restricted(hashes) == [h \in hashes |-> BlockOf[h]]
MCHeader == Restricted(MCHashes)

(* Equivocation and two forks. *)
SmallHashes == {g, b1, e1, s2, b2}
SmallHeader == Restricted(SmallHashes)

(* Equivocation only. *)
TinyHashes == {g, b1, e1, b2}
TinyHeader == Restricted(TinyHashes)

NoVotes == {}
SomeVotes == {v1, v2, v3} \X {b1, b2}
=============================================================================
