------------------------------ MODULE MCLedger ------------------------------
(***************************************************************************)
(* Instances of Ledger for TLC.  Each run takes the transactions of one    *)
(* part of the ledger; a nonce is part of a transaction, so the largest    *)
(* nonce bounds how many transactions an address can commit.               *)
(***************************************************************************)
EXTENDS Ledger

CONSTANTS alice, bob,  \* two wallets
          MaxNonce     \* the largest nonce of a transaction

MCAddrs == {alice, bob}
MCNonces == 0 .. MaxNonce

MCInitialAccounts ==
    [x \in MCAddrs |-> [NewAccount EXCEPT !.balance = IF x = alice THEN 3 ELSE 1]]

Tx(sender, receiver, nonce, data) ==
    [sender |-> sender, receiver |-> receiver, nonce |-> nonce,
     signed |-> TRUE, data |-> data]

(* `data` under every sender and nonce, with the given receivers. *)
Signed(receivers, data) ==
    {Tx(s, r, n, d) : s \in MCAddrs, r \in receivers, n \in MCNonces, d \in data}

Transfers ==
    Signed(MCAddrs, {[type |-> "NativeTransfer", amount |-> 2]})

(* Channels of alice with bob and with herself, closed with the right split, *)
(* with a wrong one, and with one whose sum wraps round.                   *)
ChannelTxs ==
    {Tx(alice, NoAddr, n, [type |-> "OpenChannel", partner |-> p, amount |-> 2]) :
        n \in MCNonces, p \in MCAddrs}
    \cup {Tx(s, NoAddr, n,
             [type |-> "CloseChannel", id |-> <<alice, m, ChannelName>>,
              final_balance_a |-> split[1], final_balance_b |-> split[2]]) :
            s \in MCAddrs, n \in MCNonces, m \in MCNonces,
            split \in {<<1, 1>>, <<0, 1>>, <<U64Mod - 1, 3>>}}
    \cup Transfers

(* Assets that alice issues, and one transaction that nobody signed. *)
AssetTxs ==
    {Tx(alice, NoAddr, n, [type |-> "CreateAsset", name |-> "gold",
                           supply |-> 2]) : n \in MCNonces}
    \cup Signed(MCAddrs, {[type |-> "TransferAsset", id |-> <<alice, n, "gold">>,
                           amount |-> 1] : n \in MCNonces})
    \cup {Tx(alice, NoAddr, 0, [type |-> "DelegateSpend", delegate |-> bob,
                                allowance |-> 1]),
          [Tx(bob, alice, 0, [type |-> "NativeTransfer", amount |-> 1])
             EXCEPT !.signed = FALSE]}

(* The ids that occur are those of the collection made at nonce 0. *)
NftTxs ==
    {Tx(alice, NoAddr, n, [type |-> "CreateCollection", name |-> "art"]) :
        n \in MCNonces}
    \cup {Tx(s, NoAddr, n,
             [type |-> "MintNFT", id |-> <<alice, 0, "art">>, item |-> 1,
              recipient |-> r]) :
            s \in MCAddrs, n \in MCNonces, r \in MCAddrs}
    \cup Signed(MCAddrs,
               {[type |-> "TransferNFT", id |-> <<alice, 0, "art">>, item |-> 1]})

(* Alice registers, with too little and with enough, and takes it back.    *)
StakeTxs ==
    {Tx(alice, NoAddr, n, data) :
        n \in MCNonces,
        data \in {[type |-> "RegisterValidator", stake |-> s] : s \in 1 .. 2}
                   \cup {[type |-> "UnregisterValidator"]}}
    \cup {tx \in Transfers : tx.sender = alice}

(* Items can move once more than assets: mint, transfer and transfer back.  *)
TokenTxs == {tx \in AssetTxs : tx.nonce < MaxNonce} \cup NftTxs

HoldingTxs == TokenTxs \cup StakeTxs
=============================================================================
