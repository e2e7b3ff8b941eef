----------------------------- MODULE MCProducer -----------------------------
(***************************************************************************)
(* Instances of Producer for TLC: a node with two wallets, one after the   *)
(* other, a client of its faucet and a stranger who pays the node.         *)
(***************************************************************************)
EXTENDS Producer

CONSTANTS n1, n2,     \* the node's wallets
          client, stranger

MCAddrs == {n1, n2, client, stranger}
MCWallets == {n1, n2}
MCClients == {client}
MCSends == {<<stranger, 1>>}

MCInitialAccounts ==
    [x \in MCWallets \cup {stranger} |->
        [NewAccount EXCEPT !.balance = IF x = SeedWallet THEN 3 ELSE 1]]

StrangerPays ==
    {[sender |-> stranger, receiver |-> n1, nonce |-> n, signed |-> TRUE,
      data |-> [type |-> "NativeTransfer", amount |-> 1]] : n \in {0, 1}}
=============================================================================
