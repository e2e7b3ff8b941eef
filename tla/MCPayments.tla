----------------------------- MODULE MCPayments -----------------------------
(* Payments for TLC: two wallets, a small and a large draft. *)
EXTENDS Payments
=============================================================================
