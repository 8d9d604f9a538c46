----------------------------- MODULE MC_Payments -----------------------------
(* Payments in and out of one wallet.                                      *)
EXTENDS Payments

MCAmount == [p \in Payouts |-> 2]
=============================================================================
