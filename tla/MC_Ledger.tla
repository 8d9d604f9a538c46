------------------------------ MODULE MC_Ledger ------------------------------
(* Ledger on a client, a receiver and the world outside.                   *)
EXTENDS Ledger, TLC

CONSTANTS client, receiver

MCAccounts == {Available(client), Protected(client), Available(receiver), External}

(* Account ids are random: the order mixes sources and destinations.       *)
MCRank ==
  [a \in MCAccounts |->
     CASE a = Protected(client)   -> 1
       [] a = External            -> 2
       [] a = Available(receiver) -> 3
       [] a = Available(client)   -> 4]

(* Every kind of movement, and one whose two sides differ.                 *)
Lopsided ==
  [type |-> "TOP_UP", debit |-> Line(External, 1), credit |-> Line(Available(client), 2)]

MCEntries ==
  {TopUp(client, 2), MilestoneFunding(client, 2), Withdrawal(client, 1),
   SplitSettlement(client, receiver, 2, 1), Lopsided}

(* Few movements, so that more sessions fit.                               *)
MCContended == {TopUp(client, 1), Withdrawal(client, 1), Lopsided}

(* Sessions are interchangeable in the safety runs.                        *)
MCSymmetry == Permutations(Sessions)
=============================================================================
