------------------------------ MODULE MC_Escrow ------------------------------
(* Escrow for one client and one receiver.                                 *)
EXTENDS Escrow, TLC

MCAccounts == {Available(client), Protected(client), Available(receiver), External}

MCAmount == [m \in Milestones |-> 2]
MCUneven ==
  LET small == CHOOSE m \in Milestones : TRUE IN
  [m \in Milestones |-> IF m = small THEN 2 ELSE 3]

(* Every operation; those that bring two milestones to their end in every  *)
(* combination; and those that take a key, with what leads from one to the *)
(* other.                                                                  *)
AllOps == OpNames
ClosingOps ==
  {"start_work", "fund_milestone", "submit_milestone", "approve_and_release", "raise_dispute",
   "RELEASE_TO_RECEIVER", "SPLIT", "NO_ACTION", "request_cancellation",
   "verify_cancellation"}
PayingOps == {"start_work", "fund_milestone", "submit_milestone", "approve_and_release"}

MCSymmetry == Permutations(Sessions)
=============================================================================
