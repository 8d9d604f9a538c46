------------------------------- MODULE Custody -------------------------------
(***************************************************************************)
(* What escrow promises the two parties of a project, with no handlers, no *)
(* locks and no statuses but where each milestone's money is.  A           *)
(* milestone's amount leaves the client's spendable balance once, stays    *)
(* whole while it is protected, and leaves protection once: all of it to   *)
(* the receiver, or back to the client less an agreed share.               *)
(***************************************************************************)
EXTENDS Books

CONSTANTS
  Milestones,         \* the milestones of one project
  Amount,             \* what each of them is worth
  client, receiver    \* its two parties

VARIABLES
  balance,   \* the balance of every account
  held       \* where each milestone's money is

vars == <<balance, held>>

Places == {"client", "escrow", "receiver", "returned"}

Init ==
  /\ balance \in [Accounts -> Int]
  /\ held = [m \in Milestones |-> "client"]

Moves(m, from, to, e) ==
  /\ held[m] = from
  /\ held' = [held EXCEPT ![m] = to]
  /\ Covered(balance, e)
  /\ balance' = Applied(balance, e)

Protect(m) == Moves(m, "client", "escrow", MilestoneFunding(client, Amount[m]))

Pay(m) == Moves(m, "escrow", "receiver", PaymentRelease(client, receiver, Amount[m]))

GiveBack(m) == Moves(m, "escrow", "returned", Refund(client, Amount[m]))

Divide(m, share) ==
  Moves(m, "escrow", "returned", SplitSettlement(client, receiver, Amount[m], share))

Next ==
  \E m \in Milestones :
    \/ Protect(m) \/ Pay(m) \/ GiveBack(m)
    \/ \E share \in 1..(Amount[m] - 1) : Divide(m, share)

Spec == Init /\ [][Next]_vars
=============================================================================
