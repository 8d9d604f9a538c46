-------------------------------- MODULE Books --------------------------------
(***************************************************************************)
(* The vocabulary of TrustPay's double-entry ledger, shared by every       *)
(* module that moves money: which accounts exist, which direction          *)
(* increases each of them, what a transaction's postings are, and the      *)
(* movements the services ask the ledger for.                              *)
(*                                                                         *)
(* An account row is the pair <<type, owner>>.  The postings of one        *)
(* transaction are kept as the total debited to and the total credited to  *)
(* each account, which is all that post() and reconcile() ever read back.  *)
(***************************************************************************)
EXTENDS Integers, FiniteSets, Functions

CONSTANTS
  Users,      \* people who own accounts
  Accounts    \* the account rows that exist

UserAccountTypes == {"USER_AVAILABLE", "USER_PROTECTED", "USER_PENDING_SETTLEMENT"}
SystemAccountTypes == {"SYSTEM_EXTERNAL_SOURCE", "SYSTEM_FEES"}

(* The owner column of the platform's own accounts, NULL in the table.     *)
Platform == "PLATFORM"

(* The table's CHECK constraint: user types have an owner, system types    *)
(* have none.                                                              *)
AccountRows == (UserAccountTypes \X Users) \cup (SystemAccountTypes \X {Platform})

ASSUME AccountsAssumption == Accounts \subseteq AccountRows
ASSUME PlatformAssumption == Platform \notin Users
ASSUME FinitenessAssumption == IsFiniteSet(Accounts)

UserAccounts == {a \in Accounts : a[1] \in UserAccountTypes}

Available(u) == <<"USER_AVAILABLE", u>>
Protected(u) == <<"USER_PROTECTED", u>>
External     == <<"SYSTEM_EXTERNAL_SOURCE", Platform>>

-----------------------------------------------------------------------------
(* Postings.                                                               *)

TransactionTypes == {"TOP_UP", "WITHDRAWAL", "MILESTONE_FUNDING",
                     "PAYMENT_RELEASE", "REFUND", "FEE", "ADJUSTMENT"}

Entry == [type : TransactionTypes, debit : [Accounts -> Nat], credit : [Accounts -> Nat]]

(* Only the external-source account is increased by a debit.               *)
NormalBalance(a) == IF a[1] = "SYSTEM_EXTERNAL_SOURCE" THEN "DEBIT" ELSE "CREDIT"

(* What debits of d and credits of c do to the balance of account a.       *)
SignedDelta(a, d, c) == IF NormalBalance(a) = "CREDIT" THEN c - d ELSE d - c

Delta(e, a) == SignedDelta(a, e.debit[a], e.credit[a])

Touched(e) == {a \in Accounts : e.debit[a] > 0 \/ e.credit[a] > 0}

(* Debits equal credits, and something moves.                              *)
Balanced(e) ==
  /\ SumFunction(e.debit) = SumFunction(e.credit)
  /\ SumFunction(e.debit) > 0

(* No user account goes below zero when e is applied to the balances bal.  *)
Covered(bal, e) ==
  \A a \in Touched(e) \cap UserAccounts : bal[a] + Delta(e, a) >= 0

Applied(bal, e) == [a \in Accounts |-> bal[a] + Delta(e, a)]

(* Bug: the amounts are negated where the directions should be swapped.    *)
BugMirrored(e) ==
  [type |-> "ADJUSTMENT", debit  |-> [a \in Accounts |-> -e.debit[a]],
                          credit |-> [a \in Accounts |-> -e.credit[a]]]

(* The mirror image that reverse() posts.                                  *)
Mirrored(e) == [type |-> "ADJUSTMENT", debit |-> e.credit, credit |-> e.debit]

-----------------------------------------------------------------------------
(* The movements the services post.                                        *)

Line(a, n) == [x \in Accounts |-> IF x = a THEN n ELSE 0]

Transfer(type, from, to, n) ==
  [type |-> type, debit |-> Line(from, n), credit |-> Line(to, n)]

TopUp(u, n)               == Transfer("TOP_UP", External, Available(u), n)
Withdrawal(u, n)          == Transfer("WITHDRAWAL", Available(u), External, n)
MilestoneFunding(c, n)    == Transfer("MILESTONE_FUNDING", Available(c), Protected(c), n)
PaymentRelease(c, r, n)   == Transfer("PAYMENT_RELEASE", Protected(c), Available(r), n)
Refund(c, n)              == Transfer("REFUND", Protected(c), Available(c), n)

(* A dispute settled by splitting n: share to the receiver, the rest back. *)
SplitSettlement(c, r, n, share) ==
  [type   |-> "ADJUSTMENT",
   debit  |-> Line(Protected(c), n),
   credit |-> [x \in Accounts |-> Line(Available(r), share)[x]
                                  + Line(Available(c), n - share)[x]]]
=============================================================================
