---------------------------- MODULE LedgerPromise ----------------------------
(***************************************************************************)
(* What the ledger promises its callers, with no sessions, no locks and no *)
(* cached rows: a balanced entry is recorded and applied to the balances   *)
(* in one indivisible step, never overdraws a user, and a given            *)
(* idempotency key is used by at most one recorded transaction.            *)
(***************************************************************************)
EXTENDS Books, Sequences

CONSTANTS
  Keys,    \* idempotency keys clients choose
  NoKey    \* a request that carries none

VARIABLES
  balance,   \* the balance of every account
  record     \* the entries recorded, with their keys, in order

vars == <<balance, record>>

Init ==
  /\ balance = [a \in Accounts |-> 0]
  /\ record = <<>>

Unused(k) == k = NoKey \/ \A i \in 1..Len(record) : record[i].key # k

(* Nothing is lost between the check and the write: the entry is covered   *)
(* by the very balances it is applied to.                                  *)
Record(e, k) ==
  /\ Balanced(e)
  /\ Covered(balance, e)
  /\ Unused(k)
  /\ balance' = Applied(balance, e)
  /\ record' = Append(record, [entry |-> e, key |-> k])

(* The entry is read off the end of the new record, so that the module can *)
(* be checked without a bound on amounts.                                  *)
Next ==
  /\ Len(record') = Len(record) + 1
  /\ Record(record'[Len(record')].entry, record'[Len(record')].key)

Spec == Init /\ [][Next]_vars
=============================================================================
