------------------------------- MODULE Ledger -------------------------------
(***************************************************************************)
(* ledger.post() and ledger.reverse() as concurrent PostgreSQL sessions    *)
(* run them (READ COMMITTED, one database transaction per request).  A     *)
(* step is one statement whose result another session could change: the    *)
(* unlocked idempotency lookup, each row lock of SELECT ... FOR UPDATE,    *)
(* the INSERT under the unique key index, the COMMIT or ROLLBACK.          *)
(***************************************************************************)
EXTENDS Books, Sequences, FiniteSets

CONSTANTS
  Sessions,          \* database sessions, one per request being served
  Entries,           \* the postings callers ask for
  Keys, NoKey,       \* idempotency keys, and the absence of one
  Rank,              \* the order of account ids: a number per account
  Free,              \* the holder of an account row nobody has locked
  MaxTransactions    \* bound on the length of the history

ASSUME EntriesAssumption == Entries \subseteq Entry
ASSUME RankAssumption ==
  /\ Rank \in [Accounts -> Nat]
  /\ \A a, b \in Accounts : Rank[a] = Rank[b] => a = b
ASSUME NullsAssumption == NoKey \notin Keys /\ Free \notin Sessions
ASSUME BoundAssumption == MaxTransactions \in Nat

VARIABLES
  balance,  \* ledger_accounts.balance, the committed cache
  posted,   \* ledger_postings, as the totals account_posting_totals() returns
  txns,     \* ledger_transactions, in commit order
  lock,     \* which session holds each account row
  pc,       \* where each session is in post()
  req,      \* what each session was asked to post
  view,     \* balances in the session's identity map
  answer    \* the row handed back to the last caller, 0 for none or an error

vars == <<balance, posted, txns, lock, pc, req, view, answer>>

OptionalKeys == Keys \cup {NoKey}
Requests == [entry : Entry, key : OptionalKeys, reverses : Nat]
Rows == [entry : Entry, key : OptionalKeys, after : [Accounts -> Int], reversedBy : Nat]
Stages == {"idle", "locking", "locked", "inserted"}

Nothing == [type |-> "ADJUSTMENT", debit |-> [a \in Accounts |-> 0],
            credit |-> [a \in Accounts |-> 0]]
NoRequest == [entry |-> Nothing, key |-> NoKey, reverses |-> 0]
NoView == [a \in Accounts |-> 0]

TypeOK ==
  /\ balance \in [Accounts -> Int]
  /\ posted \in [debit : [Accounts -> Nat], credit : [Accounts -> Nat]]
  /\ txns \in Seq(Rows)
  /\ lock \in [Accounts -> Sessions \cup {Free}]
  /\ pc \in [Sessions -> Stages]
  /\ req \in [Sessions -> Requests]
  /\ view \in [Sessions -> [Accounts -> Int]]
  /\ answer \in [Sessions -> Nat]

Init ==
  /\ balance = [a \in Accounts |-> 0]
  /\ posted = [debit |-> [a \in Accounts |-> 0], credit |-> [a \in Accounts |-> 0]]
  /\ txns = <<>>
  /\ lock = [a \in Accounts |-> Free]
  /\ pc = [s \in Sessions |-> "idle"]
  /\ req = [s \in Sessions |-> NoRequest]
  /\ view = [s \in Sessions |-> NoView]
  /\ answer = [s \in Sessions |-> 0]

Recorded(k) == {i \in 1..Len(txns) : k # NoKey /\ txns[i].key = k}

(* Rows a caller can be answered with: the committed row carrying its key. *)
RowWithKey(k) == CHOOSE i \in Recorded(k) : TRUE

Held(s) == {a \in Accounts : lock[a] = s}
Waiting(s) == Touched(req[s].entry) \ Held(s)

Unlocked(s) == [a \in Accounts |-> IF lock[a] = s THEN Free ELSE lock[a]]

(* COMMIT and ROLLBACK both end the database transaction: its row locks    *)
(* are released, its identity map is expired, the caller gets row i.       *)
End(s, i) ==
  /\ pc' = [pc EXCEPT ![s] = "idle"]
  /\ view' = [view EXCEPT ![s] = NoView]
  /\ lock' = Unlocked(s)
  /\ answer' = [answer EXCEPT ![s] = i]

BooksUnchanged == UNCHANGED <<balance, posted, txns>>

InFlight == {s \in Sessions : pc[s] # "idle"}

(* Bug: a reversal blanks out the row it reverses.                         *)
BugMarked(i, j) ==
  [n \in 1..Len(txns) |->
     IF n = i THEN [txns[n] EXCEPT !.reversedBy = j, !.entry = Nothing] ELSE txns[n]]

(* The history with row i marked as reversed by row j; i = 0 marks none.   *)
Marked(i, j) ==
  [n \in 1..Len(txns) |->
     IF n = i THEN [txns[n] EXCEPT !.reversedBy = j] ELSE txns[n]]

-----------------------------------------------------------------------------
(* A request arrives: validation and the idempotency lookup, both without  *)
(* a lock.                                                                 *)

(* Bug: nothing compares the debits with the credits.                      *)
BugRejected(r) == SumFunction(r.entry.debit) = 0

Rejected(r) == ~Balanced(r.entry)
Conflicting(r) == \E i \in Recorded(r.key) : txns[i].entry # r.entry

Fails(s, r) ==
  /\ Rejected(r) \/ Conflicting(r)
  /\ req' = [req EXCEPT ![s] = r]
  /\ answer' = [answer EXCEPT ![s] = 0]
  /\ UNCHANGED <<balance, posted, txns, lock, pc, view>>

(* The recorded row is handed back.  A reversal marks its target all the   *)
(* same, as reversed by that row.                                          *)
Replays(s, r) ==
  /\ ~Rejected(r) /\ ~Conflicting(r)
  /\ Recorded(r.key) # {}
  /\ req' = [req EXCEPT ![s] = r]
  /\ answer' = [answer EXCEPT ![s] = RowWithKey(r.key)]
  /\ txns' = Marked(r.reverses, RowWithKey(r.key))
  /\ UNCHANGED <<balance, posted, lock, pc, view>>

(* The caller's get_or_create_account() has put the accounts, with the     *)
(* balances of this moment, into the identity map.                         *)
Proceeds(s, r) ==
  /\ Len(txns) + Cardinality(InFlight) < MaxTransactions
  /\ ~Rejected(r)
  /\ Recorded(r.key) = {}
  /\ req' = [req EXCEPT ![s] = r]
  /\ pc' = [pc EXCEPT ![s] = "locking"]
  /\ view' = [view EXCEPT ![s] = balance]
  /\ answer' = [answer EXCEPT ![s] = 0]
  /\ UNCHANGED <<balance, posted, txns, lock>>

Post(s, r) ==
  /\ pc[s] = "idle"
  /\ Fails(s, r) \/ Replays(s, r) \/ Proceeds(s, r)

Ask(s, e, k) == Post(s, [entry |-> e, key |-> k, reverses |-> 0])

(* reverse() trusts the row it was handed: nothing locks the transaction   *)
(* being reversed, and it is not read again before the mirror is posted.   *)
Reverse(s, i, k) ==
  /\ txns[i].reversedBy = 0
  /\ Post(s, [entry |-> Mirrored(txns[i].entry), key |-> k, reverses |-> i])

-----------------------------------------------------------------------------
(* SELECT ... ORDER BY id FOR UPDATE with populate_existing: rows are      *)
(* locked one by one in id order, and each balance is read again once its  *)
(* lock is granted.                                                        *)

(* Bug: the debited accounts are locked first.                             *)
BugNextToLock(s, a) ==
  LET debited(x) == req[s].entry.debit[x] > 0 IN
  /\ a \in Waiting(s)
  /\ \A b \in Waiting(s) : \/ debited(a) /\ ~debited(b)
                           \/ debited(a) = debited(b) /\ Rank[a] <= Rank[b]

NextToLock(s, a) ==
  /\ a \in Waiting(s)
  /\ \A b \in Waiting(s) : Rank[a] <= Rank[b]

(* Bug: no populate_existing, so the balance stays the one loaded before.  *)
BugLockAccount(s, a) ==
  /\ pc[s] = "locking"
  /\ NextToLock(s, a)
  /\ lock[a] = Free
  /\ lock' = [lock EXCEPT ![a] = s]
  /\ pc' = [pc EXCEPT ![s] = IF Waiting(s) = {a} THEN "locked" ELSE "locking"]
  /\ BooksUnchanged
  /\ UNCHANGED <<req, view, answer>>

LockAccount(s, a) ==
  /\ pc[s] = "locking"
  /\ NextToLock(s, a)
  /\ lock[a] = Free
  /\ lock' = [lock EXCEPT ![a] = s]
  /\ view' = [view EXCEPT ![s][a] = balance[a]]
  /\ pc' = [pc EXCEPT ![s] = IF Waiting(s) = {a} THEN "locked" ELSE "locking"]
  /\ BooksUnchanged
  /\ UNCHANGED <<req, answer>>

(* An INSERT under the unique index waits while another session has an     *)
(* uncommitted row with the same key.                                      *)
KeyPending(s) ==
  \E t \in Sessions \ {s} : /\ pc[t] = "inserted"
                            /\ req[t].key = req[s].key
                            /\ req[s].key # NoKey

Refuse(s) ==
  /\ pc[s] = "locked"
  /\ ~Covered(view[s], req[s].entry)
  /\ End(s, 0)
  /\ BooksUnchanged
  /\ UNCHANGED req

(* Bug: the negative-balance guard is missing.                             *)
BugUnguarded(s) ==
  /\ pc[s] = "locked"
  /\ ~KeyPending(s)
  /\ Recorded(req[s].key) = {}
  /\ view' = [view EXCEPT ![s] = Applied(view[s], req[s].entry)]
  /\ pc' = [pc EXCEPT ![s] = "inserted"]
  /\ BooksUnchanged
  /\ UNCHANGED <<lock, req, answer>>

(* Bug: the key column has no unique index.                                *)
BugUnindexed(s) ==
  /\ pc[s] = "locked"
  /\ Covered(view[s], req[s].entry)
  /\ view' = [view EXCEPT ![s] = Applied(view[s], req[s].entry)]
  /\ pc' = [pc EXCEPT ![s] = "inserted"]
  /\ BooksUnchanged
  /\ UNCHANGED <<lock, req, answer>>

(* The transaction row, its postings and the new cached balances are       *)
(* flushed; nobody else sees them yet.                                     *)
InsertTransaction(s) ==
  /\ pc[s] = "locked"
  /\ Covered(view[s], req[s].entry)
  /\ ~KeyPending(s)
  /\ Recorded(req[s].key) = {}
  /\ view' = [view EXCEPT ![s] = Applied(view[s], req[s].entry)]
  /\ pc' = [pc EXCEPT ![s] = "inserted"]
  /\ BooksUnchanged
  /\ UNCHANGED <<lock, req, answer>>

(* The unique index rejects the row: another request with this key         *)
(* committed after the lookup.  The caller rolls back, reads the winner's  *)
(* row and returns it as its own success; reverse() has no such handler.   *)
LoseKeyRace(s) ==
  /\ pc[s] = "locked"
  /\ Covered(view[s], req[s].entry)
  /\ Recorded(req[s].key) # {}
  /\ End(s, IF req[s].reverses = 0 THEN RowWithKey(req[s].key) ELSE 0)
  /\ BooksUnchanged
  /\ UNCHANGED req

(* Bug: the running balance is taken before the postings are applied.      *)
BugRow(s) ==
  [entry |-> req[s].entry, key |-> req[s].key, after |-> balance, reversedBy |-> 0]

Row(s) == [entry |-> req[s].entry, key |-> req[s].key, after |-> view[s], reversedBy |-> 0]

Commit(s) ==
  /\ pc[s] = "inserted"
  /\ balance' = [a \in Accounts |->
                   IF a \in Touched(req[s].entry) THEN view[s][a] ELSE balance[a]]
  /\ posted' = [debit  |-> [a \in Accounts |-> posted.debit[a] + req[s].entry.debit[a]],
                credit |-> [a \in Accounts |-> posted.credit[a] + req[s].entry.credit[a]]]
  /\ txns' = Append(Marked(req[s].reverses, Len(txns) + 1), Row(s))
  /\ End(s, Len(txns) + 1)
  /\ UNCHANGED req

(* The request dies before its commit: the service around post() raised,   *)
(* PostgreSQL broke a deadlock, or the process was killed.                 *)
Rollback(s) ==
  /\ pc[s] # "idle"
  /\ End(s, 0)
  /\ BooksUnchanged
  /\ UNCHANGED req

Ends(s) == Refuse(s) \/ InsertTransaction(s) \/ LoseKeyRace(s) \/ Commit(s)

Next ==
  \E s \in Sessions :
    \/ \E e \in Entries, k \in OptionalKeys : Ask(s, e, k)
    \/ \E i \in 1..Len(txns), k \in OptionalKeys : Reverse(s, i, k)
    \/ \E a \in Accounts : LockAccount(s, a)
    \/ Ends(s)
    \/ Rollback(s)

Spec == Init /\ [][Next]_vars

(* A thread keeps executing its statements, and PostgreSQL queues waiters  *)
(* on a row in arrival order, so a lock that is released again and again   *)
(* is granted in the end.                                                  *)
Fairness ==
  \A s \in Sessions : SF_vars((\E a \in Accounts : LockAccount(s, a)) \/ Ends(s))

FairSpec == Spec /\ Fairness

-----------------------------------------------------------------------------
(* Properties.                                                             *)

(* Double entry: over all accounts, what was ever debited is what was ever *)
(* credited, the first check of reconcile().                               *)
BooksBalance == SumFunction(posted.debit) = SumFunction(posted.credit)

(* No update is lost: every cached balance is what its account's postings  *)
(* add up to, the second check of reconcile().                             *)
CacheMatchesPostings ==
  \A a \in Accounts : balance[a] = SignedDelta(a, posted.debit[a], posted.credit[a])

(* However many sessions spend from an account at once, no user's account  *)
(* is ever overdrawn.                                                      *)
NeverOverdrawn == \A a \in UserAccounts : balance[a] >= 0

(* An idempotency key moves money at most once, also for two requests      *)
(* that both passed the lookup.                                            *)
KeyPostsOnce ==
  \A i, j \in 1..Len(txns) :
    txns[i].key = txns[j].key /\ txns[i].key # NoKey => i = j

(* Statements add up: the balance printed after each line of an account    *)
(* is the previous line's plus what this line moved, in commit order.      *)
StatementsAddUp ==
  \A a \in Accounts : \A i \in 1..Len(txns) :
    a \in Touched(txns[i].entry) =>
      LET earlier == {j \in 1..(i-1) : a \in Touched(txns[j].entry)}
          before == IF earlier = {} THEN 0
                    ELSE txns[CHOOSE j \in earlier : \A h \in earlier : h <= j].after[a]
      IN  txns[i].after[a] = before + Delta(txns[i].entry, a)

(* Recorded money is history: rows are only appended, and nothing of a     *)
(* recorded row but its reversed mark ever changes.                        *)
OnlyAppends ==
  /\ Len(txns') >= Len(txns)
  /\ \A i \in 1..Len(txns) :
       [txns'[i] EXCEPT !.reversedBy = 0] = [txns[i] EXCEPT !.reversedBy = 0]

HistoryIsAppendOnly == [][OnlyAppends]_txns

(* Every request that starts to post is answered in the end.               *)
EveryRequestEnds == \A s \in Sessions : pc[s] # "idle" ~> pc[s] = "idle"

(* What the sessions do together is what the promise does in one step:     *)
(* each request takes effect at its commit, against the balances of that   *)
(* moment.                                                                 *)
History == [i \in 1..Len(txns) |-> [entry |-> txns[i].entry, key |-> txns[i].key]]

Promise == INSTANCE LedgerPromise WITH record <- History

KeepsPromise == Promise!Spec

(* model.py: the key's fingerprint is there "so replaying a key with       *)
(* *different* details is rejected instead of silently returning someone   *)
(* else's result".                                                         *)
AnsweredWithOwnResult ==
  \A s \in Sessions : answer[s] # 0 => txns[answer[s]].entry = req[s].entry

(* "This transaction has already been reversed.": a transaction is undone  *)
(* by at most one later one.                                               *)
ReversedAtMostOnce ==
  [][\A i \in 1..Len(txns) :
       txns[i].reversedBy # 0 => txns'[i].reversedBy = txns[i].reversedBy]_txns
=============================================================================
