---------------------------- MODULE LedgerProofs ----------------------------
(***************************************************************************)
(* Machine-checked safety of the ledger and of the opening of its          *)
(* accounts, for any number of sessions, accounts, keys and movements.     *)
(***************************************************************************)
EXTENDS Ledger, AccountOpening, BooksProofs, FiniteSetTheorems, WellFoundedInduction, TLAPS

-----------------------------------------------------------------------------
(* The strengthening.                                                      *)

(* Only a session that is posting holds locks, and only on its own rows.   *)
LocksHaveOwners ==
  \A a \in Accounts, s \in Sessions :
    lock[a] = s => pc[s] # "idle" /\ a \in Touched(req[s].entry)

(* Past the locking stage a session holds every row it touches.            *)
AllRowsLocked ==
  \A s \in Sessions : \A a \in Touched(req[s].entry) :
    pc[s] \in {"locked", "inserted"} => lock[a] = s

(* A balance read under the lock stays the committed one until this        *)
(* session changes it: what populate_existing is for.                      *)
LockedViewIsFresh ==
  \A s \in Sessions, a \in Accounts :
    lock[a] = s /\ pc[s] \in {"locking", "locked"} => view[s][a] = balance[a]

(* What a session is about to commit: its entry on top of the committed    *)
(* balances, covered, balanced, and under a key nobody has recorded.       *)
StagedIsSound ==
  \A s \in Sessions : pc[s] = "inserted" =>
    /\ \A a \in Touched(req[s].entry) :
         view[s][a] = balance[a] + Delta(req[s].entry, a)
    /\ \A a \in Touched(req[s].entry) \cap UserAccounts : view[s][a] >= 0
    /\ Recorded(req[s].key) = {}

(* No two sessions have inserted rows under the same key.                  *)
StagedKeysDiffer ==
  \A s, t \in Sessions :
    /\ pc[s] = "inserted" /\ pc[t] = "inserted"
    /\ req[s].key = req[t].key /\ req[s].key # NoKey
    => s = t

(* Unbalanced postings never get past validation.                          *)
OnlyBalancedProceed == \A s \in Sessions : pc[s] # "idle" => Balanced(req[s].entry)

Strengthening ==
  /\ LocksHaveOwners
  /\ AllRowsLocked
  /\ LockedViewIsFresh
  /\ StagedIsSound
  /\ StagedKeysDiffer
  /\ OnlyBalancedProceed

IInv ==
  /\ TypeOK
  /\ Strengthening
  /\ CacheMatchesPostings
  /\ NeverOverdrawn
  /\ KeyPostsOnce

-----------------------------------------------------------------------------
(* Operators.                                                              *)

(* Marking a row as reversed keeps the history's length, types, entries    *)
(* and keys.                                                               *)
LEMMA MarkedKeeps ==
  ASSUME TypeOK, NEW i, NEW j \in Nat
  PROVE  /\ Marked(i, j) \in Seq(Rows)
         /\ Len(Marked(i, j)) = Len(txns)
         /\ \A n \in 1..Len(txns) : /\ Marked(i, j)[n].entry = txns[n].entry
                                    /\ Marked(i, j)[n].key = txns[n].key
  <1>1. txns \in Seq(Rows) /\ Len(txns) \in Nat
    BY DEF TypeOK
  <1>2. \A n \in 1..Len(txns) : txns[n] \in Rows
    BY <1>1
  <1>3. \A n \in 1..Len(txns) : /\ Marked(i, j)[n] \in Rows
                                /\ Marked(i, j)[n].entry = txns[n].entry
                                /\ Marked(i, j)[n].key = txns[n].key
    BY <1>2 DEF Marked, Rows
  <1>4. Marked(i, j) \in Seq(Rows) /\ Len(Marked(i, j)) = Len(txns)
    BY <1>1, <1>3 DEF Marked
  <1> QED BY <1>3, <1>4

-----------------------------------------------------------------------------
(* The invariant holds initially.                                          *)
LEMMA InitIInv == Init => IInv
  <1> SUFFICES ASSUME Init PROVE IInv
    OBVIOUS
  <1>1. NoRequest \in Requests /\ NoView \in [Accounts -> Int]
    BY DEF NoRequest, Nothing, NoView, Requests, Entry, TransactionTypes, OptionalKeys
  <1>2. TypeOK
    BY <1>1 DEF Init, TypeOK, Stages
  <1>3. Strengthening
    BY NullsAssumption DEF Init, Strengthening, LocksHaveOwners, AllRowsLocked,
       LockedViewIsFresh, StagedIsSound, StagedKeysDiffer, OnlyBalancedProceed
  <1>4. CacheMatchesPostings
    BY DEF Init, CacheMatchesPostings, SignedDelta
  <1>5. NeverOverdrawn /\ KeyPostsOnce
    BY DEF Init, NeverOverdrawn, UserAccounts, KeyPostsOnce
  <1> QED BY <1>2, <1>3, <1>4, <1>5 DEF IInv

(* Leaving the database transaction without committing: rollback, refusal, *)
(* a lost key race.                                                        *)
LEMMA EndPreserves ==
  ASSUME IInv, NEW s \in Sessions, NEW i \in Nat,
         End(s, i), BooksUnchanged, UNCHANGED req
  PROVE  IInv'
  <1> USE DEF IInv, Strengthening
  <1>1. TypeOK'
    BY DEF TypeOK, End, BooksUnchanged, Unlocked, NoView, Stages
  <1>2. \A a \in Accounts, t \in Sessions : lock'[a] = t => lock[a] = t /\ t # s
    BY NullsAssumption DEF TypeOK, End, Unlocked
  <1>3. \A a \in Accounts, t \in Sessions : lock[a] = t /\ t # s => lock'[a] = t
    BY DEF TypeOK, End, Unlocked
  <1>4. pc'[s] = "idle" /\ \A t \in Sessions : t # s => pc'[t] = pc[t] /\ view'[t] = view[t]
    BY DEF TypeOK, End
  <1>5. LocksHaveOwners' /\ LockedViewIsFresh'
    BY <1>2, <1>4 DEF LocksHaveOwners, LockedViewIsFresh, BooksUnchanged, Touched
  <1>6. AllRowsLocked'
    BY <1>3, <1>4 DEF AllRowsLocked, Touched
  <1>7. StagedIsSound'
    BY <1>4 DEF StagedIsSound, BooksUnchanged, Recorded
  <1>8. StagedKeysDiffer' /\ OnlyBalancedProceed'
    BY <1>4 DEF StagedKeysDiffer, OnlyBalancedProceed
  <1>9. CacheMatchesPostings' /\ NeverOverdrawn' /\ KeyPostsOnce'
    BY DEF BooksUnchanged, CacheMatchesPostings, NeverOverdrawn, KeyPostsOnce
  <1> QED BY <1>1, <1>5, <1>6, <1>7, <1>8, <1>9

(* The row a caller is answered with is a row number.                      *)
LEMMA RowWithKeyType ==
  ASSUME NEW k, Recorded(k) # {}
  PROVE  RowWithKey(k) \in 1..Len(txns) /\ RowWithKey(k) \in Recorded(k)
  BY DEF RowWithKey, Recorded

(* A request arrives.                                                      *)
LEMMA PostPreserves ==
  ASSUME IInv, NEW s \in Sessions, NEW r \in Requests, Post(s, r)
  PROVE  IInv'
  <1> USE DEF IInv, Strengthening
  <1>0. pc[s] = "idle" /\ txns \in Seq(Rows) /\ Len(txns) \in Nat
    BY DEF Post, TypeOK
  <1>1. \A a \in Accounts : lock[a] # s
    BY <1>0 DEF LocksHaveOwners
  <1>2. CASE Fails(s, r)
    <2>1. TypeOK'
      BY <1>2 DEF TypeOK, Fails
    <2>2. LocksHaveOwners' /\ LockedViewIsFresh' /\ AllRowsLocked'
      BY <1>0, <1>1, <1>2 DEF LocksHaveOwners, LockedViewIsFresh, AllRowsLocked,
         Fails, Touched, TypeOK
    <2>3. StagedIsSound' /\ StagedKeysDiffer' /\ OnlyBalancedProceed'
      BY <1>0, <1>2 DEF StagedIsSound, StagedKeysDiffer, OnlyBalancedProceed,
         Fails, Recorded, TypeOK
    <2>4. CacheMatchesPostings' /\ NeverOverdrawn' /\ KeyPostsOnce'
      BY <1>2 DEF Fails, CacheMatchesPostings, NeverOverdrawn, KeyPostsOnce
    <2> QED BY <2>1, <2>2, <2>3, <2>4
  <1>3. CASE Replays(s, r)
    <2>0. RowWithKey(r.key) \in Nat
      BY <1>0, <1>3, RowWithKeyType DEF Replays
    <2>1. /\ txns' \in Seq(Rows)
          /\ Len(txns') = Len(txns)
          /\ \A n \in 1..Len(txns) : txns'[n].key = txns[n].key
      BY <1>3, <2>0, MarkedKeeps DEF Replays
    <2>2. TypeOK'
      BY <1>3, <2>0, <2>1 DEF TypeOK, Replays
    <2>3. LocksHaveOwners' /\ LockedViewIsFresh' /\ AllRowsLocked'
      BY <1>0, <1>1, <1>3 DEF LocksHaveOwners, LockedViewIsFresh, AllRowsLocked,
         Replays, Touched, TypeOK
    <2>4. \A k : Recorded(k)' = Recorded(k)
      BY <2>1 DEF Recorded
    <2>5. StagedIsSound' /\ StagedKeysDiffer' /\ OnlyBalancedProceed'
      BY <1>0, <1>3, <2>4 DEF StagedIsSound, StagedKeysDiffer, OnlyBalancedProceed,
         Replays, TypeOK
    <2>6. CacheMatchesPostings' /\ NeverOverdrawn'
      BY <1>3 DEF Replays, CacheMatchesPostings, NeverOverdrawn
    <2>7. KeyPostsOnce'
      BY <2>1 DEF KeyPostsOnce
    <2> QED BY <2>2, <2>3, <2>5, <2>6, <2>7
  <1>4. CASE Proceeds(s, r)
    <2>1. TypeOK'
      BY <1>4 DEF TypeOK, Proceeds, Stages
    <2>2. LocksHaveOwners' /\ LockedViewIsFresh' /\ AllRowsLocked'
      BY <1>0, <1>1, <1>4 DEF LocksHaveOwners, LockedViewIsFresh, AllRowsLocked,
         Proceeds, Touched, TypeOK
    <2>3. StagedIsSound' /\ StagedKeysDiffer'
      BY <1>0, <1>4 DEF StagedIsSound, StagedKeysDiffer, Proceeds, Recorded, TypeOK
    <2>4. OnlyBalancedProceed'
      BY <1>4 DEF OnlyBalancedProceed, Proceeds, Rejected, TypeOK
    <2>5. CacheMatchesPostings' /\ NeverOverdrawn' /\ KeyPostsOnce'
      BY <1>4 DEF Proceeds, CacheMatchesPostings, NeverOverdrawn, KeyPostsOnce
    <2> QED BY <2>1, <2>2, <2>3, <2>4, <2>5
  <1> QED BY <1>2, <1>3, <1>4 DEF Post

(* A row is locked and its balance read again.                             *)
LEMMA LockAccountPreserves ==
  ASSUME IInv, NEW s \in Sessions, NEW b \in Accounts, LockAccount(s, b)
  PROVE  IInv'
  <1> USE DEF IInv, Strengthening
  <1>1. TypeOK'
    BY DEF TypeOK, LockAccount, BooksUnchanged, Stages
  <1>2. /\ pc[s] = "locking" /\ lock[b] = Free /\ lock' = [lock EXCEPT ![b] = s]
        /\ b \in Waiting(s)
    BY DEF LockAccount, NextToLock
  <1>3. /\ pc'[s] \in {"locking", "locked"}
        /\ pc'[s] = "locked" => Waiting(s) = {b}
        /\ \A t \in Sessions \ {s} : pc'[t] = pc[t] /\ view'[t] = view[t]
        /\ \A a \in Accounts \ {b} : view'[s][a] = view[s][a]
        /\ view'[s][b] = balance[b]
    BY DEF LockAccount, TypeOK
  <1>4. LocksHaveOwners'
    BY <1>2, <1>3 DEF LocksHaveOwners, LockAccount, Touched, TypeOK, Waiting
  <1>5. LockedViewIsFresh'
    BY <1>2, <1>3, NullsAssumption DEF LockedViewIsFresh, LockAccount, BooksUnchanged, TypeOK
  <1>6. AllRowsLocked'
    <2> SUFFICES ASSUME NEW t \in Sessions, NEW a \in Touched(req[t].entry),
                        pc'[t] \in {"locked", "inserted"}
                 PROVE  lock'[a] = t
      BY DEF AllRowsLocked, LockAccount
    <2>0. a \in Accounts
      BY DEF Touched
    <2>1. CASE t = s
      BY <1>2, <1>3, <2>0, <2>1 DEF Waiting, Held, TypeOK
    <2>2. CASE t # s
      BY <1>2, <1>3, <2>0, <2>2, NullsAssumption DEF AllRowsLocked, TypeOK
    <2> QED BY <2>1, <2>2
  <1>7. StagedIsSound' /\ StagedKeysDiffer' /\ OnlyBalancedProceed'
    BY <1>2, <1>3 DEF StagedIsSound, StagedKeysDiffer, OnlyBalancedProceed,
       LockAccount, BooksUnchanged, Recorded
  <1>8. CacheMatchesPostings' /\ NeverOverdrawn' /\ KeyPostsOnce'
    BY DEF LockAccount, BooksUnchanged, CacheMatchesPostings, NeverOverdrawn, KeyPostsOnce
  <1> QED BY <1>1, <1>4, <1>5, <1>6, <1>7, <1>8

(* The transaction row and the new balances are flushed.                   *)
LEMMA InsertPreserves ==
  ASSUME IInv, NEW s \in Sessions, InsertTransaction(s)
  PROVE  IInv'
  <1> USE DEF IInv, Strengthening
  <1>0. req[s].entry \in Entry /\ view[s] \in [Accounts -> Int] /\ pc[s] = "locked"
    BY DEF TypeOK, Requests, InsertTransaction
  <1>1. TypeOK'
    BY <1>0, AppliedType DEF TypeOK, InsertTransaction, BooksUnchanged, Stages
  <1>2. /\ pc'[s] = "inserted"
        /\ \A t \in Sessions \ {s} : pc'[t] = pc[t] /\ view'[t] = view[t]
        /\ view'[s] = Applied(view[s], req[s].entry)
    BY DEF InsertTransaction, TypeOK
  <1>3. LocksHaveOwners' /\ AllRowsLocked'
    BY <1>0, <1>2 DEF LocksHaveOwners, AllRowsLocked, InsertTransaction, Touched
  <1>4. LockedViewIsFresh'
    BY <1>2 DEF LockedViewIsFresh, InsertTransaction, BooksUnchanged
  <1>5. StagedIsSound'
    <2>1. \A a \in Touched(req[s].entry) :
            a \in Accounts /\ view[s][a] = balance[a]
      BY <1>0 DEF AllRowsLocked, LockedViewIsFresh, Touched
    <2>2. \A a \in Touched(req[s].entry) :
            view'[s][a] = balance[a] + Delta(req[s].entry, a)
      BY <1>2, <2>1 DEF Applied
    <2>3. \A a \in Touched(req[s].entry) \cap UserAccounts : view'[s][a] >= 0
      BY <2>1, <2>2 DEF InsertTransaction, Covered
    <2> QED BY <1>2, <2>2, <2>3 DEF StagedIsSound, InsertTransaction, BooksUnchanged, Recorded
  <1>6. StagedKeysDiffer'
    BY <1>2 DEF StagedKeysDiffer, InsertTransaction, KeyPending
  <1>7. OnlyBalancedProceed'
    BY <1>0, <1>2 DEF OnlyBalancedProceed, InsertTransaction
  <1>8. CacheMatchesPostings' /\ NeverOverdrawn' /\ KeyPostsOnce'
    BY DEF InsertTransaction, BooksUnchanged, CacheMatchesPostings, NeverOverdrawn, KeyPostsOnce
  <1> QED BY <1>1, <1>3, <1>4, <1>5, <1>6, <1>7, <1>8

(* The new row follows the history; its key was not recorded before.       *)
LEMMA CommitRows ==
  ASSUME IInv, NEW s \in Sessions, Commit(s)
  PROVE  /\ txns' \in Seq(Rows)
         /\ Len(txns') = Len(txns) + 1
         /\ txns'[Len(txns) + 1] = Row(s)
         /\ \A n \in 1..Len(txns) : /\ txns'[n].entry = txns[n].entry
                                    /\ txns'[n].key = txns[n].key
  <1> USE DEF IInv
  <1> DEFINE n == Len(txns) + 1
             H == Marked(req[s].reverses, n)
  <1>1. txns \in Seq(Rows) /\ Len(txns) \in Nat /\ n \in Nat
    BY DEF TypeOK
  <1>2. Row(s) \in Rows /\ Row(s).key = req[s].key
    BY DEF Row, Rows, TypeOK, Requests
  <1>3. /\ H \in Seq(Rows) /\ Len(H) = Len(txns)
        /\ \A m \in 1..Len(txns) : H[m].entry = txns[m].entry /\ H[m].key = txns[m].key
    BY <1>1, MarkedKeeps
  <1>4. txns' = Append(H, Row(s))
    BY DEF Commit
  <1> HIDE DEF H
  <1> QED BY <1>1, <1>2, <1>3, <1>4

(* The commit publishes what the session staged.                           *)
LEMMA CommitPreserves ==
  ASSUME IInv, NEW s \in Sessions, Commit(s)
  PROVE  IInv'
  <1> USE DEF IInv, Strengthening
  <1>0. /\ req[s] \in Requests /\ req[s].entry \in Entry /\ pc[s] = "inserted"
        /\ view[s] \in [Accounts -> Int] /\ balance \in [Accounts -> Int]
        /\ req' = req
    BY DEF TypeOK, Requests, Commit
  <1>1. \A a \in Accounts : balance'[a] = balance[a] + Delta(req[s].entry, a)
    <2> SUFFICES ASSUME NEW a \in Accounts
                 PROVE  balance'[a] = balance[a] + Delta(req[s].entry, a)
      OBVIOUS
    <2>1. CASE a \in Touched(req[s].entry)
      BY <1>0, <2>1 DEF Commit, StagedIsSound
    <2>2. CASE a \notin Touched(req[s].entry)
      BY <1>0, <2>2, DeltaType DEF Commit
    <2> QED BY <2>1, <2>2
  <1>2. TypeOK'
    <2>1. txns' \in Seq(Rows) /\ Len(txns) + 1 \in Nat
      BY CommitRows DEF TypeOK
    <2>2. balance' \in [Accounts -> Int]
      BY <1>0 DEF Commit
    <2>3. posted' \in [debit : [Accounts -> Nat], credit : [Accounts -> Nat]]
      BY <1>0 DEF Commit, TypeOK, Entry
    <2>4. lock' \in [Accounts -> Sessions \cup {Free}]
      BY DEF Commit, End, Unlocked, TypeOK
    <2> QED BY <2>1, <2>2, <2>3, <2>4 DEF TypeOK, Commit, End, NoView, Stages
  <1>3. /\ \A a \in Accounts, t \in Sessions : lock'[a] = t => lock[a] = t /\ t # s
        /\ \A a \in Accounts, t \in Sessions : lock[a] = t /\ t # s => lock'[a] = t
        /\ pc'[s] = "idle"
        /\ \A t \in Sessions : t # s => pc'[t] = pc[t] /\ view'[t] = view[t]
    BY NullsAssumption DEF TypeOK, Commit, End, Unlocked
  <1>4. \A t \in Sessions, a \in Accounts : t # s /\ lock[a] = t => balance'[a] = balance[a]
    BY <1>0 DEF AllRowsLocked, Commit
  <1>5. LocksHaveOwners' /\ AllRowsLocked'
    BY <1>0, <1>3 DEF LocksHaveOwners, AllRowsLocked, Touched
  <1>6. LockedViewIsFresh'
    BY <1>3, <1>4 DEF LockedViewIsFresh
  <1>7. /\ Len(txns) \in Nat /\ Len(txns') = Len(txns) + 1
        /\ txns'[Len(txns) + 1].key = req[s].key
        /\ \A n \in 1..Len(txns) : txns'[n].key = txns[n].key
    <2>1. Row(s).key = req[s].key
      BY DEF Row
    <2>2. Len(txns) \in Nat
      BY DEF TypeOK
    <2>3. /\ Len(txns') = Len(txns) + 1
          /\ txns'[Len(txns) + 1] = Row(s)
          /\ \A n \in 1..Len(txns) : txns'[n].key = txns[n].key
      BY CommitRows
    <2> QED BY <2>1, <2>2, <2>3
  <1>8. StagedIsSound'
    <2> SUFFICES ASSUME NEW t \in Sessions, pc'[t] = "inserted"
                 PROVE  /\ \A a \in Touched(req[t].entry) :
                             view'[t][a] = balance'[a] + Delta(req[t].entry, a)
                        /\ \A a \in Touched(req[t].entry) \cap UserAccounts : view'[t][a] >= 0
                        /\ Recorded(req[t].key)' = {}
      BY <1>0 DEF StagedIsSound, Recorded
    <2>1. t # s /\ pc[t] = "inserted" /\ view'[t] = view[t]
      BY <1>3
    <2>2. \A a \in Touched(req[t].entry) : a \in Accounts /\ lock[a] = t
      BY <2>1 DEF AllRowsLocked, Touched
    <2>3. req[t].key = NoKey \/ req[t].key # req[s].key
      BY <1>0, <2>1 DEF StagedKeysDiffer
    <2>4. Recorded(req[t].key)' = {}
      <3>1. \A n \in 1..Len(txns) : req[t].key # NoKey => txns[n].key # req[t].key
        BY <2>1 DEF StagedIsSound, Recorded
      <3> QED BY <2>3, <3>1, <1>0, <1>7 DEF Recorded
    <2> QED BY <2>1, <2>2, <2>4, <1>4 DEF StagedIsSound
  <1>9. StagedKeysDiffer' /\ OnlyBalancedProceed'
    BY <1>0, <1>3 DEF StagedKeysDiffer, OnlyBalancedProceed
  <1>10. CacheMatchesPostings'
    BY <1>0, <1>1 DEF CacheMatchesPostings, Commit, TypeOK, Entry, Delta, SignedDelta
  <1>11. NeverOverdrawn'
    BY <1>0 DEF NeverOverdrawn, Commit, StagedIsSound, UserAccounts
  <1>12. KeyPostsOnce'
    <2>1. \A n \in 1..Len(txns) : req[s].key # NoKey => txns[n].key # req[s].key
      BY <1>0 DEF StagedIsSound, Recorded
    <2> QED BY <2>1, <1>7 DEF KeyPostsOnce
  <1> QED BY <1>2, <1>5, <1>6, <1>8, <1>9, <1>10, <1>11, <1>12

-----------------------------------------------------------------------------
(* The invariant is inductive.                                             *)
LEMMA NextPreserves == IInv /\ [Next]_vars => IInv'
  <1> SUFFICES ASSUME IInv, [Next]_vars PROVE IInv'
    OBVIOUS
  <1>1. ASSUME NEW s \in Sessions, NEW e \in Entries, NEW k \in OptionalKeys, Ask(s, e, k)
        PROVE  IInv'
    <2>1. [entry |-> e, key |-> k, reverses |-> 0] \in Requests
      BY EntriesAssumption DEF Requests
    <2> QED BY <1>1, <2>1, PostPreserves DEF Ask
  <1>2. ASSUME NEW s \in Sessions, NEW i \in 1..Len(txns), NEW k \in OptionalKeys,
               Reverse(s, i, k)
        PROVE  IInv'
    <2>1. txns[i] \in Rows /\ i \in Nat
      BY DEF IInv, TypeOK
    <2>2. [entry |-> Mirrored(txns[i].entry), key |-> k, reverses |-> i] \in Requests
      BY <2>1, MirroredType DEF Requests, Rows
    <2> QED BY <1>2, <2>2, PostPreserves DEF Reverse
  <1>3. ASSUME NEW s \in Sessions, NEW a \in Accounts, LockAccount(s, a)
        PROVE  IInv'
    BY <1>3, LockAccountPreserves
  <1>4. ASSUME NEW s \in Sessions, Ends(s)
        PROVE  IInv'
    <2>1. CASE Refuse(s)
      BY <2>1, EndPreserves DEF Refuse
    <2>2. CASE LoseKeyRace(s)
      <3>1. RowWithKey(req[s].key) \in Nat
        BY <2>2, RowWithKeyType DEF LoseKeyRace, IInv, TypeOK
      <3> QED BY <2>2, <3>1, EndPreserves DEF LoseKeyRace
    <2> QED BY <1>4, <2>1, <2>2, InsertPreserves, CommitPreserves DEF Ends
  <1>5. ASSUME NEW s \in Sessions, Rollback(s)
        PROVE  IInv'
    BY <1>5, EndPreserves DEF Rollback
  <1>6. CASE UNCHANGED vars
    BY <1>6 DEF vars, IInv, TypeOK, Strengthening, LocksHaveOwners, AllRowsLocked,
       LockedViewIsFresh, StagedIsSound, StagedKeysDiffer, OnlyBalancedProceed,
       CacheMatchesPostings, NeverOverdrawn, KeyPostsOnce, Recorded
  <1> QED BY <1>1, <1>2, <1>3, <1>4, <1>5, <1>6 DEF Next

(* The strengthening always holds.                                         *)
LEMMA Invariance == Spec => []IInv
  BY InitIInv, NextPreserves, PTL DEF Spec

(* Every variable keeps its type, whatever the sessions ask for.           *)
THEOREM LedgerTypeCorrect == Spec => []TypeOK
  BY Invariance, PTL DEF IInv

(* No update is lost: cached balances always equal what the postings add   *)
(* up to, for any number of concurrent sessions.                           *)
THEOREM NoLostUpdates == Spec => []CacheMatchesPostings
  BY Invariance, PTL DEF IInv

(* No interleaving of spenders overdraws a user.                           *)
THEOREM NoOverdraft == Spec => []NeverOverdrawn
  BY Invariance, PTL DEF IInv

(* No key is recorded twice.                                               *)
THEOREM AtMostOncePerKey == Spec => []KeyPostsOnce
  BY Invariance, PTL DEF IInv

(* Recorded rows are history: whatever happens next, no entry, key or      *)
(* printed balance of a recorded row changes, and no row disappears.       *)
LEMMA MarkedHistory ==
  ASSUME TypeOK, NEW i, NEW j \in Nat
  PROVE  \A n \in 1..Len(txns) :
           [Marked(i, j)[n] EXCEPT !.reversedBy = 0] = [txns[n] EXCEPT !.reversedBy = 0]
  <1> SUFFICES ASSUME NEW n \in 1..Len(txns)
               PROVE  [Marked(i, j)[n] EXCEPT !.reversedBy = 0]
                        = [txns[n] EXCEPT !.reversedBy = 0]
    OBVIOUS
  <1>1. txns[n] \in Rows
    BY DEF TypeOK
  <1>2. Marked(i, j)[n] = txns[n] \/ Marked(i, j)[n] = [txns[n] EXCEPT !.reversedBy = j]
    BY DEF Marked
  <1> QED BY <1>1, <1>2 DEF Rows

(* A commit appends one row and alters no recorded one but for its mark.   *)
LEMMA CommitHistory ==
  ASSUME IInv, NEW s \in Sessions, Commit(s)
  PROVE  /\ Len(txns') >= Len(txns)
         /\ \A n \in 1..Len(txns) :
              [txns'[n] EXCEPT !.reversedBy = 0] = [txns[n] EXCEPT !.reversedBy = 0]
  <1> DEFINE H == Marked(req[s].reverses, Len(txns) + 1)
  <1>1. txns \in Seq(Rows) /\ Len(txns) \in Nat /\ TypeOK /\ Len(txns) + 1 \in Nat
    BY DEF IInv, TypeOK
  <1>2. H \in Seq(Rows) /\ Len(H) = Len(txns)
    BY <1>1, MarkedKeeps
  <1>3. \A n \in 1..Len(txns) :
          [H[n] EXCEPT !.reversedBy = 0] = [txns[n] EXCEPT !.reversedBy = 0]
    BY <1>1, MarkedHistory
  <1>4. txns' = Append(H, Row(s))
    BY DEF Commit
  <1>5. \A n \in 1..Len(txns) : txns'[n] = H[n]
    <2> HIDE DEF H
    <2> QED BY <1>1, <1>2, <1>4
  <1>6. Len(txns') >= Len(txns)
    BY <1>1, CommitRows
  <1> QED BY <1>3, <1>5, <1>6

(* Only a commit or a marking replay changes the history or the balances.  *)
LEMMA WhatChangesTheBooks ==
  ASSUME [Next]_vars
  PROVE  \/ \E s \in Sessions : Commit(s)
         \/ \E s \in Sessions : \E r : Replays(s, r)
         \/ UNCHANGED <<balance, posted, txns>>
  <1> DEFINE Goal == \/ \E s \in Sessions : Commit(s)
                     \/ \E s \in Sessions : \E r : Replays(s, r)
                     \/ UNCHANGED <<balance, posted, txns>>
  <1>1. ASSUME NEW s \in Sessions, NEW r, Post(s, r) PROVE Goal
    BY <1>1 DEF Post, Fails, Proceeds
  <1>2. ASSUME NEW s \in Sessions, NEW a, LockAccount(s, a) PROVE Goal
    BY <1>2 DEF LockAccount, BooksUnchanged
  <1>3. ASSUME NEW s \in Sessions, Ends(s) \/ Rollback(s) PROVE Goal
    BY <1>3 DEF Ends, Rollback, Refuse, InsertTransaction, LoseKeyRace, BooksUnchanged
  <1>4. CASE UNCHANGED vars
    BY <1>4 DEF vars
  <1>5. ASSUME NEW s \in Sessions, NEW e, NEW k, Ask(s, e, k) PROVE Goal
    BY <1>1, <1>5 DEF Ask
  <1>6. ASSUME NEW s \in Sessions, NEW i, NEW k, Reverse(s, i, k) PROVE Goal
    BY <1>1, <1>6 DEF Reverse
  <1> HIDE DEF Goal
  <1>7. ASSUME Next PROVE Goal
    <2>1. PICK s \in Sessions :
            \/ \E e \in Entries, k \in OptionalKeys : Ask(s, e, k)
            \/ \E i \in 1..Len(txns), k \in OptionalKeys : Reverse(s, i, k)
            \/ \E a \in Accounts : LockAccount(s, a)
            \/ Ends(s) \/ Rollback(s)
      BY <1>7 DEF Next
    <2>2. CASE \E e \in Entries, k \in OptionalKeys : Ask(s, e, k)
      BY <2>2, <1>5
    <2>3. CASE \E i \in 1..Len(txns), k \in OptionalKeys : Reverse(s, i, k)
      BY <2>3, <1>6
    <2>4. CASE \E a \in Accounts : LockAccount(s, a)
      BY <2>4, <1>2
    <2> QED BY <2>1, <2>2, <2>3, <2>4, <1>3
  <1> QED BY <1>4, <1>7 DEF Goal

(* The two sides of the books grow by the two sides of the entry that is   *)
(* committed, which was balanced when it was let in.                       *)
LEMMA CommitBalances ==
  ASSUME IInv, BooksBalance, NEW s \in Sessions, Commit(s)
  PROVE  BooksBalance'
  <1> DEFINE d == req[s].entry.debit  c == req[s].entry.credit
             dsum == [a \in Accounts |-> posted.debit[a] + d[a]]
             csum == [a \in Accounts |-> posted.credit[a] + c[a]]
  <1>1. req[s].entry \in Entry /\ IsFiniteSet(Accounts)
    BY FinitenessAssumption DEF IInv, TypeOK, Requests
  <1>2. d \in [Accounts -> Int] /\ c \in [Accounts -> Int]
    BY <1>1 DEF Entry
  <1>3. posted.debit \in [Accounts -> Int] /\ posted.credit \in [Accounts -> Int]
    BY DEF IInv, TypeOK
  <1>4. SumFunction(d) = SumFunction(c)
    BY DEF IInv, Strengthening, OnlyBalancedProceed, Balanced, Commit
  <1>5. posted'.debit = dsum /\ posted'.credit = csum
    BY DEF Commit
  <1> HIDE DEF d, c
  <1>6. SumFunction(dsum) = SumFunction(posted.debit) + SumFunction(d)
    BY <1>1, <1>2, <1>3, SumsAdd
  <1>7. SumFunction(csum) = SumFunction(posted.credit) + SumFunction(c)
    BY <1>1, <1>2, <1>3, SumsAdd
  <1> HIDE DEF dsum, csum
  <1> QED BY <1>4, <1>5, <1>6, <1>7 DEF BooksBalance

(* Double entry holds for good: whatever is posted, reversed, replayed or  *)
(* rolled back, all debits together equal all credits together.            *)
THEOREM BooksStayBalanced == Spec => []BooksBalance
  <1>1. Init => BooksBalance
    BY DEF Init, BooksBalance
  <1>2. IInv /\ BooksBalance /\ [Next]_vars => BooksBalance'
    <2> SUFFICES ASSUME IInv, BooksBalance, [Next]_vars PROVE BooksBalance'
      OBVIOUS
    <2>1. ASSUME UNCHANGED posted PROVE BooksBalance'
      BY <2>1 DEF BooksBalance
    <2> QED BY <2>1, CommitBalances, WhatChangesTheBooks DEF Replays
  <1> QED BY <1>1, <1>2, Invariance, PTL DEF Spec

(* No step rewrites recorded money.                                        *)
THEOREM HistoryIsHistory == Spec => HistoryIsAppendOnly
  <1>1. IInv /\ [Next]_vars => [OnlyAppends]_txns
    <2> SUFFICES ASSUME IInv, [Next]_vars, txns' # txns PROVE OnlyAppends
      OBVIOUS
    <2>1. TypeOK
      BY DEF IInv
    <2>2. ASSUME NEW s \in Sessions, Commit(s) PROVE OnlyAppends
      BY <2>2, CommitHistory DEF OnlyAppends
    <2>3. ASSUME NEW s \in Sessions, NEW r, Replays(s, r) PROVE OnlyAppends
      <3>1. RowWithKey(r.key) \in Nat /\ Len(txns) \in Nat
        BY <2>1, <2>3, RowWithKeyType DEF Replays, TypeOK
      <3>2. txns' = Marked(r.reverses, RowWithKey(r.key))
        BY <2>3 DEF Replays
      <3>3. Len(txns') = Len(txns)
        BY <2>1, <3>1, <3>2, MarkedKeeps
      <3>4. \A i \in 1..Len(txns) :
              [txns'[i] EXCEPT !.reversedBy = 0] = [txns[i] EXCEPT !.reversedBy = 0]
        BY <2>1, <3>1, <3>2, MarkedHistory
      <3> QED BY <3>1, <3>3, <3>4 DEF OnlyAppends
    <2> QED BY <2>2, <2>3, WhatChangesTheBooks
  <1>2. QED BY <1>1, Invariance, PTL DEF Spec, HistoryIsAppendOnly

-----------------------------------------------------------------------------
(* Refinement: the sessions implement the one-step promise.                *)

(* A step that keeps the entries and keys of the history, and the          *)
(* balances, is no step of the promise.                                    *)
LEMMA SameHistoryStutters ==
  ASSUME balance' = balance, Len(txns') = Len(txns),
         \A n \in 1..Len(txns) : txns'[n].entry = txns[n].entry /\ txns'[n].key = txns[n].key
  PROVE  UNCHANGED <<balance, History>>
  BY DEF History

(* The promise's vocabulary is the ledger's own.                           *)
LEMMA SameBooks ==
  ASSUME NEW e, NEW bal
  PROVE  /\ Promise!Balanced(e) <=> Balanced(e)
         /\ Promise!Covered(bal, e) <=> Covered(bal, e)
         /\ Promise!Applied(bal, e) = Applied(bal, e)
  <1>1. Promise!SumFunction(e.debit) = SumFunction(e.debit)
    BY DEF Promise!SumFunction, Promise!SumFunctionOnSet, Promise!FoldFunctionOnSet,
           Promise!MapThenFoldSet, SumFunction, SumFunctionOnSet, FoldFunctionOnSet, MapThenFoldSet
  <1>2. Promise!SumFunction(e.credit) = SumFunction(e.credit)
    BY DEF Promise!SumFunction, Promise!SumFunctionOnSet, Promise!FoldFunctionOnSet,
           Promise!MapThenFoldSet, SumFunction, SumFunctionOnSet, FoldFunctionOnSet, MapThenFoldSet
  <1> QED
    BY <1>1, <1>2
       DEF Promise!Balanced, Promise!Covered, Promise!Applied, Balanced, Covered, Applied,
           Promise!Delta, Promise!SignedDelta, Promise!NormalBalance, Promise!Touched,
           Delta, SignedDelta, NormalBalance, Touched,
           Promise!UserAccounts, Promise!UserAccountTypes, UserAccounts, UserAccountTypes

(* A commit is the promise's one step.                                     *)
LEMMA CommitRecords ==
  ASSUME IInv, NEW s \in Sessions, Commit(s)
  PROVE  Promise!Next
  <1> DEFINE n == Len(txns) + 1
             e == req[s].entry
             k == req[s].key
  <1>1. /\ Len(txns) \in Nat /\ e \in Entry /\ balance \in [Accounts -> Int]
        /\ pc[s] = "inserted"
    BY DEF IInv, TypeOK, Requests, Commit
  <1>2. /\ Len(txns') = n
        /\ txns'[n].entry = e /\ txns'[n].key = k
        /\ \A i \in 1..Len(txns) : txns'[i].entry = txns[i].entry /\ txns'[i].key = txns[i].key
    <2>1. Row(s).entry = e /\ Row(s).key = k
      BY DEF Row
    <2> QED BY <2>1, CommitRows
  <1>3. History' = Append(History, [entry |-> e, key |-> k])
    BY <1>1, <1>2 DEF History
  <1>4. Len(History) = Len(txns) /\ Len(History') = n /\ History'[n] = [entry |-> e, key |-> k]
    BY <1>1, <1>2 DEF History
  <1>5. \A a \in Touched(e) : a \in Accounts /\ view[s][a] = balance[a] + Delta(e, a)
    BY <1>1 DEF IInv, Strengthening, StagedIsSound, Touched
  <1>6. balance' = Applied(balance, e)
    BY <1>1, <1>5, DeltaType DEF Commit, Applied
  <1>7. Covered(balance, e)
    BY <1>1, <1>5 DEF Covered, IInv, Strengthening, StagedIsSound
  <1>8. Balanced(e)
    BY <1>1 DEF IInv, Strengthening, OnlyBalancedProceed
  <1>9. k = NoKey \/ \A i \in 1..Len(History) : History[i].key # k
    <2>1. Recorded(k) = {}
      BY <1>1 DEF IInv, Strengthening, StagedIsSound
    <2> QED BY <2>1, <1>4 DEF Recorded, History
  <1>10. Promise!Record(e, k)
    <2> HIDE DEF e, k
    <2> QED BY <1>3, <1>6, <1>7, <1>8, <1>9, SameBooks DEF Promise!Record, Promise!Unused
  <1> HIDE DEF e, k, n
  <1>11. Len(History') = Len(History) + 1 /\ History'[Len(History')] = [entry |-> e, key |-> k]
    BY <1>1, <1>4 DEF n
  <1> QED BY <1>10, <1>11 DEF Promise!Next

(* Concurrent sessions keep the promise: the ledger is linearizable at     *)
(* commit.                                                                 *)
THEOREM LedgerKeepsPromise == Spec => KeepsPromise
  <1>1. Init => Promise!Init
    BY DEF Init, Promise!Init, History
  <1>2. IInv /\ [Next]_vars => [Promise!Next]_(Promise!vars)
    <2> SUFFICES ASSUME IInv, [Next]_vars
                 PROVE  Promise!Next \/ UNCHANGED <<balance, History>>
      BY DEF Promise!vars, History
    <2>1. TypeOK /\ Len(txns) \in Nat
      BY DEF IInv, TypeOK
    <2>2. CASE \E s \in Sessions : Commit(s)
      BY <2>2, CommitRecords
    <2>3. ASSUME NEW s \in Sessions, NEW r, Replays(s, r)
          PROVE  UNCHANGED <<balance, History>>
      <3>1. RowWithKey(r.key) \in Nat
        BY <2>1, <2>3, RowWithKeyType DEF Replays, TypeOK
      <3>2. txns' = Marked(r.reverses, RowWithKey(r.key)) /\ balance' = balance
        BY <2>3 DEF Replays
      <3>3. /\ Len(txns') = Len(txns)
            /\ \A n \in 1..Len(txns) : txns'[n].entry = txns[n].entry /\ txns'[n].key = txns[n].key
        BY <2>1, <3>1, <3>2, MarkedKeeps
      <3> QED BY <3>2, <3>3, SameHistoryStutters
    <2>4. CASE UNCHANGED <<balance, txns>>
      BY <2>4 DEF History
    <2> QED BY <2>2, <2>3, <2>4, WhatChangesTheBooks
  <1> QED BY <1>1, <1>2, Invariance, PTL DEF Spec, KeepsPromise, Promise!Spec

-----------------------------------------------------------------------------
(* Statements.                                                             *)

Lines(a) == {j \in 1..Len(txns) : a \in Touched(txns[j].entry)}

(* The last line of an account's statement shows the account's balance; an *)
(* account without lines is empty.                                         *)
LastLineIsBalance ==
  \A a \in Accounts :
    \/ balance[a] = 0 /\ Lines(a) = {}
    \/ \E j \in Lines(a) : txns[j].after[a] = balance[a] /\ \A h \in Lines(a) : h <= j

(* The lines of account a before line i, and the balance they end with.    *)
Earlier(a, i) == {j \in 1..(i - 1) : a \in Touched(txns[j].entry)}
Before(a, i) ==
  IF Earlier(a, i) = {} THEN 0
  ELSE txns[CHOOSE j \in Earlier(a, i) : \A h \in Earlier(a, i) : h <= j].after[a]

(* Of finitely many line numbers one is the last: the fewest lines that    *)
(* can follow a line of the set follow none.                               *)
LEMMA SomeLineIsLast ==
  ASSUME NEW n \in Nat, NEW E \in SUBSET (1..n), E # {}
  PROVE  \E j \in E : \A h \in E : h <= j
  <1> DEFINE From(j) == {h \in E : j <= h}
             C == {From(j) : j \in E}
  <1>1. IsFiniteSet(1..n)
    BY FS_Interval
  <1>2. IsWellFoundedOn(StrictSubsetOrdering(1..n), FiniteSubsetsOf(1..n))
    BY <1>1, FS_StrictSubsetOrderingWellFounded
  <1>3. FiniteSubsetsOf(1..n) = SUBSET (1..n)
    BY <1>1, FS_FiniteSubsetsOfFinite
  <1>4. C \in SUBSET (SUBSET (1..n)) /\ C # {}
    OBVIOUS
  <1>5. \E T \in C : \A U \in C : ~(<<U, T>> \in StrictSubsetOrdering(1..n))
    <2> HIDE DEF C
    <2> QED BY <1>2, <1>3, <1>4, WFMin
  <1>6. PICK j \in E : \A U \in C : ~(<<U, From(j)>> \in StrictSubsetOrdering(1..n))
    BY <1>5
  <1>7. ASSUME NEW h \in E, ~(h <= j) PROVE FALSE
    <2>0. \A x \in E : x \in Nat
      OBVIOUS
    <2>1. j \in Nat /\ h \in Nat /\ j < h
      BY <1>7, <2>0
    <2>2. j \in From(j) /\ j \notin From(h)
      BY <2>1
    <2>3. From(h) \subseteq From(j)
      <3> SUFFICES ASSUME NEW x \in From(h) PROVE x \in From(j)
        OBVIOUS
      <3>1. x \in E /\ h <= x
        OBVIOUS
      <3>2. x \in Nat
        BY <2>0, <3>1
      <3>3. j <= x
        BY <2>1, <3>1, <3>2
      <3> QED BY <3>1, <3>3
    <2>4. From(h) \in C /\ From(h) \in SUBSET (1..n) /\ From(j) \in SUBSET (1..n)
      OBVIOUS
    <2> HIDE DEF From, C
    <2> QED BY <1>6, <2>2, <2>3, <2>4 DEF StrictSubsetOrdering
  <1> QED BY <1>7

(* Statements that added up still do when recorded lines keep their        *)
(* entries and printed balances.                                           *)
LEMMA RecordedLinesStay ==
  ASSUME Len(txns) \in Nat, Len(txns') \in Nat, Len(txns') >= Len(txns),
         \A n \in 1..Len(txns) : /\ txns'[n].entry = txns[n].entry
                                 /\ txns'[n].after = txns[n].after
  PROVE  \A a \in Accounts : \A i \in 1..(Len(txns) + 1) :
           Earlier(a, i)' = Earlier(a, i) /\ Before(a, i)' = Before(a, i)
  <1> SUFFICES ASSUME NEW a \in Accounts, NEW i \in 1..(Len(txns) + 1)
               PROVE  Earlier(a, i)' = Earlier(a, i) /\ Before(a, i)' = Before(a, i)
    OBVIOUS
  <1>1. Earlier(a, i)' = Earlier(a, i)
    BY DEF Earlier, Touched
  <1>2. Earlier(a, i) \in SUBSET (1..Len(txns)) /\ Earlier(a, i) \in SUBSET (1..(i - 1))
    BY DEF Earlier
  <1>3. CASE Earlier(a, i) = {}
    BY <1>1, <1>3 DEF Before
  <1>4. CASE Earlier(a, i) # {}
    <2> DEFINE E == Earlier(a, i)
               j == CHOOSE l \in E : \A h \in E : h <= l
    <2>1. j \in E
      BY <1>2, <1>4, SomeLineIsLast
    <2>2. Before(a, i) = txns[j].after[a]
      BY <1>4 DEF Before
    <2>3. Before(a, i)' = txns'[j].after[a]
      BY <1>1, <1>4 DEF Before
    <2> HIDE DEF E, j
    <2>4. j \in 1..Len(txns)
      BY <1>2, <2>1 DEF E
    <2> QED BY <1>1, <2>2, <2>3, <2>4
  <1> QED BY <1>3, <1>4

(* The statements in these words.                                          *)
LEMMA AddUp ==
  StatementsAddUp <=>
    \A a \in Accounts : \A i \in 1..Len(txns) :
      a \in Touched(txns[i].entry) =>
        txns[i].after[a] = Before(a, i) + Delta(txns[i].entry, a)
  BY DEF StatementsAddUp, Before, Earlier

(* Marking a row as reversed keeps the balances it printed.                *)
LEMMA MarkedKeepsBalances ==
  ASSUME TypeOK, NEW i, NEW j \in Nat
  PROVE  \A n \in 1..Len(txns) : Marked(i, j)[n].after = txns[n].after
  <1> SUFFICES ASSUME NEW n \in 1..Len(txns)
               PROVE  Marked(i, j)[n].after = txns[n].after
    OBVIOUS
  <1>1. txns \in Seq(Rows)
    BY DEF TypeOK
  <1>2. txns[n] \in Rows
    BY <1>1
  <1>3. Marked(i, j)[n] = txns[n] \/ Marked(i, j)[n] = [txns[n] EXCEPT !.reversedBy = j]
    BY DEF Marked
  <1> QED BY <1>2, <1>3 DEF Rows

(* A step that keeps every balance, entry and printed balance keeps the    *)
(* statements.                                                             *)
LEMMA SameStatements ==
  ASSUME Len(txns) \in Nat, Len(txns') = Len(txns), balance' = balance,
         \A n \in 1..Len(txns) : /\ txns'[n].entry = txns[n].entry
                                 /\ txns'[n].after = txns[n].after,
         StatementsAddUp, LastLineIsBalance
  PROVE  StatementsAddUp' /\ LastLineIsBalance'
  <1>1. \A a \in Accounts : \A i \in 1..(Len(txns) + 1) : Before(a, i)' = Before(a, i)
    BY RecordedLinesStay
  <1>2. \A a \in Accounts : \A i \in 1..Len(txns') :
          a \in Touched(txns'[i].entry) =>
            txns'[i].after[a] = Before(a, i)' + Delta(txns'[i].entry, a)
    BY <1>1, AddUp
  <1>3. StatementsAddUp'
    BY <1>2 DEF StatementsAddUp, Before, Earlier
  <1>4. \A a \in Accounts : Lines(a)' = Lines(a)
    BY DEF Lines, Touched
  <1>5. LastLineIsBalance'
    <2> SUFFICES ASSUME NEW a \in Accounts
                 PROVE  \/ balance'[a] = 0 /\ Lines(a)' = {}
                        \/ \E j \in Lines(a)' : /\ txns'[j].after[a] = balance'[a]
                                                /\ \A h \in Lines(a)' : h <= j
      BY DEF LastLineIsBalance
    <2>1. CASE balance[a] = 0 /\ Lines(a) = {}
      BY <2>1, <1>4
    <2>2. ASSUME NEW j \in Lines(a), txns[j].after[a] = balance[a],
                 \A h \in Lines(a) : h <= j
          PROVE  /\ j \in Lines(a)' /\ txns'[j].after[a] = balance'[a]
                 /\ \A h \in Lines(a)' : h <= j
      <3>1. j \in 1..Len(txns)
        BY DEF Lines
      <3> QED BY <2>2, <3>1, <1>4
    <2> QED BY <2>1, <2>2 DEF LastLineIsBalance
  <1> QED BY <1>3, <1>5

(* The line a commit writes shows what the last line of each account it    *)
(* touches showed, plus what it moves: the balance was read under the lock *)
(* and still is the committed one.                                         *)
LEMMA CommitKeepsStatements ==
  ASSUME IInv, NEW s \in Sessions, Commit(s), StatementsAddUp, LastLineIsBalance
  PROVE  StatementsAddUp' /\ LastLineIsBalance'
  <1> DEFINE n == Len(txns) + 1
             e == req[s].entry
  <1>1. /\ TypeOK /\ Len(txns) \in Nat /\ n \in Nat /\ e \in Entry
        /\ balance \in [Accounts -> Int] /\ view[s] \in [Accounts -> Int]
        /\ pc[s] = "inserted"
    BY DEF IInv, TypeOK, Requests, Commit
  <1>2. /\ txns' \in Seq(Rows) /\ Len(txns') = n
        /\ txns'[n].entry = e /\ txns'[n].after = view[s]
        /\ \A i \in 1..Len(txns) : /\ txns'[i].entry = txns[i].entry
                                   /\ txns'[i].after = txns[i].after
    <2>1. Row(s).entry = e /\ Row(s).after = view[s]
      BY DEF Row
    <2>2. \A i \in 1..Len(txns) : txns'[i].after = txns[i].after
      <3> DEFINE H == Marked(req[s].reverses, n)
      <3>1. txns \in Seq(Rows)
        BY <1>1 DEF TypeOK
      <3>2. H \in Seq(Rows) /\ Len(H) = Len(txns)
        BY <1>1, MarkedKeeps
      <3>3. \A i \in 1..Len(txns) : H[i].after = txns[i].after
        BY <1>1, MarkedKeepsBalances
      <3>4. txns' = Append(H, Row(s))
        BY DEF Commit
      <3> HIDE DEF H
      <3> QED BY <1>1, <3>2, <3>3, <3>4
    <2> QED BY <2>1, <2>2, CommitRows
  <1>3. \A a \in Touched(e) : /\ a \in Accounts
                              /\ view[s][a] = balance[a] + Delta(e, a)
                              /\ balance'[a] = view[s][a]
    BY <1>1 DEF IInv, Strengthening, StagedIsSound, Touched, Commit
  <1>4. \A a \in Accounts \ Touched(e) : balance'[a] = balance[a]
    BY <1>1 DEF Commit
  <1> HIDE DEF n, e
  <1>5. \A a \in Accounts : \A i \in 1..n :
          Earlier(a, i)' = Earlier(a, i) /\ Before(a, i)' = Before(a, i)
    BY <1>1, <1>2, RecordedLinesStay DEF n
  <1>6. \A a \in Accounts : Before(a, n) = balance[a]
    <2> SUFFICES ASSUME NEW a \in Accounts PROVE Before(a, n) = balance[a]
      OBVIOUS
    <2>1. Earlier(a, n) = Lines(a)
      BY <1>1 DEF Earlier, Lines, n
    <2>2. CASE balance[a] = 0 /\ Lines(a) = {}
      BY <2>1, <2>2 DEF Before
    <2>3. ASSUME NEW j \in Lines(a), txns[j].after[a] = balance[a],
                 \A h \in Lines(a) : h <= j
          PROVE  Before(a, n) = balance[a]
      <3> DEFINE E == Lines(a)
                 l == CHOOSE x \in E : \A h \in E : h <= x
      <3>1. l \in E /\ \A h \in E : h <= l
        BY <2>3
      <3>2. Before(a, n) = txns[l].after[a]
        BY <2>1, <2>3 DEF Before
      <3>3. E \subseteq Nat
        BY DEF Lines
      <3> HIDE DEF E, l
      <3>4. j \in E /\ (\A h \in E : h <= j)
        BY <2>3 DEF E
      <3>5. l = j
        BY <3>1, <3>3, <3>4
      <3> QED BY <2>3, <3>2, <3>5
    <2> QED BY <2>2, <2>3 DEF LastLineIsBalance
  <1>7. StatementsAddUp'
    <2>1. \A a \in Accounts : \A i \in 1..Len(txns') :
            a \in Touched(txns'[i].entry) =>
              txns'[i].after[a] = Before(a, i)' + Delta(txns'[i].entry, a)
      <3> SUFFICES ASSUME NEW a \in Accounts, NEW i \in 1..n, a \in Touched(txns'[i].entry)
                   PROVE  txns'[i].after[a] = Before(a, i) + Delta(txns'[i].entry, a)
        BY <1>2, <1>5
      <3>1. CASE i \in 1..Len(txns)
        BY <3>1, <1>2, AddUp
      <3>2. CASE i = n
        BY <3>2, <1>2, <1>3, <1>6
      <3> QED BY <1>1, <3>1, <3>2 DEF n
    <2> QED BY <2>1 DEF StatementsAddUp, Before, Earlier
  <1>8. LastLineIsBalance'
    <2> SUFFICES ASSUME NEW a \in Accounts
                 PROVE  \/ balance'[a] = 0 /\ Lines(a)' = {}
                        \/ \E j \in Lines(a)' : /\ txns'[j].after[a] = balance'[a]
                                                /\ \A h \in Lines(a)' : h <= j
      BY DEF LastLineIsBalance
    <2>1. Lines(a)' = {i \in 1..n : a \in Touched(txns'[i].entry)}
      BY <1>2 DEF Lines, Touched
    <2>2. CASE a \in Touched(e)
      <3>1. n \in Lines(a)' /\ txns'[n].after[a] = balance'[a]
        BY <1>1, <1>2, <1>3, <2>1, <2>2 DEF n
      <3>2. \A h \in Lines(a)' : h <= n
        BY <1>1, <2>1
      <3> QED BY <3>1, <3>2
    <2>3. CASE a \notin Touched(e)
      <3>1. Lines(a)' = Lines(a)
        BY <1>1, <1>2, <2>1, <2>3 DEF Lines, n
      <3>2. balance'[a] = balance[a]
        BY <1>4, <2>3
      <3>3. \A j \in Lines(a) : txns'[j].after = txns[j].after
        BY <1>2 DEF Lines
      <3> QED BY <3>1, <3>2, <3>3 DEF LastLineIsBalance
    <2> QED BY <2>2, <2>3
  <1> QED BY <1>7, <1>8

(* post() prints on each line the balance it has just computed from the    *)
(* locked account row: read in commit order, the lines of an account add   *)
(* up, however many sessions were posting to it.                           *)
THEOREM StatementsHold == Spec => []StatementsAddUp
  <1> DEFINE I == StatementsAddUp /\ LastLineIsBalance
  <1>1. Init => I
    BY DEF Init, StatementsAddUp, LastLineIsBalance, Lines
  <1>2. IInv /\ I /\ [Next]_vars => I'
    <2> SUFFICES ASSUME IInv, I, [Next]_vars PROVE I'
      OBVIOUS
    <2>1. TypeOK /\ Len(txns) \in Nat
      BY DEF IInv, TypeOK
    <2>2. CASE \E s \in Sessions : Commit(s)
      BY <2>2, CommitKeepsStatements
    <2>3. ASSUME NEW s \in Sessions, NEW r, Replays(s, r)
          PROVE  I'
      <3>1. RowWithKey(r.key) \in Nat
        BY <2>1, <2>3, RowWithKeyType DEF Replays, TypeOK
      <3>2. txns' = Marked(r.reverses, RowWithKey(r.key)) /\ balance' = balance
        BY <2>3 DEF Replays
      <3>3. /\ Len(txns') = Len(txns)
            /\ \A n \in 1..Len(txns) : txns'[n].entry = txns[n].entry
        BY <2>1, <3>1, <3>2, MarkedKeeps
      <3>4. \A n \in 1..Len(txns) : txns'[n].after = txns[n].after
        BY <2>1, <3>1, <3>2, MarkedKeepsBalances
      <3> QED BY <2>1, <3>2, <3>3, <3>4, SameStatements
    <2>4. CASE UNCHANGED <<balance, txns>>
      BY <2>1, <2>4, SameStatements
    <2> QED BY <2>2, <2>3, <2>4, WhatChangesTheBooks
  <1> HIDE DEF I
  <1>3. I => StatementsAddUp
    BY DEF I
  <1> QED BY <1>1, <1>2, <1>3, Invariance, PTL DEF Spec

-----------------------------------------------------------------------------
(* Answers.  A caller that loses the insert race on its key is handed the  *)
(* winner's row without a look at the details (wallet/service.py, top_up,  *)
(* the IntegrityError handler).                                            *)

(* Requests being served at once under one key ask for the same posting.   *)
KeysTellDetails ==
  \A s, t \in InFlight :
    req[s].key = req[t].key /\ req[s].key # NoKey => req[s].entry = req[t].entry

(* What is recorded under the key of a request being served is what the    *)
(* request asks for: the lookup found nothing, so it came after.           *)
LateKeysAgree ==
  \A s \in Sessions : pc[s] # "idle" =>
    \A i \in Recorded(req[s].key) : txns[i].entry = req[s].entry

AnswersAreRows == \A s \in Sessions : answer[s] # 0 => answer[s] \in 1..Len(txns)

OwnAnswers == LateKeysAgree /\ AnswersAreRows /\ AnsweredWithOwnResult

(* An answer stays right while the history only grows and the request is   *)
(* the same.                                                               *)
LEMMA RightAnswersStay ==
  ASSUME Len(txns) \in Nat, Len(txns') \in Nat, Len(txns') >= Len(txns),
         \A n \in 1..Len(txns) : txns'[n].entry = txns[n].entry,
         AnswersAreRows, AnsweredWithOwnResult,
         NEW t \in Sessions, answer'[t] = answer[t], req'[t] = req[t], answer[t] # 0
  PROVE  answer'[t] \in 1..Len(txns') /\ txns'[answer'[t]].entry = req'[t].entry
  BY DEF AnswersAreRows, AnsweredWithOwnResult

(* Recorded rows stay what they were, and only a commit adds to a key.     *)
LEMMA SameRowsSameRecords ==
  ASSUME Len(txns') = Len(txns),
         \A n \in 1..Len(txns) : txns'[n].entry = txns[n].entry /\ txns'[n].key = txns[n].key,
         NEW k
  PROVE  Recorded(k)' = Recorded(k)
  BY DEF Recorded

(* A session that answers nobody but its own caller, with a row that is    *)
(* what the caller asked for, while no row is added.                       *)
LEMMA AnswerPreserves ==
  ASSUME IInv, OwnAnswers, NEW s \in Sessions,
         Len(txns') = Len(txns),
         \A n \in 1..Len(txns) : txns'[n].entry = txns[n].entry /\ txns'[n].key = txns[n].key,
         \A t \in Sessions \ {s} : /\ answer'[t] = answer[t] /\ req'[t] = req[t]
                                   /\ pc'[t] = pc[t],
         answer'[s] # 0 => /\ answer'[s] \in 1..Len(txns)
                           /\ txns[answer'[s]].entry = req'[s].entry,
         pc'[s] # "idle" => \A i \in Recorded(req'[s].key) : txns[i].entry = req'[s].entry
  PROVE  OwnAnswers'
  <1>1. Len(txns) \in Nat
    BY DEF IInv, TypeOK
  <1>2. \A k : Recorded(k)' = Recorded(k)
    BY SameRowsSameRecords
  <1>3. \A k : \A i \in Recorded(k) : i \in 1..Len(txns)
    BY DEF Recorded
  <1>4. LateKeysAgree'
    BY <1>2, <1>3 DEF OwnAnswers, LateKeysAgree
  <1>5. \A t \in Sessions : answer'[t] # 0 =>
          answer'[t] \in 1..Len(txns') /\ txns'[answer'[t]].entry = req'[t].entry
    <2> SUFFICES ASSUME NEW t \in Sessions, answer'[t] # 0
                 PROVE  answer'[t] \in 1..Len(txns') /\ txns'[answer'[t]].entry = req'[t].entry
      OBVIOUS
    <2>1. CASE t = s
      BY <2>1
    <2>2. CASE t # s
      BY <1>1, <2>2, RightAnswersStay DEF OwnAnswers
    <2> QED BY <2>1, <2>2
  <1> QED BY <1>4, <1>5 DEF OwnAnswers, AnswersAreRows, AnsweredWithOwnResult

(* A request arrives: replayed only against rows with the same details.    *)
LEMMA PostAnswers ==
  ASSUME IInv, OwnAnswers, NEW s \in Sessions, NEW r \in Requests, Post(s, r)
  PROVE  OwnAnswers'
  <1>0. pc[s] = "idle" /\ TypeOK /\ Len(txns) \in Nat
    BY DEF Post, IInv, TypeOK
  <1>1. CASE Fails(s, r)
    <2>1. /\ txns' = txns /\ answer'[s] = 0 /\ pc' = pc
          /\ \A t \in Sessions \ {s} : answer'[t] = answer[t] /\ req'[t] = req[t]
      BY <1>0, <1>1 DEF Fails, TypeOK
    <2> QED BY <1>0, <2>1, AnswerPreserves
  <1>2. CASE Replays(s, r)
    <2>1. /\ RowWithKey(r.key) \in 1..Len(txns)
          /\ RowWithKey(r.key) \in Recorded(r.key)
      BY <1>2, RowWithKeyType DEF Replays
    <2>2. txns[RowWithKey(r.key)].entry = r.entry
      BY <1>2, <2>1 DEF Replays, Conflicting
    <2>3. /\ txns' = Marked(r.reverses, RowWithKey(r.key))
          /\ answer'[s] = RowWithKey(r.key) /\ pc' = pc /\ req'[s] = r
          /\ \A t \in Sessions \ {s} : answer'[t] = answer[t] /\ req'[t] = req[t]
      BY <1>0, <1>2 DEF Replays, TypeOK
    <2>4. /\ Len(txns') = Len(txns)
          /\ \A n \in 1..Len(txns) : /\ txns'[n].entry = txns[n].entry
                                     /\ txns'[n].key = txns[n].key
      BY <1>0, <2>1, <2>3, MarkedKeeps
    <2> QED BY <1>0, <2>1, <2>2, <2>3, <2>4, AnswerPreserves
  <1>3. CASE Proceeds(s, r)
    <2>1. /\ txns' = txns /\ answer'[s] = 0 /\ req'[s] = r /\ Recorded(r.key) = {}
          /\ \A t \in Sessions \ {s} : /\ answer'[t] = answer[t] /\ req'[t] = req[t]
                                       /\ pc'[t] = pc[t]
      BY <1>0, <1>3 DEF Proceeds, TypeOK
    <2> QED BY <1>0, <2>1, AnswerPreserves
  <1> QED BY <1>1, <1>2, <1>3 DEF Post

(* A transaction ends without a row of its own.                            *)
LEMMA EndAnswers ==
  ASSUME IInv, OwnAnswers, NEW s \in Sessions, NEW i,
         End(s, i), BooksUnchanged, UNCHANGED req,
         i # 0 => i \in 1..Len(txns) /\ txns[i].entry = req[s].entry
  PROVE  OwnAnswers'
  <1>1. /\ txns' = txns /\ answer'[s] = i /\ pc'[s] = "idle" /\ req' = req
        /\ \A t \in Sessions \ {s} : answer'[t] = answer[t] /\ pc'[t] = pc[t]
    BY DEF End, BooksUnchanged, IInv, TypeOK
  <1> QED BY <1>1, AnswerPreserves

(* A commit adds a row to its key.  Whoever is being served under that key *)
(* asks for the same, when keys tell details.                              *)
LEMMA CommitAnswers ==
  ASSUME IInv, OwnAnswers, KeysTellDetails, NEW s \in Sessions, Commit(s)
  PROVE  OwnAnswers'
  <1> DEFINE n == Len(txns) + 1
  <1>1. /\ Len(txns) \in Nat /\ pc[s] = "inserted" /\ req' = req
        /\ answer'[s] = n /\ pc'[s] = "idle"
        /\ \A t \in Sessions \ {s} : answer'[t] = answer[t] /\ pc'[t] = pc[t]
    BY DEF IInv, TypeOK, Commit, End
  <1>2. /\ Len(txns') = n
        /\ txns'[n].entry = req[s].entry /\ txns'[n].key = req[s].key
        /\ \A i \in 1..Len(txns) : txns'[i].entry = txns[i].entry /\ txns'[i].key = txns[i].key
    <2>1. Row(s).entry = req[s].entry /\ Row(s).key = req[s].key
      BY DEF Row
    <2> QED BY <2>1, CommitRows
  <1>3. n \in Nat /\ n >= Len(txns) /\ n \in 1..n /\ 1..n = 1..Len(txns) \cup {n}
    BY <1>1
  <1>4. LateKeysAgree'
    <2> SUFFICES ASSUME NEW t \in Sessions, pc'[t] # "idle", NEW i \in Recorded(req[t].key)'
                 PROVE  txns'[i].entry = req[t].entry
      BY <1>1 DEF LateKeysAgree
    <2>1. t # s /\ pc[t] # "idle"
      BY <1>1
    <2>2. i \in 1..n /\ req[t].key # NoKey /\ txns'[i].key = req[t].key
      BY <1>1, <1>2 DEF Recorded
    <2> HIDE DEF n
    <2>3. CASE i = n
      BY <1>1, <1>2, <2>1, <2>2, <2>3 DEF KeysTellDetails, InFlight
    <2>4. CASE i # n
      <3>1. i \in 1..Len(txns)
        BY <1>3, <2>2, <2>4
      <3>2. i \in Recorded(req[t].key)
        BY <1>2, <2>2, <3>1 DEF Recorded
      <3> QED BY <1>2, <2>1, <3>1, <3>2 DEF OwnAnswers, LateKeysAgree
    <2> QED BY <2>3, <2>4
  <1> HIDE DEF n
  <1>5. \A t \in Sessions : answer'[t] # 0 =>
          answer'[t] \in 1..Len(txns') /\ txns'[answer'[t]].entry = req'[t].entry
    <2> SUFFICES ASSUME NEW t \in Sessions, answer'[t] # 0
                 PROVE  answer'[t] \in 1..Len(txns') /\ txns'[answer'[t]].entry = req'[t].entry
      OBVIOUS
    <2>1. CASE t = s
      BY <1>1, <1>2, <1>3, <2>1
    <2>2. CASE t # s
      BY <1>1, <1>2, <1>3, <2>2, RightAnswersStay DEF OwnAnswers
    <2> QED BY <2>1, <2>2
  <1> QED BY <1>4, <1>5 DEF OwnAnswers, AnswersAreRows, AnsweredWithOwnResult

(* Every other step leaves answers, requests and history alone.            *)
LEMMA QuietAnswers ==
  ASSUME IInv, OwnAnswers, NEW s \in Sessions,
         txns' = txns, req' = req, answer' = answer, pc[s] # "idle",
         \A t \in Sessions \ {s} : pc'[t] = pc[t]
  PROVE  OwnAnswers'
  <1>1. \A k : Recorded(k)' = Recorded(k)
    BY DEF Recorded
  <1> QED BY <1>1 DEF OwnAnswers, LateKeysAgree, AnswersAreRows, AnsweredWithOwnResult

LEMMA NextAnswers == IInv /\ OwnAnswers /\ KeysTellDetails /\ [Next]_vars => OwnAnswers'
  <1> SUFFICES ASSUME IInv, OwnAnswers, KeysTellDetails, [Next]_vars PROVE OwnAnswers'
    OBVIOUS
  <1>1. ASSUME NEW s \in Sessions, NEW e \in Entries, NEW k \in OptionalKeys, Ask(s, e, k)
        PROVE  OwnAnswers'
    <2>1. [entry |-> e, key |-> k, reverses |-> 0] \in Requests
      BY EntriesAssumption DEF Requests
    <2> QED BY <1>1, <2>1, PostAnswers DEF Ask
  <1>2. ASSUME NEW s \in Sessions, NEW i \in 1..Len(txns), NEW k \in OptionalKeys,
               Reverse(s, i, k)
        PROVE  OwnAnswers'
    <2>1. txns[i] \in Rows /\ i \in Nat
      BY DEF IInv, TypeOK
    <2>2. [entry |-> Mirrored(txns[i].entry), key |-> k, reverses |-> i] \in Requests
      BY <2>1, MirroredType DEF Requests, Rows
    <2> QED BY <1>2, <2>2, PostAnswers DEF Reverse
  <1>3. ASSUME NEW s \in Sessions, NEW a \in Accounts, LockAccount(s, a)
        PROVE  OwnAnswers'
    BY <1>3, QuietAnswers DEF LockAccount, BooksUnchanged, IInv, TypeOK
  <1>4. ASSUME NEW s \in Sessions, Ends(s)
        PROVE  OwnAnswers'
    <2>1. CASE Refuse(s)
      BY <2>1, EndAnswers DEF Refuse
    <2>2. CASE LoseKeyRace(s)
      <3>1. RowWithKey(req[s].key) \in 1..Len(txns) /\ RowWithKey(req[s].key) \in Recorded(req[s].key)
        BY <2>2, RowWithKeyType DEF LoseKeyRace
      <3>2. txns[RowWithKey(req[s].key)].entry = req[s].entry
        BY <2>2, <3>1 DEF LoseKeyRace, OwnAnswers, LateKeysAgree
      <3> QED BY <2>2, <3>1, <3>2, EndAnswers DEF LoseKeyRace
    <2>3. CASE InsertTransaction(s)
      BY <2>3, QuietAnswers DEF InsertTransaction, BooksUnchanged, IInv, TypeOK
    <2> QED BY <1>4, <2>1, <2>2, <2>3, CommitAnswers DEF Ends
  <1>5. ASSUME NEW s \in Sessions, Rollback(s)
        PROVE  OwnAnswers'
    BY <1>5, EndAnswers DEF Rollback
  <1>6. CASE UNCHANGED vars
    BY <1>6 DEF vars, OwnAnswers, LateKeysAgree, AnswersAreRows, AnsweredWithOwnResult, Recorded
  <1> QED BY <1>1, <1>2, <1>3, <1>4, <1>5, <1>6 DEF Next

(* A caller whose key stands for one posting among the requests being      *)
(* served is answered with its own result, also when it lost the race for  *)
(* the key.  The lookup needs no such thing: it compares the details.      *)
THEOREM OwnResultWhileKeysTell == Spec /\ []KeysTellDetails => []AnsweredWithOwnResult
  <1>1. Init => OwnAnswers
    BY DEF Init, OwnAnswers, LateKeysAgree, AnswersAreRows, AnsweredWithOwnResult
  <1>2. OwnAnswers => AnsweredWithOwnResult
    BY DEF OwnAnswers
  <1> QED BY <1>1, <1>2, Invariance, NextAnswers, PTL DEF Spec

-----------------------------------------------------------------------------
(* Opening the accounts, for any number of sessions that want any accounts *)
(* in any order.                                                           *)

(* A session that inserts or reads again knows which account it is about.  *)
SomethingWanted == \A s \in Openers : opening[s] \in {"insert", "reread"} => want[s] # <<>>

(* An owner's row that is inserted and not committed is the only one.      *)
PendingIsNew ==
  \A s \in Openers : \A a \in pending[s] :
    Indexed(a) => rows[a] = 0 /\ \A t \in Openers \ {s} : a \notin pending[t]

IndexHolds == \A a \in Accounts : Indexed(a) => rows[a] <= 1

OpeningInv ==
  /\ OpeningTypeOK
  /\ SomethingWanted
  /\ PendingIsNew
  /\ IndexHolds
  /\ GivenAccountsExist

-----------------------------------------------------------------------------
LEMMA OpeningInitInv == OpeningInit => OpeningInv
  BY DEF OpeningInit, OpeningInv, OpeningTypeOK, SomethingWanted, PendingIsNew, IndexHolds,
         GivenAccountsExist

(* What a session wants next is an account, and so is what it wants then.  *)
LEMMA WantedType ==
  ASSUME OpeningTypeOK, NEW s \in Openers, want[s] # <<>>
  PROVE  Head(want[s]) \in Accounts /\ Tail(want[s]) \in Seq(Accounts)
  BY DEF OpeningTypeOK

(* A step that only moves one session along keeps the invariant, if what   *)
(* the session is handed exists.                                           *)
LEMMA MovePreserves ==
  ASSUME OpeningInv, NEW s \in Openers, NEW stage \in {"idle", "lookup", "insert", "reread"},
         NEW rest \in Seq(Accounts), Move(s, stage, rest), UNCHANGED <<rows, pending>>,
         stage \in {"insert", "reread"} => rest # <<>>,
         given' \in [Openers -> SUBSET Accounts],
         \A t \in Openers : \A a \in given'[t] : Visible(t, a)
  PROVE  OpeningInv'
  <1> USE DEF OpeningInv, OpeningTypeOK, Move
  <1>1. OpeningTypeOK'
    OBVIOUS
  <1>2. SomethingWanted'
    BY DEF SomethingWanted
  <1>3. PendingIsNew'
    BY DEF PendingIsNew, Indexed
  <1>4. IndexHolds'
    BY DEF IndexHolds, Indexed
  <1>5. GivenAccountsExist'
    BY DEF GivenAccountsExist, Visible
  <1> QED BY <1>1, <1>2, <1>3, <1>4, <1>5

LEMMA InsertAccountPreserves ==
  ASSUME OpeningInv, NEW s \in Openers, Insert(s)
  PROVE  OpeningInv'
  <1> DEFINE a == Head(want[s])
  <1>1. want[s] # <<>>
    BY DEF OpeningInv, SomethingWanted, Insert
  <1>2. a \in Accounts /\ Tail(want[s]) \in Seq(Accounts)
    BY <1>1, WantedType DEF OpeningInv
  <1>3. pending' = [pending EXCEPT ![s] = @ \cup {a}] /\ rows' = rows
    BY DEF Insert
  <1>10. given' = [given EXCEPT ![s] = @ \cup {a}]
    BY DEF Insert, Returns
  <1>4. Indexed(a) => rows[a] = 0 /\ \A t \in Openers \ {s} : a \notin pending[t]
    BY <1>2 DEF Insert, Taken, BeingInserted, OpeningInv, OpeningTypeOK
  <1> HIDE DEF a
  <1>5. OpeningTypeOK'
    BY <1>2, <1>3, <1>10 DEF Insert, Returns, Move, OpeningInv, OpeningTypeOK
  <1>6. SomethingWanted'
    BY DEF Insert, Returns, Move, OpeningInv, OpeningTypeOK, SomethingWanted
  <1>7. PendingIsNew'
    BY <1>3, <1>4 DEF OpeningInv, OpeningTypeOK, PendingIsNew, Indexed
  <1>8. IndexHolds'
    BY <1>3 DEF OpeningInv, IndexHolds, Indexed
  <1>9. GivenAccountsExist'
    BY <1>3, <1>10 DEF OpeningInv, OpeningTypeOK, GivenAccountsExist, Visible
  <1> QED BY <1>5, <1>6, <1>7, <1>8, <1>9 DEF OpeningInv

(* A session that ends gives up what it had inserted.                      *)
LEMMA EndOpeningPreserves ==
  ASSUME OpeningInv, NEW s \in Openers, EndOpening(s), UNCHANGED rows
  PROVE  OpeningInv'
  <1> USE DEF OpeningInv, OpeningTypeOK, EndOpening, Move
  <1>1. OpeningTypeOK'
    OBVIOUS
  <1>2. SomethingWanted'
    BY DEF SomethingWanted
  <1>3. PendingIsNew'
    BY DEF PendingIsNew, Indexed
  <1>4. IndexHolds'
    BY DEF IndexHolds, Indexed
  <1>5. GivenAccountsExist'
    BY DEF GivenAccountsExist, Visible
  <1> QED BY <1>1, <1>2, <1>3, <1>4, <1>5

LEMMA CommitAccountsPreserves ==
  ASSUME OpeningInv, NEW s \in Openers, CommitAccounts(s)
  PROVE  OpeningInv'
  <1> USE DEF OpeningInv, OpeningTypeOK, CommitAccounts, EndOpening, Move
  <1>1. OpeningTypeOK'
    OBVIOUS
  <1>2. SomethingWanted'
    BY DEF SomethingWanted
  <1>3. PendingIsNew'
    BY DEF PendingIsNew, Indexed
  <1>4. IndexHolds'
    BY DEF IndexHolds, PendingIsNew, Indexed
  <1>5. GivenAccountsExist'
    BY DEF GivenAccountsExist, Visible
  <1> QED BY <1>1, <1>2, <1>3, <1>4, <1>5

LEMMA OpeningNextPreserves == OpeningInv /\ [OpeningNext]_openingVars => OpeningInv'
  <1> SUFFICES ASSUME OpeningInv, [OpeningNext]_openingVars PROVE OpeningInv'
    OBVIOUS
  <1>9. /\ given \in [Openers -> SUBSET Accounts]
        /\ \A t \in Openers : \A a \in given[t] : Visible(t, a)
    BY DEF OpeningInv, OpeningTypeOK, GivenAccountsExist
  <1>1. ASSUME NEW s \in Openers, NEW w \in Wants, Begin(s, w) PROVE OpeningInv'
    <2>1. w \in Seq(Accounts)
      BY WantsAssumption
    <2> QED BY <1>1, <2>1, <1>9, MovePreserves DEF Begin
  <1>2. ASSUME NEW s \in Openers, Find(s) PROVE OpeningInv'
    <2>1. /\ Tail(want[s]) \in Seq(Accounts) /\ want[s] \in Seq(Accounts)
          /\ Head(want[s]) \in Accounts /\ want[s] # <<>>
      BY <1>2, WantedType DEF Find, OpeningInv, OpeningTypeOK
    <2>2. CASE Visible(s, Head(want[s]))
      <3>1. Returns(s) /\ UNCHANGED <<rows, pending>>
        BY <1>2, <2>2 DEF Find
      <3>2. /\ given' \in [Openers -> SUBSET Accounts]
            /\ \A t \in Openers : \A a \in given'[t] : Visible(t, a)
        BY <2>1, <2>2, <3>1, <1>9 DEF Returns
      <3> QED BY <2>1, <3>1, <3>2, MovePreserves DEF Returns
    <2>3. CASE ~Visible(s, Head(want[s]))
      BY <1>2, <2>1, <2>3, <1>9, MovePreserves DEF Find
    <2> QED BY <2>2, <2>3
  <1>3. ASSUME NEW s \in Openers, Insert(s) PROVE OpeningInv'
    BY <1>3, InsertAccountPreserves
  <1>4. ASSUME NEW s \in Openers, Collide(s) PROVE OpeningInv'
    <2>1. want[s] # <<>> /\ want[s] \in Seq(Accounts)
      BY <1>4 DEF Collide, OpeningInv, OpeningTypeOK, SomethingWanted
    <2> QED BY <1>4, <2>1, <1>9, MovePreserves DEF Collide
  <1>5. ASSUME NEW s \in Openers, Reread(s) PROVE OpeningInv'
    <2>1. want[s] # <<>>
      BY <1>5 DEF Reread, OpeningInv, SomethingWanted
    <2>2. Tail(want[s]) \in Seq(Accounts) /\ Head(want[s]) \in Accounts
      BY <2>1, WantedType DEF OpeningInv
    <2>3. CASE Visible(s, Head(want[s]))
      <3>1. Returns(s) /\ UNCHANGED <<rows, pending>>
        BY <1>5, <2>3 DEF Reread
      <3>2. /\ given' \in [Openers -> SUBSET Accounts]
            /\ \A t \in Openers : \A a \in given'[t] : Visible(t, a)
        BY <2>2, <2>3, <3>1, <1>9 DEF Returns
      <3> QED BY <2>2, <3>1, <3>2, MovePreserves DEF Returns
    <2>4. CASE ~Visible(s, Head(want[s]))
      BY <1>5, <2>4, EndOpeningPreserves DEF Reread
    <2> QED BY <2>3, <2>4
  <1>6. ASSUME NEW s \in Openers, CommitAccounts(s) PROVE OpeningInv'
    BY <1>6, CommitAccountsPreserves
  <1>7. ASSUME NEW s \in Openers, RollbackAccounts(s) PROVE OpeningInv'
    BY <1>7, EndOpeningPreserves DEF RollbackAccounts
  <1>8. CASE UNCHANGED openingVars
    BY <1>8 DEF openingVars, OpeningInv, OpeningTypeOK, SomethingWanted, PendingIsNew, IndexHolds,
                GivenAccountsExist, Visible, Indexed
  <1> QED BY <1>1, <1>2, <1>3, <1>4, <1>5, <1>6, <1>7, <1>8 DEF OpeningNext, Runs

LEMMA OpeningInvariance == OpeningSpec => []OpeningInv
  BY OpeningInitInv, OpeningNextPreserves, PTL DEF OpeningSpec

-----------------------------------------------------------------------------
(* What follows of opening accounts.                                       *)

(* Every reachable state is well-typed.                                    *)
THEOREM OpeningTypeCorrect == OpeningSpec => []OpeningTypeOK
  <1>1. OpeningInv => OpeningTypeOK
    BY DEF OpeningInv
  <1> QED BY <1>1, OpeningInvariance, PTL

(* An owner's accounts are covered by the unique index.                    *)
LEMMA UserAccountsAreIndexed ==
  ASSUME NEW a \in UserAccounts
  PROVE  a \in Accounts /\ Indexed(a)
  BY AccountsAssumption, PlatformAssumption
  DEF UserAccounts, AccountRows, UserAccountTypes, SystemAccountTypes, Indexed

(* However many sessions open an owner's accounts at once, there is never  *)
(* more than one account for one purpose.                                  *)
THEOREM OneAccountEach == OpeningSpec => []OneAccountPerOwner
  <1>1. OpeningInv => OneAccountPerOwner
    BY UserAccountsAreIndexed DEF OpeningInv, IndexHolds, OneAccountPerOwner
  <1> QED BY <1>1, OpeningInvariance, PTL

(* Losing the race for an account costs a request none of those it was     *)
(* handed before, the savepoint being all that is rolled back.             *)
THEOREM GivenAccountsStay == OpeningSpec => []GivenAccountsExist
  <1>1. OpeningInv => GivenAccountsExist
    BY DEF OpeningInv
  <1> QED BY <1>1, OpeningInvariance, PTL
=============================================================================
