---------------------------- MODULE AccountOpening ----------------------------
(***************************************************************************)
(* get_or_create_account() run by concurrent sessions: look the account    *)
(* up, insert it inside a savepoint when it is missing, and read again     *)
(* when the unique index rejects the insert.  The index covers the owner,  *)
(* and PostgreSQL holds NULL owners distinct, so it never rejects a second *)
(* row for one of the platform's own accounts.                             *)
(***************************************************************************)
EXTENDS Books, Sequences

CONSTANTS
  Openers,    \* database sessions, one per request being served
  Wants       \* the account sequences that requests ask for

ASSUME WantsAssumption == Wants \subseteq Seq(Accounts)

VARIABLES
  rows,      \* how many committed rows each account has
  pending,   \* the accounts a session has inserted and not committed
  want,      \* what is left of each session's request
  given,     \* the accounts its request has been handed so far
  opening    \* where each session is in get_or_create_account()

openingVars == <<rows, pending, want, given, opening>>

OpeningInit ==
  /\ rows = [a \in Accounts |-> 0]
  /\ pending = [s \in Openers |-> {}]
  /\ want = [s \in Openers |-> <<>>]
  /\ given = [s \in Openers |-> {}]
  /\ opening = [s \in Openers |-> "idle"]

OpeningTypeOK ==
  /\ rows \in [Accounts -> Nat]
  /\ pending \in [Openers -> SUBSET Accounts]
  /\ want \in [Openers -> Seq(Accounts)]
  /\ given \in [Openers -> SUBSET Accounts]
  /\ opening \in [Openers -> {"idle", "lookup", "insert", "reread"}]

(* The three accounts create_wallet_for_user() opens, always in this order. *)
OpenUserAccounts(u) ==
  <<Available(u), Protected(u), <<"USER_PENDING_SETTLEMENT", u>>>>

(* top_up() and withdraw() ask for two accounts, in opposite orders.       *)
ForTopUp(u) == <<External, Available(u)>>
ForWithdrawal(u) == <<Available(u), External>>

(* The rows a session's SELECT can see.                                    *)
Visible(s, a) == rows[a] > 0 \/ a \in pending[s]

(* The unique index compares owners, and NULL equals nothing.              *)
Indexed(a) == a[2] # Platform

(* Bug: no unique index.                                                   *)
BugTaken(a) == FALSE

Taken(a) == Indexed(a) /\ rows[a] > 0
BeingInserted(s, a) == Indexed(a) /\ \E t \in Openers \ {s} : a \in pending[t]

Move(s, stage, rest) ==
  /\ opening' = [opening EXCEPT ![s] = stage]
  /\ want' = [want EXCEPT ![s] = rest]

(* get_or_create_account() returns the account asked for.                  *)
Returns(s) ==
  /\ Move(s, "lookup", Tail(want[s]))
  /\ given' = [given EXCEPT ![s] = @ \cup {Head(want[s])}]

Begin(s, w) ==
  /\ opening[s] = "idle"
  /\ Move(s, "lookup", w)
  /\ UNCHANGED <<rows, pending, given>>

Find(s) ==
  /\ opening[s] = "lookup" /\ want[s] # <<>>
  /\ IF Visible(s, Head(want[s]))
     THEN Returns(s)
     ELSE Move(s, "insert", want[s]) /\ UNCHANGED given
  /\ UNCHANGED <<rows, pending>>

(* The insert waits while another session has the same row uncommitted.    *)
Insert(s) ==
  /\ opening[s] = "insert"
  /\ ~Taken(Head(want[s])) /\ ~BeingInserted(s, Head(want[s]))
  /\ pending' = [pending EXCEPT ![s] = @ \cup {Head(want[s])}]
  /\ Returns(s)
  /\ UNCHANGED rows

(* Bug: there is no savepoint, and the error is answered by rolling the    *)
(* session back.                                                           *)
BugCollide(s) ==
  /\ opening[s] = "insert"
  /\ Taken(Head(want[s]))
  /\ Move(s, "reread", want[s])
  /\ pending' = [pending EXCEPT ![s] = {}]
  /\ UNCHANGED <<rows, given>>

(* Bug: the insert is tried again instead of reading the row.              *)
BugStubborn(s) ==
  /\ opening[s] = "insert"
  /\ Taken(Head(want[s]))
  /\ Move(s, "insert", want[s])
  /\ UNCHANGED <<rows, pending, given>>

(* Only the savepoint is rolled back: what the session inserted before     *)
(* stays.                                                                  *)
Collide(s) ==
  /\ opening[s] = "insert"
  /\ Taken(Head(want[s]))
  /\ Move(s, "reread", want[s])
  /\ UNCHANGED <<rows, pending, given>>

EndOpening(s) ==
  /\ Move(s, "idle", <<>>)
  /\ pending' = [pending EXCEPT ![s] = {}]
  /\ given' = [given EXCEPT ![s] = {}]

(* The winner's row is returned.  Were it not there, the error would be    *)
(* raised again and the request would die.                                 *)
Reread(s) ==
  /\ opening[s] = "reread"
  /\ IF Visible(s, Head(want[s]))
     THEN Returns(s) /\ UNCHANGED pending
     ELSE EndOpening(s)
  /\ UNCHANGED rows

CommitAccounts(s) ==
  /\ opening[s] = "lookup" /\ want[s] = <<>>
  /\ rows' = [a \in Accounts |-> IF a \in pending[s] THEN rows[a] + 1 ELSE rows[a]]
  /\ EndOpening(s)

(* The request fails later on, or the process is killed.                   *)
RollbackAccounts(s) ==
  /\ opening[s] # "idle"
  /\ EndOpening(s)
  /\ UNCHANGED rows

Runs(s) == Find(s) \/ Insert(s) \/ Collide(s) \/ Reread(s) \/ CommitAccounts(s)

OpeningNext ==
  \E s \in Openers :
    \/ \E w \in Wants : Begin(s, w)
    \/ Runs(s)
    \/ RollbackAccounts(s)

OpeningSpec == OpeningInit /\ [][OpeningNext]_openingVars

(* A thread keeps executing its statements, and a waiting insert is woken  *)
(* when the other transaction ends.                                        *)
OpeningFairness == \A s \in Openers : SF_openingVars(Runs(s))
FairOpeningSpec == OpeningSpec /\ OpeningFairness

-----------------------------------------------------------------------------
(* "get or create the user's available account" is safe under concurrency: *)
(* an owner never has two accounts for one purpose.                        *)
OneAccountPerOwner == \A a \in UserAccounts : rows[a] <= 1

(* get_or_create_account(): "Without the savepoint that rejection would    *)
(* poison the caller's whole transaction": losing the race for one account *)
(* costs a request none of those it was handed before, which it will post  *)
(* to.                                                                     *)
GivenAccountsExist == \A s \in Openers : \A a \in given[s] : Visible(s, a)

(* Requests that wait for each other's rows are not stuck: whatever is     *)
(* begun ends.                                                             *)
EveryOpeningEnds == \A s \in Openers : opening[s] # "idle" ~> opening[s] = "idle"

(* get_or_create_account(): "Two requests can both find no account and     *)
(* both try to create one - the shared system accounts make this routine,  *)
(* not theoretical - and the unique index rejects the loser."              *)
OneAccountPerPurpose == \A a \in Accounts : rows[a] <= 1
=============================================================================
