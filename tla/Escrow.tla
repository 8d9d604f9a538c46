------------------------------- MODULE Escrow -------------------------------
(***************************************************************************)
(* The life of one accepted project's milestones: funding, work, approval, *)
(* cancellation and dispute, as the services run them concurrently on      *)
(* PostgreSQL.  A handler first reads what it can without a lock, then     *)
(* locks the milestone row, checks again what it checks under the lock,    *)
(* moves money through ledger.post() (whose row locks it keeps), and       *)
(* commits everything at once.                                             *)
(*                                                                         *)
(* ledger.post() is one step here, which module Ledger justifies: what its *)
(* sessions do implements one indivisible step per posting.                *)
(***************************************************************************)
EXTENDS Books, Sequences, FiniteSets

CONSTANTS
  Milestones,          \* the milestones of the project
  Amount,              \* what each of them is worth
  client, receiver,    \* its two parties
  Funds,               \* what the client has topped up
  Sessions,            \* database sessions, one per request being served
  Ops,                 \* the operations that are called
  Keys, NoKey,         \* idempotency keys, and the absence of one
  Share,               \* what a split gives the receiver
  RevisionLimit,       \* milestones.revision_limit
  MaxDisputes,         \* bound on the disputes raised
  MaxCancellations,    \* bound on the cancellations requested
  MaxCodes             \* bound on the codes sent for one of them

ASSUME MilestonesAssumption == Milestones # {} /\ IsFiniteSet(Milestones)
ASSUME AmountAssumption == Amount \in [Milestones -> Nat \ {0}]
ASSUME PartiesAssumption ==
  /\ client # receiver
  /\ {Available(client), Protected(client), Available(receiver), External} \subseteq Accounts
ASSUME NumbersAssumption ==
  {Funds, Share, RevisionLimit, MaxDisputes, MaxCancellations, MaxCodes} \subseteq Nat
ASSUME KeysAssumption == NoKey \notin Keys

VARIABLES
  project,        \* projects.status
  milestone,      \* the milestone rows
  dispute,        \* the dispute rows, in the order they were raised
  cancellation,   \* the cancellation requests, in order, each with its codes
  balance,        \* the ledger's balances
  txns,           \* the ledger's transactions for these milestones
  pc,             \* how far each session's handler has come
  req,            \* what each session was asked to do
  seen,           \* the project status each session has loaded
  loaded,         \* the ACTIVE codes each session has loaded, or has locked
  staged          \* what each session will write when it commits

vars ==
  <<project, milestone, dispute, cancellation, balance, txns, pc, req, seen, loaded, staged>>

-----------------------------------------------------------------------------
(* Statuses.                                                               *)

AllowedTransitions ==
  [DRAFT                  |-> {"PENDING_FUNDING", "CANCELLED"},
   PENDING_FUNDING        |-> {"FUNDED", "CANCELLED"},
   FUNDED                 |-> {"IN_PROGRESS", "SUBMITTED", "DISPUTED", "CANCELLATION_REQUESTED"},
   IN_PROGRESS            |-> {"SUBMITTED", "DISPUTED", "CANCELLATION_REQUESTED"},
   SUBMITTED              |-> {"APPROVED", "CHANGES_REQUESTED", "DISPUTED"},
   CHANGES_REQUESTED      |-> {"SUBMITTED", "DISPUTED", "CANCELLATION_REQUESTED"},
   APPROVED               |-> {"PAYMENT_RELEASED"},
   DISPUTED               |-> {"APPROVED", "CANCELLED", "FUNDED"},
   CANCELLATION_REQUESTED |-> {"CANCELLED", "FUNDED", "DISPUTED"},
   PAYMENT_RELEASED       |-> {},
   CANCELLED              |-> {}]

MilestoneStatuses == DOMAIN AllowedTransitions

ProtectedStatuses ==
  {"FUNDED", "IN_PROGRESS", "SUBMITTED", "CHANGES_REQUESTED", "APPROVED", "DISPUTED",
   "CANCELLATION_REQUESTED"}

TerminalStatuses == {"PAYMENT_RELEASED", "CANCELLED"}

ProjectStatuses == {"ACTIVE", "UNDER_DISPUTE", "COMPLETED", "CANCELLED"}

OpenStatuses == {"OPEN", "AWAITING_RESPONSE"}

(* An admin's four ways to resolve a dispute are operations of their own.  *)
Resolutions == {"RELEASE_TO_RECEIVER", "REFUND_TO_CLIENT", "SPLIT", "NO_ACTION"}

(* The status each operation first asks for.                               *)
Via ==
  [fund_milestone       |-> "FUNDED",
   start_work           |-> "IN_PROGRESS",
   submit_milestone     |-> "SUBMITTED",
   request_changes      |-> "CHANGES_REQUESTED",
   approve_and_release  |-> "APPROVED",
   request_cancellation |-> "CANCELLATION_REQUESTED",
   verify_cancellation  |-> "CANCELLED",
   decline_cancellation |-> "FUNDED",
   raise_dispute        |-> "DISPUTED",
   RELEASE_TO_RECEIVER  |-> "APPROVED",
   REFUND_TO_CLIENT     |-> "CANCELLED",
   SPLIT                |-> "CANCELLED",
   NO_ACTION            |-> "FUNDED"]

(* These move no milestone.                                                *)
OpNames == DOMAIN Via \cup {"add_message", "resend_code"}

ASSUME OpsAssumption == Ops \subseteq OpNames

(* APPROVED is a moment, not a resting state.                              *)
Target(op) == IF Via[op] = "APPROVED" THEN "PAYMENT_RELEASED" ELSE Via[op]

-----------------------------------------------------------------------------
(* The state.                                                              *)

OptionalKeys == Keys \cup {NoKey}

(* n is the number of the dispute or the cancellation request meant.       *)
Requests == [op : OpNames, m : Milestones, n : Nat, key : OptionalKeys]

MilestoneRows ==
  [status : MilestoneStatuses, funding : Nat, release : Nat, revisions : Nat]
DisputeRows == [m : Milestones, status : OpenStatuses \cup {"RESOLVED"}]

(* A request's codes are numbered as they were sent.  Answers, attempts    *)
(* and expiry are module Codes'.                                           *)
CancellationRows ==
  [m : Milestones, status : {"AWAITING_RECEIVER", "CONFIRMED", "DECLINED"},
   sent : Nat, active : SUBSET Nat]
Transactions == [entry : Entry, key : OptionalKeys, m : Milestones]

NoRequest == [op |-> "start_work", m |-> CHOOSE m \in Milestones : TRUE, n |-> 0, key |-> NoKey]
Nothing == [project |-> "ACTIVE", tx |-> 0]

TypeOK ==
  /\ project \in ProjectStatuses
  /\ milestone \in [Milestones -> MilestoneRows]
  /\ dispute \in Seq(DisputeRows)
  /\ cancellation \in Seq(CancellationRows)
  /\ balance \in [Accounts -> Int]
  /\ txns \in Seq(Transactions)
  /\ pc \in [Sessions -> {"idle", "asked", "found", "coded", "locked", "settled"}]
  /\ req \in [Sessions -> Requests]
  /\ seen \in [Sessions -> ProjectStatuses]
  /\ loaded \in [Sessions -> SUBSET Nat]
  /\ staged \in [Sessions -> [project : ProjectStatuses, tx : Nat]]

(* The receiver has accepted and the client has topped up.                 *)
Init ==
  /\ project = "ACTIVE"
  /\ milestone = [m \in Milestones |->
                    [status |-> "PENDING_FUNDING", funding |-> 0, release |-> 0, revisions |-> 0]]
  /\ dispute = <<>>
  /\ cancellation = <<>>
  /\ balance = [a \in Accounts |-> IF a \in {External, Available(client)} THEN Funds ELSE 0]
  /\ txns = <<>>
  /\ pc = [s \in Sessions |-> "idle"]
  /\ req = [s \in Sessions |-> NoRequest]
  /\ seen = [s \in Sessions |-> "ACTIVE"]
  /\ loaded = [s \in Sessions |-> {}]
  /\ staged = [s \in Sessions |-> Nothing]

-----------------------------------------------------------------------------
(* Sessions.                                                               *)

Rows == <<project, milestone, dispute, cancellation, balance, txns>>

Begin(s, r, codes) ==
  /\ pc[s] = "idle"
  /\ pc' = [pc EXCEPT ![s] = "asked"]
  /\ req' = [req EXCEPT ![s] = r]
  /\ seen' = [seen EXCEPT ![s] = project]
  /\ loaded' = [loaded EXCEPT ![s] = codes]
  /\ UNCHANGED <<Rows, staged>>

(* COMMIT or ROLLBACK: the session's locks go, and what it had loaded.     *)
End(s) ==
  /\ pc' = [pc EXCEPT ![s] = "idle"]
  /\ req' = [req EXCEPT ![s] = NoRequest]
  /\ seen' = [seen EXCEPT ![s] = "ACTIVE"]
  /\ loaded' = [loaded EXCEPT ![s] = {}]
  /\ staged' = [staged EXCEPT ![s] = Nothing]

Goes(s, stage) == pc' = [pc EXCEPT ![s] = stage] /\ UNCHANGED <<Rows, req>>

OpenDisputes(m) ==
  {d \in DOMAIN dispute : dispute[d].m = m /\ dispute[d].status \in OpenStatuses}

(* The checks made before any lock, on rows that may change afterwards.    *)
PartyMoves ==
  {"fund_milestone", "submit_milestone", "request_changes", "approve_and_release"}

MilestoneOps ==
  PartyMoves \cup {"start_work", "request_cancellation", "raise_dispute"}

(* The bounds count the rows and the requests under way that may add one.  *)
WithinBound(op, n, bound) ==
  n + Cardinality({t \in Sessions : pc[t] # "idle" /\ req[t].op = op}) < bound

AskAboutMilestone(s, op, m, k) ==
  /\ op \in PartyMoves => project \in {"ACTIVE", "UNDER_DISPUTE"}
  /\ op = "raise_dispute" => OpenDisputes(m) = {} /\ WithinBound(op, Len(dispute), MaxDisputes)
  /\ op = "request_cancellation" => WithinBound(op, Len(cancellation), MaxCancellations)
  /\ k # NoKey => op \in {"fund_milestone", "approve_and_release"}
  /\ Begin(s, [op |-> op, m |-> m, n |-> 0, key |-> k], {})

(* A message changes a dispute's status only while it is OPEN.             *)
AskAboutDispute(s, op, d) ==
  /\ dispute[d].status \in IF op = "add_message" THEN {"OPEN"} ELSE OpenStatuses
  /\ Begin(s, [op |-> op, m |-> dispute[d].m, n |-> d, key |-> NoKey], {})

(* Resending and declining will write the codes that come with the request. *)
AskAboutCancellation(s, op, c) ==
  /\ cancellation[c].status = "AWAITING_RECEIVER"
  /\ op = "resend_code" => WithinBound(op, cancellation[c].sent, MaxCodes)
  /\ Begin(s, [op |-> op, m |-> cancellation[c].m, n |-> c, key |-> NoKey],
           IF op = "verify_cancellation" THEN {} ELSE cancellation[c].active)

-----------------------------------------------------------------------------
(* Under the milestone's row lock.                                         *)

(* Bug: the milestone is read without FOR UPDATE.                          *)
BugHeld(m) == FALSE

Held(m) == \E t \in Sessions : pc[t] \in {"locked", "settled"} /\ req[t].m = m

(* The milestone is about to be locked: the code rows, if any, already are. *)
Reaches(s) ==
  /\ pc[s] = IF req[s].op = "verify_cancellation" THEN "coded" ELSE "asked"
  /\ req[s].op \in DOMAIN Via
  /\ ~Held(req[s].m)

May(from, to) == to \in AllowedTransitions[from]

(* Bug: resolve() assigns statuses without asserting the transition.       *)
BugPermitted(r) ==
  LET row == milestone[r.m] IN
  /\ r.op = "raise_dispute" => row.status \in ProtectedStatuses
  /\ r.op \notin Resolutions \cup {"raise_dispute"} => May(row.status, Via[r.op])
  /\ r.op \in PartyMoves => row.status # "DISPUTED"
  /\ r.op = "fund_milestone" => row.funding = 0
  /\ r.op \in {"start_work", "submit_milestone", "approve_and_release"} => row.funding # 0
  /\ r.op = "approve_and_release" => row.release = 0

(* Everything a handler checks on the row it has locked.                   *)
Permitted(r) ==
  LET row == milestone[r.m] IN
  /\ IF r.op = "raise_dispute" THEN row.status \in ProtectedStatuses
                               ELSE May(row.status, Via[r.op])
  /\ r.op \in PartyMoves => row.status # "DISPUTED"
  /\ r.op = "fund_milestone" => row.funding = 0
  /\ r.op \in {"start_work", "submit_milestone", "approve_and_release"} => row.funding # 0
  /\ r.op = "approve_and_release" => row.release = 0
  /\ r.op = "submit_milestone" /\ row.status = "CHANGES_REQUESTED"
       => row.revisions < RevisionLimit
  /\ r.op = "SPLIT" => Share \in 1..(Amount[r.m] - 1)

(* Bug: a handler polls until the status permits what it was asked.        *)
BugRefuse(s) ==
  /\ Reaches(s)
  /\ ~Permitted(req[s])
  /\ UNCHANGED vars

Refuse(s) ==
  /\ Reaches(s)
  /\ ~Permitted(req[s])
  /\ End(s)
  /\ UNCHANGED Rows

(* Handlers that move no money do the rest in one step: nobody else can    *)
(* touch the locked milestone.                                             *)
Acts(s, op) == Reaches(s) /\ req[s].op = op /\ Permitted(req[s]) /\ End(s)

WithStatus(m, status) == [milestone EXCEPT ![m].status = status]

StartWork(s) ==
  /\ Acts(s, "start_work")
  /\ milestone' = WithStatus(req[s].m, "IN_PROGRESS")
  /\ UNCHANGED <<project, dispute, cancellation, balance, txns>>

SubmitMilestone(s) ==
  /\ Acts(s, "submit_milestone")
  /\ milestone' =
       [WithStatus(req[s].m, "SUBMITTED") EXCEPT ![req[s].m].revisions =
          IF milestone[req[s].m].status = "CHANGES_REQUESTED" THEN @ + 1 ELSE @]
  /\ UNCHANGED <<project, dispute, cancellation, balance, txns>>

RequestChanges(s) ==
  /\ Acts(s, "request_changes")
  /\ milestone' = WithStatus(req[s].m, "CHANGES_REQUESTED")
  /\ UNCHANGED <<project, dispute, cancellation, balance, txns>>

RequestCancellation(s) ==
  /\ Acts(s, "request_cancellation")
  /\ milestone' = WithStatus(req[s].m, "CANCELLATION_REQUESTED")
  /\ cancellation' =
       Append(cancellation, [m |-> req[s].m, status |-> "AWAITING_RECEIVER",
                             sent |-> 1, active |-> {1}])
  /\ UNCHANGED <<project, dispute, balance, txns>>

(* The ORM writes the project's status only if it differs from the one     *)
(* the session has loaded.                                                 *)
Written(s, status) == IF status = seen[s] THEN project ELSE status

RaiseDispute(s) ==
  /\ Acts(s, "raise_dispute")
  /\ milestone' = WithStatus(req[s].m, "DISPUTED")
  /\ dispute' = Append(dispute, [m |-> req[s].m, status |-> "OPEN"])
  /\ project' = Written(s, "UNDER_DISPUTE")
  /\ UNCHANGED <<cancellation, balance, txns>>

(* No lock: the status is written over whatever it has become.             *)
AddMessage(s) ==
  /\ pc[s] = "asked" /\ req[s].op = "add_message"
  /\ dispute' = [dispute EXCEPT ![req[s].n].status = "AWAITING_RESPONSE"]
  /\ End(s)
  /\ UNCHANGED <<project, milestone, cancellation, balance, txns>>

-----------------------------------------------------------------------------
(* Handlers that settle something: code rows, milestone row, ledger rows.  *)

HoldsCode(s) ==
  pc[s] \in {"coded", "locked", "settled"} /\ req[s].op = "verify_cancellation"

(* Nobody has locked a code that the session is about to lock or to write. *)
CodesFree(s) ==
  \A t \in Sessions \ {s} :
    HoldsCode(t) /\ req[t].n = req[s].n => loaded[t] \cap loaded[s] = {}

(* The request's row is not locked, nor its status looked at again.        *)
ResendCode(s) ==
  /\ pc[s] = "asked" /\ req[s].op = "resend_code"
  /\ CodesFree(s)
  /\ LET next == cancellation[req[s].n].sent + 1 IN
     cancellation' = [cancellation EXCEPT ![req[s].n].sent = next,
                                          ![req[s].n].active = (@ \ loaded[s]) \cup {next}]
  /\ End(s)
  /\ UNCHANGED <<project, milestone, dispute, balance, txns>>

(* SELECT ... FOR UPDATE waits for the rows its snapshot found, and keeps  *)
(* those that are still ACTIVE locked, also while it waits for the         *)
(* milestone's row.                                                        *)
FindCode(s) ==
  /\ pc[s] = "asked" /\ req[s].op = "verify_cancellation"
  /\ Goes(s, "found")
  /\ loaded' = [loaded EXCEPT ![s] = cancellation[req[s].n].active]
  /\ UNCHANGED <<seen, staged>>

LockCode(s) ==
  /\ pc[s] = "found" /\ CodesFree(s)
  /\ loaded[s] \cap cancellation[req[s].n].active # {}
  /\ Goes(s, "coded")
  /\ loaded' = [loaded EXCEPT ![s] = @ \cap cancellation[req[s].n].active]
  /\ UNCHANGED <<seen, staged>>

(* There was none, or it waited for a transaction that took it.            *)
NoCode(s) ==
  /\ pc[s] = "found" /\ CodesFree(s)
  /\ loaded[s] \cap cancellation[req[s].n].active = {}
  /\ End(s)
  /\ UNCHANGED Rows

(* The latest is compared; two sent at once may come in either order.  It  *)
(* has expired, or was wrong once too often.                               *)
SpendCode(s) ==
  /\ pc[s] = "coded"
  /\ \E k \in loaded[s] :
       cancellation' = [cancellation EXCEPT ![req[s].n].active = @ \ {k}]
  /\ End(s)
  /\ UNCHANGED <<project, milestone, dispute, balance, txns>>

Settling ==
  Resolutions \cup
  {"fund_milestone", "approve_and_release", "verify_cancellation", "decline_cancellation"}

(* resolve() and verify_cancellation() load the project only now.          *)
Lock(s) ==
  /\ Reaches(s)
  /\ req[s].op \in Settling
  /\ Permitted(req[s])
  /\ Goes(s, "locked")
  /\ seen' = [seen EXCEPT ![s] =
                IF req[s].op \in Resolutions \cup {"verify_cancellation"} THEN project ELSE @]
  /\ UNCHANGED <<loaded, staged>>

Posts(op) == op \in Settling \ {"decline_cancellation", "NO_ACTION"}

EntryOf(r) ==
  LET n == Amount[r.m] IN
  CASE r.op = "fund_milestone" -> MilestoneFunding(client, n)
    [] r.op \in {"approve_and_release", "RELEASE_TO_RECEIVER"} ->
         PaymentRelease(client, receiver, n)
    [] r.op \in {"verify_cancellation", "REFUND_TO_CLIENT"} -> Refund(client, n)
    [] r.op = "SPLIT" -> SplitSettlement(client, receiver, n, Share)

Recorded(k) == {i \in DOMAIN txns : k # NoKey /\ txns[i].key = k}

(* Bug: the ledger's row locks are released before the commit.             *)
BugBooksFree(s) == TRUE

(* Every posting debits or credits the client's protected account, and its *)
(* row stays locked until the commit.                                      *)
BooksFree(s) ==
  Posts(req[s].op) =>
    \A t \in Sessions \ {s} : ~(pc[t] = "settled" /\ Posts(req[t].op))

(* refresh_project_completion(), on the other milestones as they are       *)
(* committed now and on this one as it is about to be.                     *)
Completion(m, status, otherwise) ==
  LET statuses == {milestone[x].status : x \in Milestones \ {m}} \cup {status} IN
  IF ~(statuses \subseteq TerminalStatuses) THEN otherwise
  ELSE IF "PAYMENT_RELEASED" \in statuses THEN "COMPLETED" ELSE "CANCELLED"

(* A resolution puts a project under dispute back to ACTIVE first.         *)
NextProject(s) ==
  Completion(req[s].m, Target(req[s].op),
             IF req[s].op \in Resolutions /\ seen[s] = "UNDER_DISPUTE" THEN "ACTIVE"
                                                                      ELSE seen[s])

Stages(s, tx) ==
  /\ Goes(s, "settled")
  /\ staged' = [staged EXCEPT ![s] = [project |-> NextProject(s), tx |-> tx]]
  /\ UNCHANGED <<seen, loaded>>

(* ledger.post() records a new transaction.                                *)
SettleNew(s) ==
  /\ pc[s] = "locked" /\ BooksFree(s)
  /\ Recorded(req[s].key) = {}
  /\ Posts(req[s].op) => Covered(balance, EntryOf(req[s]))
  /\ Stages(s, 0)

(* The key has been used for the same postings: the recorded transaction   *)
(* is handed back, whichever milestone it was for.                         *)
SettleReplayed(s) ==
  /\ pc[s] = "locked" /\ BooksFree(s)
  /\ \E i \in Recorded(req[s].key) : txns[i].entry = EntryOf(req[s]) /\ Stages(s, i)

(* The money is not there, or the key was used for something else.         *)
CannotSettle(s) ==
  /\ pc[s] = "locked" /\ BooksFree(s) /\ Posts(req[s].op)
  /\ IF Recorded(req[s].key) = {}
     THEN ~Covered(balance, EntryOf(req[s]))
     ELSE \A i \in Recorded(req[s].key) : txns[i].entry # EntryOf(req[s])
  /\ End(s)
  /\ UNCHANGED Rows

(* The transaction the session's posting made or was handed.               *)
Tx(s) == IF staged[s].tx = 0 THEN Len(txns) + 1 ELSE staged[s].tx

Booked(s) ==
  IF staged[s].tx = 0
  THEN /\ balance' = Applied(balance, EntryOf(req[s]))
       /\ txns' = Append(txns, [entry |-> EntryOf(req[s]), key |-> req[s].key, m |-> req[s].m])
  ELSE UNCHANGED <<balance, txns>>

Commits(s, ops) ==
  /\ pc[s] = "settled" /\ req[s].op \in ops
  /\ project' = Written(s, staged[s].project)
  /\ End(s)

CommitFunding(s) ==
  /\ Commits(s, {"fund_milestone"})
  /\ milestone' = [WithStatus(req[s].m, "FUNDED") EXCEPT ![req[s].m].funding = Tx(s)]
  /\ Booked(s)
  /\ UNCHANGED <<dispute, cancellation>>

(* Bug: the column is not unique.                                          *)
BugAlreadyReleases(s) == FALSE

(* The unique index on release_transaction_id.                             *)
AlreadyReleases(s) == \E m \in Milestones \ {req[s].m} : milestone[m].release = Tx(s)

CommitRelease(s) ==
  /\ Commits(s, {"approve_and_release"})
  /\ ~AlreadyReleases(s)
  /\ milestone' =
       [WithStatus(req[s].m, "PAYMENT_RELEASED") EXCEPT ![req[s].m].release = Tx(s)]
  /\ Booked(s)
  /\ UNCHANGED <<dispute, cancellation>>

(* The index rejects the row: rolled back, and answered as a success.      *)
LoseRelease(s) ==
  /\ pc[s] = "settled" /\ req[s].op = "approve_and_release"
  /\ AlreadyReleases(s)
  /\ End(s)
  /\ UNCHANGED Rows

(* The status is written over whatever it has become.                      *)
CommitCancellation(s) ==
  /\ Commits(s, {"verify_cancellation"})
  /\ milestone' = WithStatus(req[s].m, "CANCELLED")
  /\ \E k \in loaded[s] :
       cancellation' = [cancellation EXCEPT ![req[s].n].status = "CONFIRMED",
                                            ![req[s].n].active = @ \ {k}]
  /\ Booked(s)
  /\ UNCHANGED dispute

(* Bug: declining leaves the codes alive.                                  *)
BugDecline(s) ==
  /\ Commits(s, {"decline_cancellation"})
  /\ milestone' = WithStatus(req[s].m, "FUNDED")
  /\ cancellation' = [cancellation EXCEPT ![req[s].n].status = "DECLINED"]
  /\ UNCHANGED <<dispute, balance, txns>>

(* Flushing the invalidated codes waits for whoever holds one of them.  A  *)
(* code that was sent since the request was loaded stays ACTIVE.           *)
CommitDecline(s) ==
  /\ Commits(s, {"decline_cancellation"})
  /\ CodesFree(s)
  /\ milestone' = WithStatus(req[s].m, "FUNDED")
  /\ cancellation' = [cancellation EXCEPT ![req[s].n].status = "DECLINED",
                                          ![req[s].n].active = @ \ loaded[s]]
  /\ UNCHANGED <<dispute, balance, txns>>

(* resolve() leaves release_transaction_id alone.                          *)
CommitResolution(s) ==
  /\ Commits(s, Resolutions)
  /\ milestone' = WithStatus(req[s].m, Target(req[s].op))
  /\ dispute' = [dispute EXCEPT ![req[s].n].status = "RESOLVED"]
  /\ IF Posts(req[s].op) THEN Booked(s) ELSE UNCHANGED <<balance, txns>>
  /\ UNCHANGED cancellation

(* The process is killed or the connection lost: nothing was committed.    *)
Rollback(s) ==
  /\ pc[s] # "idle"
  /\ End(s)
  /\ UNCHANGED Rows

-----------------------------------------------------------------------------

Asks(s) ==
  \E op \in Ops :
    \/ /\ op \in MilestoneOps
       /\ \E m \in Milestones, k \in OptionalKeys : AskAboutMilestone(s, op, m, k)
    \/ /\ op \in Resolutions \cup {"add_message"}
       /\ \E d \in DOMAIN dispute : AskAboutDispute(s, op, d)
    \/ /\ op \in {"verify_cancellation", "decline_cancellation", "resend_code"}
       /\ \E c \in DOMAIN cancellation : AskAboutCancellation(s, op, c)

Runs(s) ==
  \/ Refuse(s) \/ StartWork(s) \/ SubmitMilestone(s) \/ RequestChanges(s)
  \/ RequestCancellation(s) \/ RaiseDispute(s) \/ AddMessage(s)
  \/ ResendCode(s) \/ FindCode(s) \/ LockCode(s) \/ NoCode(s) \/ Lock(s)
  \/ SettleNew(s) \/ SettleReplayed(s) \/ CannotSettle(s)
  \/ CommitFunding(s) \/ CommitRelease(s) \/ LoseRelease(s)
  \/ CommitCancellation(s) \/ CommitDecline(s) \/ CommitResolution(s)

Next ==
  \E s \in Sessions : Asks(s) \/ Runs(s) \/ SpendCode(s) \/ Rollback(s)

Spec == Init /\ [][Next]_vars

(* Verifying and declining one request lock its codes and its milestone in *)
(* opposite orders.  PostgreSQL notices and kills one of the two.          *)
WaitForEachOther(s, t) ==
  /\ pc[s] = "coded"
  /\ pc[t] = "settled" /\ req[t].op = "decline_cancellation" /\ req[t].n = req[s].n
  /\ loaded[s] \cap loaded[t] # {}

Deadlocked(s) ==
  \E t \in Sessions : WaitForEachOther(s, t) \/ WaitForEachOther(t, s)

BreakDeadlock(s) == Deadlocked(s) /\ Rollback(s)

(* A thread keeps executing its statements, waiters on a row are queued in *)
(* arrival order, and the deadlock detector runs.                          *)
Fairness ==
  \A s \in Sessions : SF_vars(Runs(s)) /\ WF_vars(BreakDeadlock(s))

FairSpec == Spec /\ Fairness

-----------------------------------------------------------------------------
(* Properties.                                                             *)

(* What the milestones' statuses say is in escrow.                         *)
ShownAsHeld ==
  SumFunction([m \in Milestones |->
                 IF milestone[m].status \in ProtectedStatuses THEN Amount[m] ELSE 0])

(* constants.py: "Money is held against the milestone in these states."    *)
(* The client's protected balance is the total of the milestones whose     *)
(* status says their money is protected, whatever runs at once.            *)
ProtectedMoneyHeld == balance[Protected(client)] = ShownAsHeld

(* Whatever keys the client sends, no money is left behind: no more is     *)
(* protected than the statuses account for, so nothing once the last       *)
(* milestone is settled.                                                   *)
NothingLeftBehind == balance[Protected(client)] \in 0 .. ShownAsHeld

(* A milestone is funded once and paid out once, also when parties and     *)
(* administrators settle it at the same time.                              *)
PaidOutOnce ==
  \A i, j \in DOMAIN txns :
    txns[i].m = txns[j].m /\ i # j =>
      Cardinality({h \in {i, j} : txns[h].entry.type = "MILESTONE_FUNDING"}) = 1

(* A milestone shown as released has had a payout of its own, whatever     *)
(* keys the client sends.                                                  *)
ReleasedWasPaid ==
  \A m \in Milestones :
    milestone[m].status = "PAYMENT_RELEASED" =>
      \E i \in DOMAIN txns : txns[i].m = m /\ txns[i].entry.type = "PAYMENT_RELEASE"

(* "the status is correct the moment the last milestone resolves": a       *)
(* project is closed exactly while all its milestones are, also when the   *)
(* last two settle at once, and as completed if any of them paid.          *)
ClosedWithLastMilestone ==
  LET statuses == {milestone[m].status : m \in Milestones} IN
  /\ project = "COMPLETED" <=>
       statuses \subseteq TerminalStatuses /\ "PAYMENT_RELEASED" \in statuses
  /\ project = "CANCELLED" <=> statuses = {"CANCELLED"}

(* verify_cancellation() and decline_cancellation(): a confirmation is     *)
(* final, however a decline raced it; a decline is turned, if at all, by a *)
(* code that was sent anew, which a decline under way has not loaded.      *)
OnlyNewCodesTurnDecisions ==
  [][\A c \in DOMAIN cancellation :
       LET was == cancellation[c].status IN
       was # "AWAITING_RECEIVER" /\ cancellation'[c].status # was =>
         was = "DECLINED" /\ cancellation[c].sent > 1]_cancellation

(* Every handler ends, though two of them can deadlock.                    *)
EveryHandlerEnds == \A s \in Sessions : pc[s] # "idle" ~> pc[s] = "idle"

(* Statuses tell the truth about the money: read as places, they and the   *)
(* balances do only what escrow promises.                                  *)
Place(m) ==
  CASE milestone[m].status \in ProtectedStatuses -> "escrow"
    [] milestone[m].status = "PAYMENT_RELEASED" -> "receiver"
    [] milestone[m].status = "CANCELLED" -> "returned"
    [] OTHER -> "client"

Promise == INSTANCE Custody WITH held <- [m \in Milestones |-> Place(m)]

KeepsCustody == Promise!Spec

(* DisputeAlreadyOpenError: "There is already an open dispute on this      *)
(* milestone."                                                             *)
OneOpenDispute == \A m \in Milestones : Cardinality(OpenDisputes(m)) <= 1

(* raise_dispute(): "The milestone freezes: no release, no cancellation,   *)
(* until this resolves."                                                   *)
DisputeFreezes ==
  \A m \in Milestones : OpenDisputes(m) # {} => milestone[m].status = "DISPUTED"

(* DisputeNotOpenError: "This dispute has already been resolved."  A       *)
(* resolution stands.                                                      *)
ResolutionStands ==
  [][\A d \in DOMAIN dispute :
       dispute[d].status = "RESOLVED" => dispute'[d].status = "RESOLVED"]_dispute

(* request_cancellation(): "The funds stay protected while this is open -  *)
(* they are neither released nor refunded until the receiver decides."     *)
CancellationHoldsFunds ==
  \A c \in DOMAIN cancellation :
    cancellation[c].status = "AWAITING_RECEIVER" =>
      milestone[cancellation[c].m].status \in ProtectedStatuses
=============================================================================
