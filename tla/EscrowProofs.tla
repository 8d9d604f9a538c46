----------------------------- MODULE EscrowProofs -----------------------------
(***************************************************************************)
(* Machine-checked safety of escrow, for any number of milestones, of      *)
(* sessions and of keys, any amounts and any bounds.                       *)
(*                                                                         *)
(* Who holds a milestone's row finds it as it was when it was locked.  Of  *)
(* those who post money only one has settled and not committed.  So what a *)
(* commit writes was decided on what it still finds.                       *)
(***************************************************************************)
EXTENDS Escrow, BooksProofs, FiniteSetTheorems, TLAPS

-----------------------------------------------------------------------------
(* The strengthening: the rows.                                            *)

Status(m) == milestone[m].status
Terminal(m) == Status(m) \in TerminalStatuses

(* A milestone has been funded exactly if it is not waiting for it.        *)
FundedOnce ==
  \A m \in Milestones :
    Status(m) # "DRAFT" /\ (Status(m) = "PENDING_FUNDING" <=> milestone[m].funding = 0)

(* Disputes and cancellations are about milestones that were funded.       *)
AboutFunded ==
  /\ \A d \in DOMAIN dispute : Status(dispute[d].m) # "PENDING_FUNDING"
  /\ \A c \in DOMAIN cancellation : Status(cancellation[c].m) # "PENDING_FUNDING"

(* A confirmed cancellation stands.                                        *)
Decided ==
  \A c \in DOMAIN cancellation :
    cancellation[c].status = "CONFIRMED" => Status(cancellation[c].m) = "CANCELLED"

IsFunding(i) == txns[i].entry.type = "MILESTONE_FUNDING"

(* What is in the ledger for a milestone goes with its status.             *)
BooksMatch ==
  \A i \in DOMAIN txns :
    /\ Status(txns[i].m) # "PENDING_FUNDING"
    /\ Status(txns[i].m) \in ProtectedStatuses => IsFunding(i)
    /\ IsFunding(i) => txns[i].entry = MilestoneFunding(client, Amount[txns[i].m])

OncePerKind ==
  \A i, j \in DOMAIN txns :
    txns[i].m = txns[j].m /\ i # j => IsFunding(i) # IsFunding(j)

(* A payout with a key was the milestone's own release.                    *)
KeyedReleases ==
  \A i \in DOMAIN txns :
    txns[i].entry.type = "PAYMENT_RELEASE" /\ txns[i].key # NoKey
      => milestone[txns[i].m].release = i

-----------------------------------------------------------------------------
(* The strengthening: the sessions.                                        *)

UnderWay(s, op) == pc[s] # "idle" /\ req[s].op = op
Holds(s) == pc[s] \in {"locked", "settled"}
HoldsBooks(s) == pc[s] = "settled" /\ Posts(req[s].op)

KeyedOps == {"fund_milestone", "approve_and_release"}
Deciding == {"verify_cancellation", "decline_cancellation"}
CancellationOps == Deciding \cup {"resend_code"}
Closed == {"COMPLETED", "CANCELLED"}

(* A request is about rows that are there.                                 *)
Refers(s) ==
  /\ req[s].key # NoKey => req[s].op \in KeyedOps
  /\ req[s].op \in Resolutions \cup {"add_message"}
       => req[s].n \in DOMAIN dispute /\ dispute[req[s].n].m = req[s].m
  /\ req[s].op \in CancellationOps
       => req[s].n \in DOMAIN cancellation /\ cancellation[req[s].n].m = req[s].m
  /\ Holds(s) => req[s].op \in Settling
  /\ pc[s] \in {"found", "coded"} => req[s].op = "verify_cancellation"

(* A project that was seen closed has nothing left to settle.              *)
SeenClosed(s) == seen[s] \in Closed => \A m \in Milestones : Terminal(m)

(* What a session will commit is still right.                              *)
StagedStands(s) ==
  pc[s] = "settled" =>
    /\ staged[s].project = NextProject(s)
    /\ staged[s].tx # 0 =>
         /\ staged[s].tx \in DOMAIN txns
         /\ txns[staged[s].tx].entry = EntryOf(req[s])
         /\ txns[staged[s].tx].key = req[s].key
         /\ req[s].key # NoKey
    /\ staged[s].tx = 0 /\ Posts(req[s].op) => Covered(balance, EntryOf(req[s]))

Stands(s) ==
  pc[s] # "idle" =>
    /\ Refers(s)
    /\ Holds(s) => Permitted(req[s])
    /\ SeenClosed(s)
    /\ StagedStands(s)

(* Locks exclude each other.                                               *)
Apart(s, t) ==
  /\ Holds(s) /\ Holds(t) => req[s].m # req[t].m
  /\ ~(HoldsBooks(s) /\ HoldsBooks(t))

RowsStand ==
  FundedOnce /\ AboutFunded /\ Decided /\ BooksMatch /\ OncePerKind /\ KeyedReleases
  /\ ReleasedWasPaid /\ ClosedWithLastMilestone

IInv ==
  /\ TypeOK
  /\ RowsStand
  /\ \A s \in Sessions : Stands(s)
  /\ \A s, t \in Sessions : s # t => Apart(s, t)

(* A key sent with a funding is on no other milestone's funding of the     *)
(* same worth: what the ledger cannot tell, and hands back as a success.   *)
KeysTellMilestones ==
  \A s \in Sessions : \A i \in Recorded(req[s].key) :
    req[s].op = "fund_milestone" /\ txns[i].entry = EntryOf(req[s]) => txns[i].m = req[s].m

(* Two ways to see to that.  Either nobody uses keys, or no two milestones *)
(* are worth the same.                                                     *)
NoMixUp == Keys = {} \/ \A m, n \in Milestones : Amount[m] = Amount[n] => m = n

(* Or the client makes up a key for each milestone that it funds, and      *)
(* repeats it with that milestone only.                                    *)
KeysAreFor(own) ==
  \A s \in Sessions :
    req[s].op = "fund_milestone" /\ req[s].key # NoKey => req[s].m = own[req[s].key]

-----------------------------------------------------------------------------
(* Statuses.                                                               *)

(* Every status is protected, terminal, or before the funding.             *)
LEMMA StatusNames ==
  /\ MilestoneStatuses = ProtectedStatuses \cup TerminalStatuses \cup
                          {"DRAFT", "PENDING_FUNDING"}
  /\ ProtectedStatuses \cap TerminalStatuses = {}
  /\ {"DRAFT", "PENDING_FUNDING"} \cap (ProtectedStatuses \cup TerminalStatuses) = {}
  BY DEF MilestoneStatuses, AllowedTransitions, ProtectedStatuses, TerminalStatuses

(* The transition table: only protected milestones go on, and out of       *)
(* PENDING_FUNDING lead a funding and decisions about rows that cannot be  *)
(* there yet.                                                              *)
LEMMA Transitions ==
  ASSUME NEW from \in MilestoneStatuses, from # "DRAFT", NEW op \in DOMAIN Via,
         May(from, Via[op])
  PROVE  /\ from \in ProtectedStatuses \cup {"PENDING_FUNDING"}
         /\ from = "PENDING_FUNDING"
              => op \in Resolutions \cup Deciding \cup {"fund_milestone"}
  BY DEF May, Via, AllowedTransitions, MilestoneStatuses, ProtectedStatuses, Resolutions,
     Deciding

(* The statuses the operations ask the table for.                          *)
LEMMA OpsAre ==
  /\ DOMAIN Via = {"fund_milestone", "start_work", "submit_milestone", "request_changes",
       "approve_and_release", "request_cancellation", "verify_cancellation",
       "decline_cancellation", "raise_dispute", "RELEASE_TO_RECEIVER", "REFUND_TO_CLIENT",
       "SPLIT", "NO_ACTION"}
  /\ Via["fund_milestone"] = "FUNDED" /\ Via["approve_and_release"] = "APPROVED"
  /\ Via["verify_cancellation"] = "CANCELLED" /\ Via["decline_cancellation"] = "FUNDED"
  /\ Via["RELEASE_TO_RECEIVER"] = "APPROVED" /\ Via["REFUND_TO_CLIENT"] = "CANCELLED"
  /\ Via["SPLIT"] = "CANCELLED" /\ Via["NO_ACTION"] = "FUNDED"
  BY DEF Via

(* The status a settling operation ends in.                                *)
LEMMA Targets ==
  /\ Target("fund_milestone") = "FUNDED" /\ Target("approve_and_release") = "PAYMENT_RELEASED"
  /\ Target("verify_cancellation") = "CANCELLED"
  /\ Target("decline_cancellation") = "FUNDED"
  /\ Target("RELEASE_TO_RECEIVER") = "PAYMENT_RELEASED"
  /\ Target("REFUND_TO_CLIENT") = "CANCELLED"
  /\ Target("SPLIT") = "CANCELLED" /\ Target("NO_ACTION") = "FUNDED"
  BY OpsAre DEF Target

(* A milestone's row has its type.                                         *)
LEMMA TypedRow ==
  ASSUME TypeOK, NEW m \in Milestones
  PROVE  milestone[m] \in MilestoneRows /\ Status(m) \in MilestoneStatuses
  BY DEF TypeOK, MilestoneRows, Status

(* What may be done to a milestone leaves it from where its money is known. *)
LEMMA Leaves ==
  ASSUME TypeOK, FundedOnce, AboutFunded, NEW s \in Sessions, Refers(s),
         req[s].op \in DOMAIN Via, Permitted(req[s])
  PROVE  /\ req[s].m \in Milestones /\ req[s].op \in DOMAIN Via
         /\ req[s].op = "fund_milestone" => Status(req[s].m) = "PENDING_FUNDING"
         /\ req[s].op # "fund_milestone" => Status(req[s].m) \in ProtectedStatuses
  <1> DEFINE r == req[s]
  <1>1. r \in Requests
    BY DEF TypeOK
  <1>2. r.m \in Milestones /\ r.op \in DOMAIN Via
    BY <1>1 DEF Requests
  <1>3. Status(r.m) \in MilestoneStatuses /\ Status(r.m) # "DRAFT"
    BY <1>2, TypedRow DEF FundedOnce
  <1>4. CASE r.op = "raise_dispute"
    BY <1>2, <1>4 DEF Permitted, Status
  <1>5. CASE r.op # "raise_dispute"
    <2>1. May(Status(r.m), Via[r.op])
      BY <1>5 DEF Permitted, Status
    <2>2. /\ Status(r.m) \in ProtectedStatuses \cup {"PENDING_FUNDING"}
          /\ Status(r.m) = "PENDING_FUNDING"
               => r.op \in Resolutions \cup Deciding \cup {"fund_milestone"}
      BY <1>2, <1>3, <2>1, Transitions
    <2>3. r.op \in Resolutions \cup Deciding => Status(r.m) # "PENDING_FUNDING"
      BY DEF Refers, AboutFunded, CancellationOps
    <2>4. r.op = "fund_milestone" => milestone[r.m].funding = 0
      BY DEF Permitted
    <2>5. r.op = "fund_milestone" => Status(r.m) = "PENDING_FUNDING"
      BY <1>2, <2>4 DEF FundedOnce
    <2> QED BY <1>2, <2>2, <2>3, <2>5
  <1> QED BY <1>4, <1>5

-----------------------------------------------------------------------------
(* Entries.                                                                *)

Payouts == {"approve_and_release", "RELEASE_TO_RECEIVER"}
Returns == {"verify_cancellation", "REFUND_TO_CLIENT"}

(* Which operations post money.                                            *)
LEMMA PostingOps ==
  /\ \A op : Posts(op) <=> op \in Payouts \cup Returns \cup {"fund_milestone", "SPLIT"}
  /\ Settling = {"fund_milestone", "approve_and_release", "verify_cancellation",
       "decline_cancellation", "RELEASE_TO_RECEIVER", "REFUND_TO_CLIENT", "SPLIT", "NO_ACTION"}
  /\ Settling \subseteq DOMAIN Via
  BY OpsAre DEF Posts, Settling, Resolutions, Payouts, Returns

(* The entry each posting operation asks the ledger for.                   *)
LEMMA Entries ==
  ASSUME NEW r
  PROVE  /\ r.op = "fund_milestone" => EntryOf(r) = MilestoneFunding(client, Amount[r.m])
         /\ r.op \in Payouts => EntryOf(r) = PaymentRelease(client, receiver, Amount[r.m])
         /\ r.op \in Returns => EntryOf(r) = Refund(client, Amount[r.m])
         /\ r.op = "SPLIT" => EntryOf(r) = SplitSettlement(client, receiver, Amount[r.m], Share)
  <1>1. r.op = "fund_milestone" => EntryOf(r) = MilestoneFunding(client, Amount[r.m])
    BY DEF EntryOf
  <1>2. r.op \in Payouts => EntryOf(r) = PaymentRelease(client, receiver, Amount[r.m])
    BY DEF EntryOf, Payouts
  <1>3. r.op \in Returns => EntryOf(r) = Refund(client, Amount[r.m])
    BY DEF EntryOf, Returns
  <1>4. r.op = "SPLIT" => EntryOf(r) = SplitSettlement(client, receiver, Amount[r.m], Share)
    BY DEF EntryOf
  <1> QED BY <1>1, <1>2, <1>3, <1>4

(* The entry's type tells a funding from the ways out.                     *)
LEMMA EntryTypes ==
  ASSUME NEW r
  PROVE  /\ r.op = "fund_milestone" => EntryOf(r).type = "MILESTONE_FUNDING"
         /\ r.op \in Payouts => EntryOf(r).type = "PAYMENT_RELEASE"
         /\ r.op \in Returns => EntryOf(r).type = "REFUND"
         /\ r.op = "SPLIT" => EntryOf(r).type = "ADJUSTMENT"
  BY Entries DEF MilestoneFunding, PaymentRelease, Refund, SplitSettlement, Transfer

(* The parties' accounts exist, and the protected one is none of the       *)
(* others.                                                                 *)
LEMMA AccountsThere ==
  /\ Available(client) \in Accounts /\ Protected(client) \in Accounts
  /\ Available(receiver) \in Accounts /\ External \in Accounts
  /\ Available(client) # Protected(client) /\ Available(receiver) # Protected(client)
  /\ External # Protected(client)
  BY PartiesAssumption DEF Available, Protected, External

(* What an operation posts is an entry, a split's two parts included.      *)
LEMMA EntryIsTyped ==
  ASSUME NEW r, r.m \in Milestones, Posts(r.op),
         r.op = "SPLIT" => Share \in 1 .. (Amount[r.m] - 1)
  PROVE  EntryOf(r) \in Entry
  <1>1. Amount[r.m] \in Nat
    BY AmountAssumption
  <1>2. {"MILESTONE_FUNDING", "PAYMENT_RELEASE", "REFUND", "ADJUSTMENT"} \subseteq TransactionTypes
    BY DEF TransactionTypes
  <1>3. CASE r.op # "SPLIT"
    BY <1>1, <1>2, <1>3, Entries, PostingOps, TransfersAreEntries
       DEF MilestoneFunding, PaymentRelease, Refund
  <1>4. CASE r.op = "SPLIT"
    <2>1. Share \in Nat /\ Amount[r.m] - Share \in Nat
      BY <1>1, <1>4
    <2> DEFINE rest == Amount[r.m] - Share
    <2> HIDE DEF rest
    <2>2. \A x \in Accounts : Line(Available(receiver), Share)[x] \in Nat
      BY <2>1 DEF Line
    <2>3. \A x \in Accounts : Line(Available(client), rest)[x] \in Nat
      BY <2>1 DEF Line, rest
    <2>4. Line(Protected(client), Amount[r.m]) \in [Accounts -> Nat]
      BY <1>1 DEF Line
    <2>5. [x \in Accounts |-> Line(Available(receiver), Share)[x]
                              + Line(Available(client), rest)[x]] \in [Accounts -> Nat]
      BY <2>2, <2>3
    <2>6. SplitSettlement(client, receiver, Amount[r.m], Share) \in Entry
      BY <1>2, <2>4, <2>5 DEF SplitSettlement, Entry, rest
    <2> QED BY <1>4, <2>6, Entries
  <1> QED BY <1>3, <1>4

(* What each movement does to the protected account.                       *)
LEMMA ProtectedDelta ==
  ASSUME NEW r, r.m \in Milestones, Posts(r.op),
         r.op = "SPLIT" => Share \in 1 .. (Amount[r.m] - 1)
  PROVE  Delta(EntryOf(r), Protected(client)) =
           IF r.op = "fund_milestone" THEN Amount[r.m] ELSE -Amount[r.m]
  <1>1. Amount[r.m] \in Nat
    BY AmountAssumption
  <1>2. \A d, c : SignedDelta(Protected(client), d, c) = c - d
    BY DEF SignedDelta, NormalBalance, Protected
  <1>3. CASE r.op = "fund_milestone"
    BY <1>1, <1>2, <1>3, Entries, AccountsThere DEF MilestoneFunding, Transfer, Line, Delta
  <1>4. CASE r.op \in Payouts
    BY <1>1, <1>2, <1>4, Entries, AccountsThere DEF PaymentRelease, Transfer, Line, Delta, Payouts
  <1>5. CASE r.op \in Returns
    BY <1>1, <1>2, <1>5, Entries, AccountsThere DEF Refund, Transfer, Line, Delta, Returns
  <1>6. CASE r.op = "SPLIT"
    <2>1. EntryOf(r).debit[Protected(client)] = Amount[r.m]
      BY <1>6, Entries, AccountsThere DEF SplitSettlement, Line
    <2>2. EntryOf(r).credit[Protected(client)] = 0
      BY <1>6, Entries, AccountsThere DEF SplitSettlement, Line
    <2> QED BY <1>1, <1>2, <1>6, <2>1, <2>2 DEF Delta
  <1> QED BY <1>3, <1>4, <1>5, <1>6, PostingOps

(* Every posting is about the protected account, whose row it locks.       *)
LEMMA ProtectedTouched ==
  ASSUME NEW r, r.m \in Milestones, Posts(r.op),
         r.op = "SPLIT" => Share \in 1 .. (Amount[r.m] - 1)
  PROVE  Protected(client) \in Touched(EntryOf(r))
  <1> DEFINE p == Protected(client)
  <1>1. Amount[r.m] \in Nat \ {0} /\ p \in Accounts
    BY AmountAssumption, AccountsThere
  <1>2. EntryOf(r).debit[p] = Amount[r.m] \/ EntryOf(r).credit[p] = Amount[r.m]
    BY <1>1, Entries, PostingOps DEF MilestoneFunding, PaymentRelease, Refund,
       SplitSettlement, Transfer, Line
  <1>3. EntryOf(r) \in Entry
    BY EntryIsTyped
  <1> QED BY <1>1, <1>2, <1>3 DEF Touched, Entry

(* Fundings of different amounts are different entries: the ledger's       *)
(* comparison of a replayed key's details sees that much, and no more.     *)
LEMMA FundingTellsAmount ==
  ASSUME NEW a, NEW b, MilestoneFunding(client, a) = MilestoneFunding(client, b)
  PROVE  a = b
  BY AccountsThere DEF MilestoneFunding, Transfer, Line

-----------------------------------------------------------------------------
(* What the others believe outlives a step that leaves them alone.         *)

OthersIdleBy(s) ==
  \A t \in Sessions \ {s} :
    pc'[t] = pc[t] /\ req'[t] = req[t] /\ seen'[t] = seen[t] /\ staged'[t] = staged[t]

(* Rows are changed under their locks, and nothing is taken away.          *)
LeavesOthers(s) ==
  /\ \A m \in Milestones :
       \/ milestone'[m] = milestone[m]
       \/ \A t \in Sessions \ {s} : Holds(t) => req[t].m # m
  /\ \A m \in Milestones : Terminal(m) => milestone'[m] = milestone[m]
  /\ \A d \in DOMAIN dispute : d \in DOMAIN dispute' /\ dispute'[d].m = dispute[d].m
  /\ \A c \in DOMAIN cancellation :
       c \in DOMAIN cancellation' /\ cancellation'[c].m = cancellation[c].m
  /\ \A i \in DOMAIN txns : i \in DOMAIN txns' /\ txns'[i] = txns[i]
  /\ \A t \in Sessions \ {s} : HoldsBooks(t) =>
       /\ balance' = balance
       /\ \A m \in Milestones :
            milestone'[m].status \in TerminalStatuses => milestone'[m] = milestone[m]

(* What another session believes still stands after a step that leaves its *)
(* locked rows alone.                                                      *)
LEMMA OthersStand ==
  ASSUME IInv, NEW s \in Sessions, OthersIdleBy(s), LeavesOthers(s), NEW t \in Sessions \ {s}
  PROVE  Stands(t)'
  <1>1. SUFFICES ASSUME pc[t] # "idle" PROVE Stands(t)'
    BY DEF OthersIdleBy, Stands
  <1>2. Stands(t) /\ Refers(t) /\ SeenClosed(t) /\ StagedStands(t) /\ req[t].m \in Milestones
    BY <1>1 DEF IInv, Stands, TypeOK, Requests
  <1>3. pc'[t] = pc[t] /\ req'[t] = req[t] /\ seen'[t] = seen[t] /\ staged'[t] = staged[t]
    BY DEF OthersIdleBy
  <1>4. Refers(t)'
    BY <1>2, <1>3 DEF Refers, LeavesOthers, Holds
  <1>5. Holds(t)' => Permitted(req[t])'
    <2>1. Holds(t) => Permitted(req[t]) /\ milestone'[req[t].m] = milestone[req[t].m]
      BY <1>1, <1>2 DEF Stands, LeavesOthers
    <2>2. Holds(t)' => Holds(t)
      BY <1>3 DEF Holds
    <2> QED BY <1>3, <2>1, <2>2 DEF Permitted
  <1>6. SeenClosed(t)'
    BY <1>2, <1>3 DEF SeenClosed, LeavesOthers, Terminal, Status
  <1>8. ASSUME pc[t] = "settled" PROVE NextProject(t)' = NextProject(t)
    <2> DEFINE m == req[t].m
    <2> DEFINE end == Target(req[t].op)
    <2> DEFINE now == {milestone[x].status : x \in Milestones \ {m}} \cup {end}
    <2> DEFINE then == {milestone'[x].status : x \in Milestones \ {m}} \cup {end}
    <2>1. req[t].op \in Settling
      BY <1>2, <1>8 DEF Refers, Holds
    <2>2. /\ now \subseteq TerminalStatuses <=> then \subseteq TerminalStatuses
          /\ now \subseteq TerminalStatuses => then = now
      <3>1. CASE Posts(req[t].op)
        <4>1. \A x \in Milestones :
                (milestone[x].status \in TerminalStatuses
                 \/ milestone'[x].status \in TerminalStatuses)
                => milestone'[x].status = milestone[x].status
          BY <1>8, <3>1 DEF LeavesOthers, HoldsBooks, Terminal, Status
        <4> HIDE DEF end, m
        <4> QED BY <4>1
      <3>2. CASE ~Posts(req[t].op)
        <4>1. end = "FUNDED"
          BY <2>1, <3>2, PostingOps, Targets DEF Payouts, Returns
        <4> QED BY <4>1 DEF TerminalStatuses
      <3> QED BY <3>1, <3>2
    <2> QED BY <1>3, <2>2 DEF NextProject, Completion
  <1>9. StagedStands(t)'
    <2>1. SUFFICES ASSUME pc[t] = "settled" PROVE StagedStands(t)'
      BY <1>3 DEF StagedStands
    <2>2. staged'[t].project = NextProject(t)'
      BY <1>2, <1>3, <1>8, <2>1 DEF StagedStands
    <2>3. staged[t].tx # 0 => staged[t].tx \in DOMAIN txns' /\ txns'[staged[t].tx] = txns[staged[t].tx]
      BY <1>2, <2>1 DEF StagedStands, LeavesOthers
    <2>4. Posts(req[t].op) => balance' = balance
      BY <2>1 DEF LeavesOthers, HoldsBooks
    <2> QED BY <1>2, <1>3, <2>1, <2>2, <2>3, <2>4 DEF StagedStands, EntryOf
  <1> QED BY <1>3, <1>4, <1>5, <1>6, <1>9 DEF Stands

(* Sessions that a step leaves alone stay apart.                           *)
LEMMA OthersApart ==
  ASSUME IInv, NEW s \in Sessions, OthersIdleBy(s),
         NEW t \in Sessions \ {s}, NEW u \in Sessions \ {s}, t # u
  PROVE  Apart(t, u)'
  <1>1. Apart(t, u)
    BY DEF IInv
  <1> QED BY <1>1 DEF Apart, OthersIdleBy, Holds, HoldsBooks

(* A handler that ends has nothing more to believe.                        *)
LEMMA EndStep ==
  ASSUME IInv, NEW s \in Sessions, End(s), LeavesOthers(s), RowsStand',
         project' \in ProjectStatuses, milestone' \in [Milestones -> MilestoneRows],
         dispute' \in Seq(DisputeRows), cancellation' \in Seq(CancellationRows),
         balance' \in [Accounts -> Int], txns' \in Seq(Transactions)
  PROVE  IInv'
  <1>1. OthersIdleBy(s) /\ pc'[s] = "idle"
    BY DEF OthersIdleBy, End, IInv, TypeOK
  <1>2. NoRequest \in Requests
    BY MilestonesAssumption, OpsAre DEF NoRequest, Requests, OpNames, OptionalKeys
  <1>3. TypeOK'
    BY <1>2 DEF TypeOK, IInv, End, Nothing, ProjectStatuses
  <1>4. \A t \in Sessions : Stands(t)'
    <2>1. Stands(s)'
      BY <1>1 DEF Stands
    <2> QED BY <1>1, <2>1, OthersStand
  <1>5. \A t, u \in Sessions : t # u => Apart(t, u)'
    <2>1. \A t \in Sessions : Apart(s, t)' /\ Apart(t, s)'
      BY <1>1 DEF Apart, Holds, HoldsBooks
    <2> QED BY <1>1, <2>1, OthersApart
  <1> QED BY <1>3, <1>4, <1>5 DEF IInv

(* A step that writes no row.                                              *)
LEMMA RowsStay ==
  ASSUME IInv, UNCHANGED Rows
  PROVE  RowsStand' /\ \A s \in Sessions : LeavesOthers(s)
  <1>1. UNCHANGED <<project, milestone, dispute, cancellation, balance, txns>>
    BY DEF Rows
  <1>2. \A s \in Sessions : LeavesOthers(s)
    BY <1>1 DEF LeavesOthers, Terminal, Status
  <1>3. FundedOnce' /\ AboutFunded' /\ Decided'
    BY <1>1 DEF IInv, RowsStand, FundedOnce, AboutFunded, Decided, Status
  <1>4. BooksMatch' /\ OncePerKind' /\ KeyedReleases' /\ ReleasedWasPaid'
    BY <1>1 DEF IInv, RowsStand, BooksMatch, OncePerKind, KeyedReleases, ReleasedWasPaid,
       IsFunding, Status
  <1>5. ClosedWithLastMilestone'
    BY <1>1 DEF IInv, RowsStand, ClosedWithLastMilestone
  <1> QED BY <1>2, <1>3, <1>4, <1>5 DEF RowsStand

(* A handler that ends without writing anything.                           *)
LEMMA EndedQuietly ==
  ASSUME IInv, NEW s \in Sessions, End(s), UNCHANGED Rows
  PROVE  IInv'
  <1>1. UNCHANGED <<project, milestone, dispute, cancellation, balance, txns>>
    BY DEF Rows
  <1> QED BY <1>1, RowsStay, EndStep DEF IInv, TypeOK

(* A step of one session that writes no row.                               *)
LEMMA QuietStep ==
  ASSUME IInv, NEW s \in Sessions, UNCHANGED Rows, OthersIdleBy(s), TypeOK',
         Stands(s)', \A t \in Sessions \ {s} : Apart(s, t)'
  PROVE  IInv'
  <1>1. \A t \in Sessions : Stands(t)'
    BY RowsStay, OthersStand
  <1>2. \A t, u \in Sessions : Apart(t, u)' => Apart(u, t)'
    BY DEF Apart
  <1>3. \A t, u \in Sessions : t # u => Apart(t, u)'
    BY <1>2, OthersApart
  <1> QED BY <1>1, <1>3, RowsStay DEF IInv

-----------------------------------------------------------------------------
(* Asking, locking and settling.                                           *)

(* A closed project has nothing left to settle.                            *)
LEMMA ClosedMeansTerminal ==
  ASSUME IInv, project \in Closed
  PROVE  \A m \in Milestones : Terminal(m)
  <1> DEFINE statuses == {milestone[m].status : m \in Milestones}
  <1>1. statuses \subseteq TerminalStatuses
    BY DEF IInv, RowsStand, ClosedWithLastMilestone, Closed, TerminalStatuses
  <1> QED BY <1>1 DEF Terminal, Status

(* A handler begins: it has loaded rows that are there, and holds nothing. *)
LEMMA BeginPreserves ==
  ASSUME IInv, NEW s \in Sessions, NEW r \in Requests, NEW codes \in SUBSET Nat,
         Begin(s, r, codes),
         r.key # NoKey => r.op \in KeyedOps,
         r.op \in Resolutions \cup {"add_message"}
           => r.n \in DOMAIN dispute /\ dispute[r.n].m = r.m,
         r.op \in CancellationOps
           => r.n \in DOMAIN cancellation /\ cancellation[r.n].m = r.m
  PROVE  IInv'
  <1>1. pc'[s] = "asked" /\ req'[s] = r /\ seen'[s] = project
    BY DEF Begin, IInv, TypeOK
  <1>2. UNCHANGED Rows /\ UNCHANGED <<project, milestone, dispute, cancellation, balance, txns>>
    BY DEF Begin, Rows
  <1>3. OthersIdleBy(s)
    BY DEF OthersIdleBy, Begin, IInv, TypeOK
  <1>4. TypeOK'
    BY <1>2 DEF TypeOK, IInv, Begin
  <1>5. Stands(s)'
    <2>1. Refers(s)'
      BY <1>1, <1>2 DEF Refers, Holds
    <2>2. SeenClosed(s)'
      BY <1>1, <1>2, ClosedMeansTerminal DEF SeenClosed, Terminal, Status
    <2> QED BY <1>1, <2>1, <2>2 DEF Stands, Holds, StagedStands
  <1>6. \A t \in Sessions \ {s} : Apart(s, t)'
    BY <1>1 DEF Apart, Holds, HoldsBooks
  <1> QED BY <1>2, <1>3, <1>4, <1>5, <1>6, QuietStep

(* Disputes and cancellations are about milestones.                        *)
LEMMA AboutMilestones ==
  ASSUME TypeOK
  PROVE  /\ \A d \in DOMAIN dispute : dispute[d].m \in Milestones /\ d \in Nat
         /\ \A c \in DOMAIN cancellation :
              cancellation[c].m \in Milestones /\ c \in Nat /\ cancellation[c].active \subseteq Nat
  <1>1. dispute \in Seq(DisputeRows) /\ cancellation \in Seq(CancellationRows)
    BY DEF TypeOK
  <1>2. \A d \in DOMAIN dispute : dispute[d] \in DisputeRows /\ d \in Nat
    BY <1>1
  <1>3. \A c \in DOMAIN cancellation : cancellation[c] \in CancellationRows /\ c \in Nat
    BY <1>1
  <1> QED BY <1>2, <1>3 DEF DisputeRows, CancellationRows

(* A request passes its unlocked checks.                                   *)
LEMMA AsksPreserves ==
  ASSUME IInv, NEW s \in Sessions, Asks(s)
  PROVE  IInv'
  <1>1. PICK op \in Ops :
          \/ /\ op \in MilestoneOps
             /\ \E m \in Milestones, k \in OptionalKeys : AskAboutMilestone(s, op, m, k)
          \/ /\ op \in Resolutions \cup {"add_message"}
             /\ \E d \in DOMAIN dispute : AskAboutDispute(s, op, d)
          \/ /\ op \in CancellationOps
             /\ \E c \in DOMAIN cancellation : AskAboutCancellation(s, op, c)
    BY DEF Asks, Deciding, CancellationOps
  <1>2. op \in OpNames /\ NoKey \in OptionalKeys
    BY OpsAssumption DEF OptionalKeys
  <1>3. MilestoneOps \cap (Resolutions \cup CancellationOps \cup {"add_message"}) = {}
        /\ CancellationOps \cap (Resolutions \cup {"add_message"}) = {}
    BY DEF MilestoneOps, PartyMoves, Resolutions, Deciding, CancellationOps
  <1>4. CASE op \in MilestoneOps
             /\ \E m \in Milestones, k \in OptionalKeys : AskAboutMilestone(s, op, m, k)
    <2>1. PICK m \in Milestones, k \in OptionalKeys : AskAboutMilestone(s, op, m, k)
      BY <1>4
    <2> DEFINE r == [op |-> op, m |-> m, n |-> 0, key |-> k]
    <2>2. r \in Requests /\ r.op = op /\ r.key = k
      BY <1>2 DEF Requests
    <2>3. Begin(s, r, {}) /\ (k # NoKey => op \in KeyedOps)
      BY <2>1 DEF AskAboutMilestone, KeyedOps
    <2> HIDE DEF r
    <2> QED BY <1>3, <1>4, <2>2, <2>3, BeginPreserves
  <1>5. CASE op \in Resolutions \cup {"add_message"}
             /\ \E d \in DOMAIN dispute : AskAboutDispute(s, op, d)
    <2>1. PICK d \in DOMAIN dispute : AskAboutDispute(s, op, d)
      BY <1>5
    <2> DEFINE r == [op |-> op, m |-> dispute[d].m, n |-> d, key |-> NoKey]
    <2>2. dispute[d].m \in Milestones /\ d \in Nat
      BY AboutMilestones DEF IInv
    <2>3. r \in Requests /\ r.op = op /\ r.key = NoKey /\ r.n = d /\ r.m = dispute[d].m
      BY <1>2, <2>2 DEF Requests
    <2>4. Begin(s, r, {})
      BY <2>1 DEF AskAboutDispute
    <2> HIDE DEF r
    <2> QED BY <1>3, <1>5, <2>3, <2>4, BeginPreserves
  <1>6. CASE op \in CancellationOps /\ \E c \in DOMAIN cancellation : AskAboutCancellation(s, op, c)
    <2>1. PICK c \in DOMAIN cancellation : AskAboutCancellation(s, op, c)
      BY <1>6
    <2> DEFINE r == [op |-> op, m |-> cancellation[c].m, n |-> c, key |-> NoKey]
    <2> DEFINE codes == IF op = "verify_cancellation" THEN {} ELSE cancellation[c].active
    <2>2. cancellation[c].m \in Milestones /\ c \in Nat /\ codes \in SUBSET Nat
      BY AboutMilestones DEF IInv
    <2>3. r \in Requests /\ r.op = op /\ r.key = NoKey /\ r.n = c /\ r.m = cancellation[c].m
      BY <1>2, <2>2 DEF Requests
    <2>4. Begin(s, r, codes)
      BY <2>1 DEF AskAboutCancellation
    <2> HIDE DEF r, codes
    <2> QED BY <1>3, <1>6, <2>2, <2>3, <2>4, BeginPreserves
  <1> QED BY <1>1, <1>4, <1>5, <1>6

(* A session looks for the codes, and locks those that are still ACTIVE.   *)
LEMMA CodeStepsPreserve ==
  ASSUME IInv, NEW s \in Sessions, FindCode(s) \/ LockCode(s)
  PROVE  IInv'
  <1>1. UNCHANGED Rows /\ UNCHANGED <<project, milestone, dispute, cancellation, balance, txns>>
        /\ UNCHANGED <<req, seen, staged>>
    BY DEF FindCode, LockCode, Goes, Rows
  <1>2. pc'[s] \in {"found", "coded"} /\ pc[s] # "idle" /\ Stands(s)
        /\ req[s].op = "verify_cancellation"
    BY DEF FindCode, LockCode, Goes, IInv, TypeOK, Stands, Refers
  <1>3. OthersIdleBy(s)
    BY <1>1 DEF OthersIdleBy, FindCode, LockCode, Goes, IInv, TypeOK
  <1>4. TypeOK'
    <2>1. PICK stage \in {"found", "coded"}, codes \in SUBSET Nat :
            pc' = [pc EXCEPT ![s] = stage] /\ loaded' = [loaded EXCEPT ![s] = codes]
      <3>1. CASE FindCode(s)
        <4>1. req[s].n \in DOMAIN cancellation
          BY <1>2 DEF Stands, Refers, Deciding, CancellationOps
        <4>2. cancellation[req[s].n].active \in SUBSET Nat
          BY <4>1, AboutMilestones DEF IInv
        <4> QED BY <3>1, <4>2 DEF FindCode, Goes
      <3>2. CASE LockCode(s)
        <4>1. loaded[s] \cap cancellation[req[s].n].active \in SUBSET Nat
          BY DEF IInv, TypeOK
        <4> QED BY <3>2, <4>1 DEF LockCode, Goes
      <3> QED BY <3>1, <3>2
    <2> QED BY <1>1, <2>1 DEF TypeOK, IInv
  <1>5. Stands(s)'
    BY <1>1, <1>2 DEF Stands, Refers, SeenClosed, Terminal, Status, Holds, StagedStands
  <1>6. \A t \in Sessions \ {s} : Apart(s, t)'
    BY <1>2 DEF Apart, Holds, HoldsBooks
  <1> QED BY <1>1, <1>3, <1>4, <1>5, <1>6, QuietStep

(* The milestone's row is locked and the checks made again.                *)
LEMMA LockPreserves ==
  ASSUME IInv, NEW s \in Sessions, Lock(s)
  PROVE  IInv'
  <1>1. UNCHANGED Rows /\ UNCHANGED <<project, milestone, dispute, cancellation, balance, txns>>
        /\ UNCHANGED <<req, staged>>
    BY DEF Lock, Goes, Rows
  <1>2. pc'[s] = "locked" /\ pc[s] \in {"asked", "coded"} /\ req[s].op \in Settling
        /\ (req[s].op = "verify_cancellation" => pc[s] = "coded")
        /\ Permitted(req[s]) /\ ~Held(req[s].m) /\ seen'[s] \in {seen[s], project}
    BY DEF Lock, Goes, Reaches, IInv, TypeOK
  <1>3. OthersIdleBy(s)
    BY <1>1 DEF OthersIdleBy, Lock, Goes, IInv, TypeOK
  <1>4. TypeOK'
    BY <1>1 DEF TypeOK, IInv, Lock, Goes
  <1>5. Stands(s)'
    <2>1. Stands(s)
      BY DEF IInv
    <2>2. SeenClosed(s)'
      BY <1>1, <1>2, <2>1, ClosedMeansTerminal DEF SeenClosed, Stands, Terminal, Status
    <2>3. Refers(s)'
      BY <1>1, <1>2, <2>1 DEF Refers, Stands, Holds
    <2>4. Permitted(req[s])'
      BY <1>1, <1>2 DEF Permitted
    <2> QED BY <1>2, <2>2, <2>3, <2>4 DEF Stands, StagedStands
  <1>6. ASSUME NEW t \in Sessions \ {s} PROVE Apart(s, t)'
    <2>1. Apart(s, t)
      BY DEF IInv
    <2>2. Holds(t)' => req[t].m # req[s].m
      BY <1>2, <1>3 DEF Held, Holds, OthersIdleBy
    <2> QED BY <1>1, <1>2, <1>3, <2>1, <2>2 DEF Apart, HoldsBooks, OthersIdleBy
  <1> QED BY <1>1, <1>3, <1>4, <1>5, <1>6, QuietStep

(* The next status of a project is one.                                    *)
LEMMA ProjectIsTyped ==
  ASSUME TypeOK, NEW s \in Sessions
  PROVE  NextProject(s) \in ProjectStatuses
  BY DEF TypeOK, NextProject, Completion, ProjectStatuses

(* The posting, or the recorded one a key leads to.                        *)
LEMMA SettlePreserves ==
  ASSUME IInv, NEW s \in Sessions, SettleNew(s) \/ SettleReplayed(s)
  PROVE  IInv'
  <1>1. PICK tx \in Nat :
          /\ Stages(s, tx) /\ pc[s] = "locked" /\ BooksFree(s)
          /\ tx # 0 => /\ tx \in DOMAIN txns /\ txns[tx].entry = EntryOf(req[s])
                       /\ txns[tx].key = req[s].key /\ req[s].key # NoKey
          /\ tx = 0 /\ Posts(req[s].op) => Covered(balance, EntryOf(req[s]))
    <2>1. CASE SettleNew(s)
      BY <2>1 DEF SettleNew
    <2>2. CASE SettleReplayed(s)
      <3>1. PICK i \in Recorded(req[s].key) : txns[i].entry = EntryOf(req[s]) /\ Stages(s, i)
        BY <2>2 DEF SettleReplayed
      <3>2. i \in DOMAIN txns /\ i \in Nat /\ i # 0 /\ txns[i].key = req[s].key
            /\ req[s].key # NoKey
        BY <3>1 DEF Recorded, IInv, TypeOK
      <3> QED BY <2>2, <3>1, <3>2 DEF SettleReplayed
    <2> QED BY <2>1, <2>2
  <1>2. UNCHANGED Rows /\ UNCHANGED <<project, milestone, dispute, cancellation, balance, txns>>
        /\ UNCHANGED <<req, seen>>
    BY <1>1 DEF Stages, Goes, Rows
  <1>3. pc'[s] = "settled" /\ staged'[s].project = NextProject(s) /\ staged'[s].tx = tx
    BY <1>1 DEF Stages, Goes, IInv, TypeOK
  <1>4. OthersIdleBy(s)
    BY <1>1, <1>2 DEF OthersIdleBy, Stages, Goes, IInv, TypeOK
  <1>5. TypeOK'
    <2>1. staged' \in [Sessions -> [project : ProjectStatuses, tx : Nat]]
      BY <1>1, ProjectIsTyped DEF Stages, IInv, TypeOK
    <2> QED BY <1>1, <1>2, <2>1 DEF TypeOK, IInv, Stages, Goes
  <1>6. Stands(s)'
    <2>1. Stands(s) /\ Refers(s) /\ SeenClosed(s) /\ Permitted(req[s])
      BY <1>1 DEF IInv, Stands, Holds
    <2>2. NextProject(s)' = NextProject(s)
      BY <1>2 DEF NextProject, Completion
    <2>3. StagedStands(s)'
      BY <1>1, <1>2, <1>3, <2>2 DEF StagedStands, EntryOf
    <2>4. Refers(s)' /\ SeenClosed(s)'
      BY <1>1, <1>2, <1>3, <2>1 DEF Refers, SeenClosed, Terminal, Status, Holds
    <2>5. Permitted(req[s])'
      BY <1>2, <2>1 DEF Permitted
    <2> QED BY <2>3, <2>4, <2>5 DEF Stands
  <1>7. ASSUME NEW t \in Sessions \ {s} PROVE Apart(s, t)'
    <2>1. Apart(s, t)
      BY DEF IInv
    <2>2. ~(HoldsBooks(s)' /\ HoldsBooks(t)')
      BY <1>1, <1>2, <1>4 DEF BooksFree, HoldsBooks, OthersIdleBy
    <2> QED BY <1>1, <1>2, <1>3, <1>4, <2>1, <2>2 DEF Apart, Holds, OthersIdleBy
  <1> QED BY <1>2, <1>4, <1>5, <1>6, <1>7, QuietStep

(* A handler is refused, loses a race, or dies.                            *)
LEMMA EndedPreserves ==
  ASSUME IInv, NEW s \in Sessions,
         Refuse(s) \/ NoCode(s) \/ CannotSettle(s) \/ LoseRelease(s) \/ Rollback(s)
  PROVE  IInv'
  <1>1. End(s) /\ UNCHANGED Rows
    BY DEF Refuse, NoCode, CannotSettle, LoseRelease, Rollback
  <1> QED BY <1>1, EndedQuietly

-----------------------------------------------------------------------------
(* Writing a milestone's row.                                              *)

(* Milestone m is written, by someone who may.                             *)
Writes(m) ==
  /\ ~Terminal(m)
  /\ milestone' \in [Milestones -> MilestoneRows]
  /\ milestone'[m].status \notin {"DRAFT", "PENDING_FUNDING"}
  /\ \A x \in Milestones \ {m} : milestone'[x] = milestone[x]

(* New disputes and cancellations are about the milestone being written.   *)
RefersOn(m) ==
  /\ \A d \in DOMAIN dispute' :
       dispute'[d].m = m \/ (d \in DOMAIN dispute /\ dispute'[d].m = dispute[d].m)
  /\ \A c \in DOMAIN cancellation' :
       \/ cancellation'[c].m = m
       \/ c \in DOMAIN cancellation /\ cancellation'[c].m = cancellation[c].m

(* Only who cancels the milestone confirms a request to.                   *)
DecidesOn(m) ==
  \A c \in DOMAIN cancellation' :
    cancellation'[c].status = "CONFIRMED" =>
      \/ /\ c \in DOMAIN cancellation
         /\ cancellation[c].status = "CONFIRMED"
         /\ cancellation'[c].m = cancellation[c].m
      \/ cancellation'[c].m = m /\ milestone'[m].status = "CANCELLED"

(* A step that writes one milestone keeps what disputes and cancellations  *)
(* refer to.                                                               *)
LEMMA ReferencesStand ==
  ASSUME IInv, NEW m \in Milestones, Writes(m), RefersOn(m), DecidesOn(m)
  PROVE  AboutFunded' /\ Decided'
  <1>1. \A x \in Milestones : Status(x) # "PENDING_FUNDING" => milestone'[x].status # "PENDING_FUNDING"
    BY DEF Writes, Status
  <1>2. TypeOK
    BY DEF IInv
  <1>3. \A d \in DOMAIN dispute : dispute[d].m \in Milestones
    BY <1>2, AboutMilestones
  <1>4. \A c \in DOMAIN cancellation : cancellation[c].m \in Milestones
    BY <1>2, AboutMilestones
  <1>5. \A d \in DOMAIN dispute' : milestone'[dispute'[d].m].status # "PENDING_FUNDING"
    BY <1>1, <1>3 DEF Writes, RefersOn, IInv, RowsStand, AboutFunded
  <1>6. \A c \in DOMAIN cancellation' : milestone'[cancellation'[c].m].status # "PENDING_FUNDING"
    BY <1>1, <1>4 DEF Writes, RefersOn, IInv, RowsStand, AboutFunded
  <1>7. ASSUME NEW c \in DOMAIN cancellation', cancellation'[c].status = "CONFIRMED"
        PROVE  milestone'[cancellation'[c].m].status = "CANCELLED"
    <2>1. CASE /\ c \in DOMAIN cancellation
               /\ cancellation[c].status = "CONFIRMED"
               /\ cancellation'[c].m = cancellation[c].m
      <3>1. Status(cancellation[c].m) = "CANCELLED"
        BY <2>1 DEF IInv, RowsStand, Decided
      <3> QED BY <1>4, <2>1, <3>1 DEF Writes, Terminal, TerminalStatuses, Status
    <2> QED BY <1>7, <2>1 DEF DecidesOn
  <1>8. Decided'
    BY <1>7 DEF Decided, DecidesOn, Status
  <1> QED BY <1>5, <1>6, <1>8 DEF AboutFunded, Status

(* A step that writes one milestone nobody else has locked leaves the      *)
(* other sessions alone.                                                   *)
LEMMA LocksSuffice ==
  ASSUME IInv, NEW s \in Sessions, NEW m \in Milestones, Writes(m),
         \A t \in Sessions \ {s} : Holds(t) => req[t].m # m,
         \A d \in DOMAIN dispute : d \in DOMAIN dispute' /\ dispute'[d].m = dispute[d].m,
         \A c \in DOMAIN cancellation :
           c \in DOMAIN cancellation' /\ cancellation'[c].m = cancellation[c].m,
         \A i \in DOMAIN txns : i \in DOMAIN txns' /\ txns'[i] = txns[i],
         HoldsBooks(s) \/ (balance' = balance /\ milestone'[m].status \notin TerminalStatuses)
  PROVE  LeavesOthers(s)
  <1>1. \A x \in Milestones :
          milestone'[x] = milestone[x] \/ \A t \in Sessions \ {s} : Holds(t) => req[t].m # x
    BY DEF Writes
  <1>2. \A x \in Milestones : Terminal(x) => milestone'[x] = milestone[x]
    BY DEF Writes
  <1>3. ASSUME NEW t \in Sessions \ {s}, HoldsBooks(t)
        PROVE  /\ balance' = balance
               /\ \A x \in Milestones :
                    milestone'[x].status \in TerminalStatuses => milestone'[x] = milestone[x]
    <2>1. ~HoldsBooks(s)
      BY <1>3 DEF IInv, Apart
    <2> QED BY <2>1 DEF Writes
  <1> QED BY <1>1, <1>2, <1>3 DEF LeavesOthers

-----------------------------------------------------------------------------
(* What a milestone's rows in the ledger say, after its row is written.    *)

MoneyRows == FundedOnce /\ BooksMatch /\ OncePerKind /\ KeyedReleases /\ ReleasedWasPaid

(* A recorded transaction is one, about a milestone.                       *)
LEMMA TransactionsAre ==
  ASSUME TypeOK
  PROVE  \A i \in DOMAIN txns : txns[i] \in Transactions /\ txns[i].m \in Milestones
  <1>1. txns \in Seq(Transactions)
    BY DEF TypeOK
  <1>2. \A i \in DOMAIN txns : txns[i] \in Transactions
    BY <1>1
  <1> QED BY <1>2 DEF Transactions

(* The money stays where it is.                                            *)
LEMMA InsideMove ==
  ASSUME IInv, NEW m \in Milestones, Writes(m), Status(m) \in ProtectedStatuses,
         milestone'[m].status \in ProtectedStatuses,
         milestone'[m].funding = milestone[m].funding,
         milestone'[m].release = milestone[m].release, txns' = txns
  PROVE  MoneyRows'
  <1>1. \A x \in Milestones :
          /\ milestone'[x].funding = milestone[x].funding
          /\ milestone'[x].release = milestone[x].release
          /\ \/ milestone'[x].status = Status(x)
             \/ Status(x) \in ProtectedStatuses /\ milestone'[x].status \in ProtectedStatuses
    BY DEF Writes, Status
  <1>2. \A i \in DOMAIN txns : txns[i].m \in Milestones
    BY TransactionsAre DEF IInv
  <1>3. FundedOnce'
    BY <1>1 DEF IInv, RowsStand, FundedOnce, Status, ProtectedStatuses
  <1>4. BooksMatch'
    BY <1>1, <1>2 DEF IInv, RowsStand, BooksMatch, IsFunding, Status, ProtectedStatuses
  <1>5. OncePerKind'
    BY DEF IInv, RowsStand, OncePerKind, IsFunding
  <1>6. KeyedReleases'
    BY <1>1, <1>2 DEF IInv, RowsStand, KeyedReleases
  <1>7. ReleasedWasPaid'
    BY <1>1 DEF IInv, RowsStand, ReleasedWasPaid, Status, ProtectedStatuses
  <1> QED BY <1>3, <1>4, <1>5, <1>6, <1>7 DEF MoneyRows

(* A milestone is funded, by a new transaction or by a recorded one.       *)
LEMMA FundMove ==
  ASSUME IInv, NEW m \in Milestones, Writes(m), Status(m) = "PENDING_FUNDING",
         milestone'[m].status = "FUNDED", milestone'[m].funding # 0,
         NEW k \in OptionalKeys,
         \/ txns' = txns
         \/ txns' = Append(txns, [entry |-> MilestoneFunding(client, Amount[m]), key |-> k, m |-> m])
  PROVE  MoneyRows'
  <1> DEFINE last == Len(txns) + 1
  <1>1. \A i \in DOMAIN txns : txns[i].m \in Milestones /\ txns[i].m # m
    BY TransactionsAre DEF IInv, RowsStand, BooksMatch
  <1>2. /\ \A i \in DOMAIN txns : i \in DOMAIN txns' /\ txns'[i] = txns[i]
        /\ \A i \in DOMAIN txns' \ DOMAIN txns :
             i = last /\ txns'[i].entry = MilestoneFunding(client, Amount[m]) /\ txns'[i].m = m
    <2>1. txns \in Seq(Transactions)
      BY DEF IInv, TypeOK
    <2>2. CASE txns' = txns
      BY <2>2
    <2>3. CASE txns' = Append(txns, [entry |-> MilestoneFunding(client, Amount[m]),
                                     key |-> k, m |-> m])
      <3> DEFINE new == [entry |-> MilestoneFunding(client, Amount[m]), key |-> k, m |-> m]
      <3>1. new.entry = MilestoneFunding(client, Amount[m]) /\ new.m = m
        OBVIOUS
      <3> HIDE DEF new
      <3> QED BY <2>1, <2>3, <3>1 DEF new
    <2> QED BY <2>2, <2>3
  <1>3. MilestoneFunding(client, Amount[m]).type = "MILESTONE_FUNDING"
    BY DEF MilestoneFunding, Transfer
  <1>4. FundedOnce'
    BY DEF IInv, RowsStand, FundedOnce, Writes, Status
  <1>5. BooksMatch'
    <2> SUFFICES ASSUME NEW i \in DOMAIN txns'
                 PROVE  /\ milestone'[txns'[i].m].status # "PENDING_FUNDING"
                        /\ milestone'[txns'[i].m].status \in ProtectedStatuses
                             => txns'[i].entry.type = "MILESTONE_FUNDING"
                        /\ txns'[i].entry.type = "MILESTONE_FUNDING"
                             => txns'[i].entry = MilestoneFunding(client, Amount[txns'[i].m])
      BY DEF BooksMatch, IsFunding, Status
    <2>1. CASE i \in DOMAIN txns
      BY <1>1, <1>2, <2>1 DEF IInv, RowsStand, BooksMatch, IsFunding, Status, Writes
    <2>2. CASE i \notin DOMAIN txns
      BY <1>2, <1>3, <2>2
    <2> QED BY <2>1, <2>2
  <1>6. OncePerKind'
    BY <1>1, <1>2 DEF IInv, RowsStand, OncePerKind, IsFunding
  <1>7. KeyedReleases'
    BY <1>1, <1>2, <1>3 DEF IInv, RowsStand, KeyedReleases, Writes
  <1>8. ReleasedWasPaid'
    BY <1>2 DEF IInv, RowsStand, ReleasedWasPaid, Writes
  <1> QED BY <1>4, <1>5, <1>6, <1>7, <1>8 DEF MoneyRows

(* The milestone's money leaves protection.                                *)
LEMMA PayMove ==
  ASSUME IInv, NEW m \in Milestones, Writes(m), Status(m) \in ProtectedStatuses,
         milestone'[m].status \in TerminalStatuses,
         milestone'[m].funding = milestone[m].funding,
         NEW k \in OptionalKeys, NEW e, txns' = Append(txns, [entry |-> e, key |-> k, m |-> m]),
         e.type # "MILESTONE_FUNDING",
         milestone'[m].status = "PAYMENT_RELEASED" => e.type = "PAYMENT_RELEASE",
         e.type = "PAYMENT_RELEASE" /\ k # NoKey => milestone'[m].release = Len(txns) + 1
  PROVE  MoneyRows'
  <1> DEFINE last == Len(txns) + 1
  <1>1. \A i \in DOMAIN txns :
          /\ txns[i].m \in Milestones
          /\ txns[i].m = m => txns[i].entry.type = "MILESTONE_FUNDING"
    BY TransactionsAre DEF IInv, RowsStand, BooksMatch, IsFunding
  <1>2. /\ \A i \in DOMAIN txns : i \in DOMAIN txns' /\ txns'[i] = txns[i]
        /\ last \in DOMAIN txns' /\ last \notin DOMAIN txns
        /\ \A i \in DOMAIN txns' : i \in DOMAIN txns \/ i = last
        /\ txns'[last].entry = e /\ txns'[last].m = m /\ txns'[last].key = k
    BY DEF IInv, TypeOK
  <1> HIDE DEF last
  <1>3. FundedOnce'
    BY DEF IInv, RowsStand, FundedOnce, Writes, Status, ProtectedStatuses
  <1>4. BooksMatch'
    <2> SUFFICES ASSUME NEW i \in DOMAIN txns'
                 PROVE  /\ milestone'[txns'[i].m].status # "PENDING_FUNDING"
                        /\ milestone'[txns'[i].m].status \in ProtectedStatuses
                             => txns'[i].entry.type = "MILESTONE_FUNDING"
                        /\ txns'[i].entry.type = "MILESTONE_FUNDING"
                             => txns'[i].entry = MilestoneFunding(client, Amount[txns'[i].m])
      BY DEF BooksMatch, IsFunding, Status
    <2>1. CASE i \in DOMAIN txns
      BY <1>1, <1>2, <2>1 DEF IInv, RowsStand, BooksMatch, IsFunding, Status, Writes
    <2>2. CASE i = last
      BY <1>2, <2>2 DEF TerminalStatuses, ProtectedStatuses
    <2> QED BY <1>2, <2>1, <2>2
  <1>5. OncePerKind'
    BY <1>1, <1>2 DEF IInv, RowsStand, OncePerKind, IsFunding
  <1>6. KeyedReleases'
    <2> SUFFICES ASSUME NEW i \in DOMAIN txns', txns'[i].entry.type = "PAYMENT_RELEASE",
                        txns'[i].key # NoKey
                 PROVE  milestone'[txns'[i].m].release = i
      BY DEF KeyedReleases
    <2>1. CASE i \in DOMAIN txns
      BY <1>1, <1>2, <2>1 DEF IInv, RowsStand, KeyedReleases, Writes
    <2>2. CASE i = last
      BY <1>2, <2>2 DEF last
    <2> QED BY <1>2, <2>1, <2>2
  <1>7. ReleasedWasPaid'
    <2> SUFFICES ASSUME NEW x \in Milestones, milestone'[x].status = "PAYMENT_RELEASED"
                 PROVE  \E i \in DOMAIN txns' :
                          txns'[i].m = x /\ txns'[i].entry.type = "PAYMENT_RELEASE"
      BY DEF ReleasedWasPaid
    <2>1. CASE x = m
      BY <1>2, <2>1
    <2>2. CASE x # m
      BY <1>2, <2>2 DEF IInv, RowsStand, ReleasedWasPaid, Writes
    <2> QED BY <2>1, <2>2
  <1> QED BY <1>3, <1>4, <1>5, <1>6, <1>7 DEF MoneyRows

-----------------------------------------------------------------------------
(* The project's status follows its milestones.                            *)

(* A milestone that stays open does not close the project.                 *)
LEMMA StaysOpen ==
  ASSUME IInv, NEW m \in Milestones, Writes(m), milestone'[m].status \notin TerminalStatuses,
         project' \in {project} \cup (ProjectStatuses \ Closed)
  PROVE  ClosedWithLastMilestone'
  <1> DEFINE after == {milestone'[x].status : x \in Milestones}
  <1>1. project' \notin Closed
    BY ClosedMeansTerminal DEF Writes
  <1>2. ~(after \subseteq TerminalStatuses)
    OBVIOUS
  <1>3. after # {"CANCELLED"}
    BY <1>2 DEF TerminalStatuses
  <1> HIDE DEF after
  <1>4. /\ project' = "COMPLETED" <=> after \subseteq TerminalStatuses /\ "PAYMENT_RELEASED" \in after
        /\ project' = "CANCELLED" <=> after = {"CANCELLED"}
    BY <1>1, <1>2, <1>3 DEF Closed
  <1> QED BY <1>4 DEF ClosedWithLastMilestone, after

(* A commit writes the project's status as it must be, though the other    *)
(* milestones' rows were read without their locks: the account's lock kept *)
(* them from ending meanwhile.                                             *)
LEMMA CommitCloses ==
  ASSUME IInv, NEW s \in Sessions, pc[s] = "settled", req[s].m \in Milestones,
         Writes(req[s].m), milestone'[req[s].m].status = Target(req[s].op),
         project' = Written(s, staged[s].project)
  PROVE  ClosedWithLastMilestone' /\ project' \in ProjectStatuses
  <1> DEFINE m == req[s].m
  <1> DEFINE end == Target(req[s].op)
  <1> DEFINE others == {milestone[x].status : x \in Milestones \ {m}}
  <1> DEFINE after == {milestone'[x].status : x \in Milestones}
  <1>1. after = others \cup {end}
    BY DEF Writes
  <1>2. SeenClosed(s) /\ staged[s].project = NextProject(s)
    BY DEF IInv, Stands, StagedStands
  <1>3. seen[s] \notin Closed /\ seen[s] \in ProjectStatuses
    BY <1>2 DEF SeenClosed, Writes, IInv, TypeOK
  <1>4. project \notin Closed /\ project \in ProjectStatuses
    BY ClosedMeansTerminal DEF Writes, IInv, TypeOK
  <1> HIDE DEF after
  <1>5. CASE ~(after \subseteq TerminalStatuses)
    <2>1. NextProject(s) \in {"ACTIVE", seen[s]}
      BY <1>1, <1>5 DEF NextProject, Completion
    <2>2. project' \in {"ACTIVE", seen[s], project}
      BY <1>2, <2>1 DEF Written
    <2>3. project' \notin Closed /\ project' \in ProjectStatuses
      BY <1>3, <1>4, <2>2 DEF Closed, ProjectStatuses
    <2>4. after # {"CANCELLED"}
      BY <1>5 DEF TerminalStatuses
    <2> QED BY <1>5, <2>3, <2>4 DEF ClosedWithLastMilestone, after, Closed
  <1>6. CASE after \subseteq TerminalStatuses
    <2>1. NextProject(s) = IF "PAYMENT_RELEASED" \in after THEN "COMPLETED" ELSE "CANCELLED"
      BY <1>1, <1>6 DEF NextProject, Completion
    <2>2. project' = NextProject(s)
      BY <1>2, <1>3, <2>1 DEF Written, Closed
    <2>3. after = {"CANCELLED"} <=> "PAYMENT_RELEASED" \notin after
      BY <1>1, <1>6 DEF TerminalStatuses
    <2> QED BY <1>6, <2>1, <2>2, <2>3 DEF ClosedWithLastMilestone, after, ProjectStatuses
  <1> QED BY <1>5, <1>6

(* A sequence, perhaps with one more element.                              *)
LEMMA Appended ==
  ASSUME NEW S, NEW q \in Seq(S), NEW x \in S, NEW p, p = q \/ p = Append(q, x)
  PROVE  /\ p \in Seq(S)
         /\ \A i \in DOMAIN q : i \in DOMAIN p /\ p[i] = q[i]
         /\ \A i \in DOMAIN p : i \in DOMAIN q \/ p[i] = x
  <1>1. CASE p = q
    BY <1>1
  <1>2. CASE p = Append(q, x)
    BY <1>2
  <1> QED BY <1>1, <1>2

-----------------------------------------------------------------------------
(* Handlers that move no money.                                            *)

(* A row with its status, its funding and its release as they are given.   *)
RowOf(m, status, funding, release, n) ==
  [milestone EXCEPT ![m] =
     [status |-> status, funding |-> funding, release |-> release, revisions |-> n]]

ActOps == {"start_work", "submit_milestone", "request_changes", "request_cancellation",
           "raise_dispute"}

(* A handler that commits while it locks finds a funded milestone that     *)
(* nobody else has locked.                                                 *)
LEMMA ActingFinds ==
  ASSUME IInv, NEW s \in Sessions, NEW op \in ActOps, Acts(s, op)
  PROVE  /\ req[s].m \in Milestones
         /\ Status(req[s].m) \in ProtectedStatuses /\ ~Terminal(req[s].m)
         /\ milestone[req[s].m] \in MilestoneRows
         /\ \A t \in Sessions \ {s} : Holds(t) => req[t].m # req[s].m
  <1>1. Refers(s) /\ Permitted(req[s]) /\ req[s].op = op /\ ~Held(req[s].m)
        /\ op \in DOMAIN Via
    BY DEF Acts, Reaches, IInv, Stands
  <1>2. req[s].m \in Milestones /\ Status(req[s].m) \in ProtectedStatuses
    BY <1>1, Leaves DEF IInv, RowsStand, ActOps
  <1> QED BY <1>1, <1>2, StatusNames, TypedRow DEF IInv, Terminal, Held, Holds

(* The handlers that move no money: they write one row, and perhaps add a  *)
(* dispute or a cancellation.                                              *)
LEMMA ActPreserves ==
  ASSUME IInv, NEW s \in Sessions, NEW op \in ActOps, Acts(s, op),
         NEW to \in ProtectedStatuses, NEW n \in Nat,
         milestone' = RowOf(req[s].m, to, milestone[req[s].m].funding,
                            milestone[req[s].m].release, n),
         project' \in {project} \cup (ProjectStatuses \ Closed),
         dispute' \in {dispute, Append(dispute, [m |-> req[s].m, status |-> "OPEN"])},
         cancellation' \in {cancellation,
           Append(cancellation, [m |-> req[s].m, status |-> "AWAITING_RECEIVER",
                                 sent |-> 1, active |-> {1}])},
         balance' = balance, txns' = txns
  PROVE  IInv'
  <1> DEFINE m == req[s].m
  <1>1. /\ m \in Milestones /\ Status(m) \in ProtectedStatuses /\ ~Terminal(m)
        /\ milestone[m] \in MilestoneRows
        /\ \A t \in Sessions \ {s} : Holds(t) => req[t].m # m
    BY ActingFinds
  <1>2. to \in MilestoneStatuses /\ to \notin TerminalStatuses
        /\ to \notin {"DRAFT", "PENDING_FUNDING"}
    BY StatusNames
  <1> DEFINE row == [status |-> to, funding |-> milestone[m].funding,
                     release |-> milestone[m].release, revisions |-> n]
  <1>3. row \in MilestoneRows
    BY <1>1, <1>2 DEF MilestoneRows
  <1>4. /\ milestone' \in [Milestones -> MilestoneRows] /\ milestone'[m] = row
        /\ \A x \in Milestones \ {m} : milestone'[x] = milestone[x]
    <2>1. milestone' = [milestone EXCEPT ![m] = row]
      BY DEF RowOf
    <2> HIDE DEF row
    <2> QED BY <1>1, <1>3, <2>1 DEF IInv, TypeOK
  <1>5. Writes(m) /\ milestone'[m].status = to
    BY <1>1, <1>2, <1>4 DEF Writes
  <1> DEFINE raised == [m |-> m, status |-> "OPEN"]
  <1> DEFINE asked == [m |-> m, status |-> "AWAITING_RECEIVER", sent |-> 1, active |-> {1}]
  <1>6. raised \in DisputeRows /\ asked \in CancellationRows
    BY <1>1 DEF DisputeRows, CancellationRows, OpenStatuses
  <1>7. dispute' \in {dispute, Append(dispute, raised)}
        /\ cancellation' \in {cancellation, Append(cancellation, asked)}
    OBVIOUS
  <1>8. raised.m = m /\ asked.m = m /\ asked.status = "AWAITING_RECEIVER"
    OBVIOUS
  <1> HIDE DEF raised, asked
  <1>9. /\ dispute' \in Seq(DisputeRows)
        /\ \A d \in DOMAIN dispute : d \in DOMAIN dispute' /\ dispute'[d] = dispute[d]
        /\ \A d \in DOMAIN dispute' : d \in DOMAIN dispute \/ dispute'[d] = raised
    <2>1. dispute \in Seq(DisputeRows)
      BY DEF IInv, TypeOK
    <2>2. dispute' = dispute \/ dispute' = Append(dispute, raised)
      BY <1>7
    <2> QED BY <1>6, <2>1, <2>2, Appended
  <1>10. /\ cancellation' \in Seq(CancellationRows)
         /\ \A c \in DOMAIN cancellation : c \in DOMAIN cancellation' /\ cancellation'[c] = cancellation[c]
         /\ \A c \in DOMAIN cancellation' : c \in DOMAIN cancellation \/ cancellation'[c] = asked
    <2>1. cancellation \in Seq(CancellationRows)
      BY DEF IInv, TypeOK
    <2>2. cancellation' = cancellation \/ cancellation' = Append(cancellation, asked)
      BY <1>7
    <2> QED BY <1>6, <2>1, <2>2, Appended
  <1>11. RefersOn(m)
    <2>1. \A d \in DOMAIN dispute' :
            dispute'[d].m = m \/ (d \in DOMAIN dispute /\ dispute'[d].m = dispute[d].m)
      BY <1>8, <1>9
    <2>2. \A c \in DOMAIN cancellation' :
            \/ cancellation'[c].m = m
            \/ c \in DOMAIN cancellation /\ cancellation'[c].m = cancellation[c].m
      BY <1>8, <1>10
    <2> QED BY <2>1, <2>2 DEF RefersOn
  <1>12. DecidesOn(m)
    BY <1>8, <1>10 DEF DecidesOn, IInv, RowsStand, Decided
  <1>13. AboutFunded' /\ Decided'
    BY <1>1, <1>5, <1>11, <1>12, ReferencesStand
  <1>14. MoneyRows'
    <2>1. milestone'[m].funding = milestone[m].funding /\ milestone'[m].release = milestone[m].release
      BY <1>4
    <2> QED BY <1>1, <1>5, <2>1, InsideMove
  <1>15. ClosedWithLastMilestone'
    BY <1>1, <1>2, <1>5, StaysOpen
  <1>16. LeavesOthers(s)
    BY <1>1, <1>2, <1>5, <1>9, <1>10, LocksSuffice
  <1>17. project' \in ProjectStatuses /\ balance' \in [Accounts -> Int] /\ txns' \in Seq(Transactions)
    BY DEF IInv, TypeOK
  <1>18. RowsStand'
    BY <1>13, <1>14, <1>15 DEF RowsStand, MoneyRows
  <1>19. End(s)
    BY DEF Acts
  <1> QED BY <1>4, <1>9, <1>10, <1>16, <1>17, <1>18, <1>19, EndStep

(* transition() writes a status and nothing else.                          *)
LEMMA StatusWritten ==
  ASSUME TypeOK, NEW m \in Milestones, NEW status
  PROVE  WithStatus(m, status) =
           RowOf(m, status, milestone[m].funding, milestone[m].release, milestone[m].revisions)
  <1> DEFINE row == milestone[m]
  <1>1. row \in MilestoneRows
    BY TypedRow
  <1>2. [row EXCEPT !.status = status] =
          [status |-> status, funding |-> row.funding, release |-> row.release,
           revisions |-> row.revisions]
    BY <1>1 DEF MilestoneRows
  <1>3. WithStatus(m, status) = [milestone EXCEPT ![m] = [row EXCEPT !.status = status]]
    BY DEF WithStatus
  <1> QED BY <1>2, <1>3 DEF RowOf

(* A row that is written is the only one that changes.                     *)
LEMMA RowWritten ==
  ASSUME TypeOK, NEW m \in Milestones, NEW status, NEW funding, NEW release, NEW n,
         NEW after, after = RowOf(m, status, funding, release, n)
  PROVE  /\ DOMAIN after = Milestones
         /\ after[m] = [status |-> status, funding |-> funding, release |-> release,
                        revisions |-> n]
         /\ \A x \in Milestones \ {m} : after[x] = milestone[x]
         /\ \A y : [after EXCEPT ![m].funding = y] = RowOf(m, status, y, release, n)
         /\ \A y : [after EXCEPT ![m].release = y] = RowOf(m, status, funding, y, n)
         /\ \A y : [after EXCEPT ![m].revisions = y] = RowOf(m, status, funding, release, y)
  <1> DEFINE row == [status |-> status, funding |-> funding, release |-> release,
                     revisions |-> n]
  <1>1. DOMAIN milestone = Milestones /\ m \in Milestones
    BY DEF TypeOK
  <1>2. \A y : [row EXCEPT !.funding = y] =
                 [status |-> status, funding |-> y, release |-> release, revisions |-> n]
    OBVIOUS
  <1>3. \A y : [row EXCEPT !.release = y] =
                 [status |-> status, funding |-> funding, release |-> y, revisions |-> n]
    OBVIOUS
  <1>4. \A y : [row EXCEPT !.revisions = y] =
                 [status |-> status, funding |-> funding, release |-> release, revisions |-> y]
    OBVIOUS
  <1>5. after = [milestone EXCEPT ![m] = row]
    BY DEF RowOf
  <1> HIDE DEF row
  <1>6. DOMAIN after = Milestones /\ after[m] = row
        /\ \A x \in Milestones \ {m} : after[x] = milestone[x]
    BY <1>1, <1>5
  <1>7. \A z : [after EXCEPT ![m] = z] = [milestone EXCEPT ![m] = z]
    BY <1>1, <1>5
  <1>8. \A y : [after EXCEPT ![m].funding = y] = RowOf(m, status, y, release, n)
    BY <1>2, <1>6, <1>7 DEF RowOf
  <1>9. \A y : [after EXCEPT ![m].release = y] = RowOf(m, status, funding, y, n)
    BY <1>3, <1>6, <1>7 DEF RowOf
  <1>10. \A y : [after EXCEPT ![m].revisions = y] = RowOf(m, status, funding, release, y)
    BY <1>4, <1>6, <1>7 DEF RowOf
  <1>11. after[m] = [status |-> status, funding |-> funding, release |-> release, revisions |-> n]
    BY <1>6 DEF row
  <1> QED BY <1>6, <1>8, <1>9, <1>10, <1>11

(* A handler writes the status, and one column more.                       *)
LEMMA TwoColumnsWritten ==
  ASSUME TypeOK, NEW m \in Milestones, NEW status, NEW y
  PROVE  /\ [WithStatus(m, status) EXCEPT ![m].funding = y] =
              RowOf(m, status, y, milestone[m].release, milestone[m].revisions)
         /\ [WithStatus(m, status) EXCEPT ![m].release = y] =
              RowOf(m, status, milestone[m].funding, y, milestone[m].revisions)
  <1> DEFINE after == WithStatus(m, status)
  <1> DEFINE fund == milestone[m].funding
  <1> DEFINE rel == milestone[m].release
  <1> DEFINE revs == milestone[m].revisions
  <1>1. after = RowOf(m, status, fund, rel, revs)
    BY StatusWritten
  <1> HIDE DEF after, fund, rel, revs
  <1>2. /\ after[m] = [status |-> status, funding |-> fund, release |-> rel, revisions |-> revs]
        /\ \A z : [after EXCEPT ![m].funding = z] = RowOf(m, status, z, rel, revs)
    BY <1>1, RowWritten
  <1>3. /\ after[m] = [status |-> status, funding |-> fund, release |-> rel, revisions |-> revs]
        /\ \A z : [after EXCEPT ![m].release = z] = RowOf(m, status, fund, z, revs)
    BY <1>1, RowWritten
  <1> QED BY <1>2, <1>3 DEF after, fund, rel, revs

(* Start, submit, request changes, request a cancellation, raise a         *)
(* dispute.                                                                *)
LEMMA ActionsPreserve ==
  ASSUME IInv, NEW s \in Sessions,
         \/ StartWork(s) \/ SubmitMilestone(s) \/ RequestChanges(s)
         \/ RequestCancellation(s) \/ RaiseDispute(s)
  PROVE  IInv'
  <1> DEFINE m == req[s].m
  <1> DEFINE row == milestone[m]
  <1>1. \A op \in ActOps : Acts(s, op) => m \in Milestones /\ row \in MilestoneRows
    BY ActingFinds
  <1>2. row \in MilestoneRows => row.revisions \in Nat
    BY DEF MilestoneRows
  <1>3. \A status : m \in Milestones =>
          WithStatus(m, status) = RowOf(m, status, row.funding, row.release, row.revisions)
    BY StatusWritten DEF IInv
  <1>5. /\ "start_work" \in ActOps /\ "submit_milestone" \in ActOps
        /\ "request_changes" \in ActOps /\ "request_cancellation" \in ActOps
        /\ "raise_dispute" \in ActOps
    BY DEF ActOps
  <1>6. {"IN_PROGRESS", "SUBMITTED", "CHANGES_REQUESTED", "CANCELLATION_REQUESTED", "DISPUTED"}
          \subseteq ProtectedStatuses
    BY DEF ProtectedStatuses
  <1>7. CASE StartWork(s)
    <2>1. Acts(s, "start_work") /\ milestone' = WithStatus(m, "IN_PROGRESS")
      BY <1>7 DEF StartWork
    <2>2. row.revisions \in Nat
          /\ milestone' = RowOf(m, "IN_PROGRESS", row.funding, row.release, row.revisions)
      BY <1>1, <1>2, <1>3, <1>5, <2>1
    <2>3. UNCHANGED <<project, dispute, cancellation, balance, txns>>
      BY <1>7 DEF StartWork
    <2> QED BY <1>5, <1>6, <2>1, <2>2, <2>3, ActPreserves
  <1>8. CASE SubmitMilestone(s)
    <2>1. Acts(s, "submit_milestone")
      BY <1>8 DEF SubmitMilestone
    <2>2. m \in Milestones /\ row \in MilestoneRows
      BY <1>1, <1>5, <2>1
    <2> DEFINE n == IF row.status = "CHANGES_REQUESTED" THEN row.revisions + 1 ELSE row.revisions
    <2> DEFINE after == WithStatus(m, "SUBMITTED")
    <2>3. after = RowOf(m, "SUBMITTED", row.funding, row.release, row.revisions)
      BY <1>3, <2>2
    <2> HIDE DEF after
    <2>4. after[m].revisions = row.revisions
          /\ \A y : [after EXCEPT ![m].revisions = y] =
                      RowOf(m, "SUBMITTED", row.funding, row.release, y)
      <3> DEFINE fund == row.funding
      <3> DEFINE rel == row.release
      <3> DEFINE revs == row.revisions
      <3>1. TypeOK /\ m \in Milestones /\ after = RowOf(m, "SUBMITTED", fund, rel, revs)
        BY <2>2, <2>3 DEF IInv
      <3> HIDE DEF fund, rel, revs, m
      <3>2. /\ after[m] = [status |-> "SUBMITTED", funding |-> fund, release |-> rel,
                           revisions |-> revs]
            /\ \A y : [after EXCEPT ![m].revisions = y] = RowOf(m, "SUBMITTED", fund, rel, y)
        BY <3>1, RowWritten
      <3> QED BY <3>2 DEF fund, rel, revs
    <2>5. milestone' = [after EXCEPT ![m].revisions =
                          IF milestone[m].status = "CHANGES_REQUESTED" THEN @ + 1 ELSE @]
      BY <1>8 DEF SubmitMilestone, after
    <2>6. milestone' = [after EXCEPT ![m].revisions = n]
      BY <2>4, <2>5
    <2>7. n \in Nat
      BY <1>2, <2>2
    <2> HIDE DEF n
    <2>8. milestone' = RowOf(m, "SUBMITTED", row.funding, row.release, n)
      BY <2>4, <2>6
    <2>9. UNCHANGED <<project, dispute, cancellation, balance, txns>>
      BY <1>8 DEF SubmitMilestone
    <2> QED BY <1>5, <1>6, <2>1, <2>7, <2>8, <2>9, ActPreserves
  <1>9. CASE RequestChanges(s)
    <2>1. Acts(s, "request_changes") /\ milestone' = WithStatus(m, "CHANGES_REQUESTED")
      BY <1>9 DEF RequestChanges
    <2>2. row.revisions \in Nat
          /\ milestone' = RowOf(m, "CHANGES_REQUESTED", row.funding, row.release, row.revisions)
      BY <1>1, <1>2, <1>3, <1>5, <2>1
    <2>3. UNCHANGED <<project, dispute, cancellation, balance, txns>>
      BY <1>9 DEF RequestChanges
    <2> QED BY <1>5, <1>6, <2>1, <2>2, <2>3, ActPreserves
  <1>10. CASE RequestCancellation(s)
    <2>1. Acts(s, "request_cancellation") /\ milestone' = WithStatus(m, "CANCELLATION_REQUESTED")
      BY <1>10 DEF RequestCancellation
    <2>2. row.revisions \in Nat
          /\ milestone' = RowOf(m, "CANCELLATION_REQUESTED", row.funding, row.release, row.revisions)
      BY <1>1, <1>2, <1>3, <1>5, <2>1
    <2>3. /\ UNCHANGED <<project, dispute, balance, txns>>
          /\ cancellation' = Append(cancellation, [m |-> m, status |-> "AWAITING_RECEIVER",
                                                   sent |-> 1, active |-> {1}])
      BY <1>10 DEF RequestCancellation
    <2> QED BY <1>5, <1>6, <2>1, <2>2, <2>3, ActPreserves
  <1>11. CASE RaiseDispute(s)
    <2>1. Acts(s, "raise_dispute") /\ milestone' = WithStatus(m, "DISPUTED")
      BY <1>11 DEF RaiseDispute
    <2>2. row.revisions \in Nat
          /\ milestone' = RowOf(m, "DISPUTED", row.funding, row.release, row.revisions)
      BY <1>1, <1>2, <1>3, <1>5, <2>1
    <2>3. /\ UNCHANGED <<cancellation, balance, txns>>
          /\ dispute' = Append(dispute, [m |-> m, status |-> "OPEN"])
          /\ project' \in {project} \cup (ProjectStatuses \ Closed)
      BY <1>11 DEF RaiseDispute, Written, ProjectStatuses, Closed
    <2> QED BY <1>5, <1>6, <2>1, <2>2, <2>3, ActPreserves
  <1> QED BY <1>7, <1>8, <1>9, <1>10, <1>11

(* A dispute that changes its status is about the same milestone.          *)
LEMMA DisputeWritten ==
  ASSUME TypeOK, NEW d \in DOMAIN dispute, NEW status \in OpenStatuses \cup {"RESOLVED"},
         dispute' = [dispute EXCEPT ![d].status = status]
  PROVE  /\ dispute' \in Seq(DisputeRows) /\ DOMAIN dispute' = DOMAIN dispute
         /\ \A x \in DOMAIN dispute : dispute'[x].m = dispute[x].m
  <1>1. dispute \in Seq(DisputeRows)
    BY DEF TypeOK
  <1>2. dispute[d] \in DisputeRows
    BY <1>1
  <1> DEFINE row == [dispute[d] EXCEPT !.status = status]
  <1>3. row \in DisputeRows /\ row.m = dispute[d].m
    BY <1>2 DEF DisputeRows
  <1>4. dispute' = [dispute EXCEPT ![d] = row]
    OBVIOUS
  <1> HIDE DEF row
  <1> QED BY <1>1, <1>3, <1>4

(* One request's row after a step, and what it leaves of the others.       *)
RequestBecomes(c, status, sent, active) ==
  /\ cancellation'[c].status = status /\ cancellation'[c].sent = sent
  /\ cancellation'[c].active = active

OthersUntouched(c) ==
  /\ cancellation' \in Seq(CancellationRows) /\ DOMAIN cancellation' = DOMAIN cancellation
  /\ \A x \in DOMAIN cancellation :
       /\ cancellation'[x].m = cancellation[x].m
       /\ x # c => cancellation'[x] = cancellation[x]

(* A request's status or its codes are written, and nothing else.          *)
LEMMA CodeWritten ==
  ASSUME TypeOK, NEW c \in DOMAIN cancellation,
         NEW status \in {"AWAITING_RECEIVER", "CONFIRMED", "DECLINED"},
         NEW sent \in Nat, NEW active \in SUBSET Nat, NEW row,
         row = [m |-> cancellation[c].m, status |-> status, sent |-> sent, active |-> active],
         cancellation' = [cancellation EXCEPT ![c] = row]
  PROVE  OthersUntouched(c) /\ RequestBecomes(c, status, sent, active)
  <1>1. cancellation \in Seq(CancellationRows)
    BY DEF TypeOK
  <1>2. cancellation[c] \in CancellationRows
    BY <1>1
  <1>3. /\ row \in CancellationRows /\ row.m = cancellation[c].m
        /\ row.status = status /\ row.sent = sent /\ row.active = active
    BY <1>2 DEF CancellationRows
  <1>4. /\ cancellation' \in Seq(CancellationRows) /\ DOMAIN cancellation' = DOMAIN cancellation
        /\ cancellation'[c] = row
        /\ \A x \in DOMAIN cancellation : x # c => cancellation'[x] = cancellation[x]
    BY <1>1, <1>3
  <1> QED BY <1>3, <1>4 DEF OthersUntouched, RequestBecomes

(* What spending a code, sending another, confirming and declining write.  *)
LEMMA CodesWritten ==
  ASSUME TypeOK, NEW s \in Sessions, Refers(s), NEW c, c = req[s].n,
         SpendCode(s) \/ ResendCode(s) \/ CommitCancellation(s) \/ CommitDecline(s)
  PROVE  /\ c \in DOMAIN cancellation /\ cancellation[c].m = req[s].m /\ OthersUntouched(c)
         /\ SpendCode(s) => \E k \in loaded[s] :
              RequestBecomes(c, cancellation[c].status, cancellation[c].sent,
                             cancellation[c].active \ {k})
         /\ ResendCode(s) =>
              RequestBecomes(c, cancellation[c].status, cancellation[c].sent + 1,
                             (cancellation[c].active \ loaded[s])
                               \cup {cancellation[c].sent + 1})
         /\ CommitCancellation(s) => \E k \in loaded[s] :
              RequestBecomes(c, "CONFIRMED", cancellation[c].sent,
                             cancellation[c].active \ {k})
         /\ CommitDecline(s) =>
              RequestBecomes(c, "DECLINED", cancellation[c].sent,
                             cancellation[c].active \ loaded[s])
  <1>1. req[s].op \in CancellationOps
    BY DEF SpendCode, ResendCode, CommitCancellation, CommitDecline, Commits, Refers,
       CancellationOps, Deciding
  <1>2. c \in DOMAIN cancellation /\ cancellation[c].m = req[s].m
    BY <1>1 DEF Refers
  <1> DEFINE old == cancellation[c]
  <1>3. cancellation \in Seq(CancellationRows)
    BY DEF TypeOK
  <1>4. /\ old \in CancellationRows
        /\ old.status \in {"AWAITING_RECEIVER", "CONFIRMED", "DECLINED"}
        /\ old.sent \in Nat /\ old.active \in SUBSET Nat
    <2>1. old \in CancellationRows
      BY <1>2, <1>3
    <2> QED BY <2>1 DEF CancellationRows
  <1>5. ASSUME NEW active \in SUBSET Nat,
               cancellation' = [cancellation EXCEPT ![c].active = active]
        PROVE  OthersUntouched(c) /\ RequestBecomes(c, old.status, old.sent, active)
    <2> DEFINE row == [m |-> old.m, status |-> old.status, sent |-> old.sent, active |-> active]
    <2>1. row = [old EXCEPT !.active = active]
      BY <1>4 DEF CancellationRows
    <2>2. cancellation' = [cancellation EXCEPT ![c] = row]
      BY <1>5, <2>1
    <2>3. row = [m |-> cancellation[c].m, status |-> old.status, sent |-> old.sent,
                 active |-> active]
      OBVIOUS
    <2> HIDE DEF row
    <2> QED BY <1>2, <1>4, <2>2, <2>3, CodeWritten
  <1>6. ASSUME NEW sent \in Nat, NEW active \in SUBSET Nat,
               cancellation' = [cancellation EXCEPT ![c].sent = sent, ![c].active = active]
        PROVE  OthersUntouched(c) /\ RequestBecomes(c, old.status, sent, active)
    <2> DEFINE row == [m |-> old.m, status |-> old.status, sent |-> sent, active |-> active]
    <2>1. row = [[old EXCEPT !.sent = sent] EXCEPT !.active = active]
      <3> DEFINE mid == [m |-> old.m, status |-> old.status, sent |-> sent, active |-> old.active]
      <3>1. [mid EXCEPT !.active = active] = row
        OBVIOUS
      <3>2. [old EXCEPT !.sent = sent] = mid
        BY <1>4 DEF CancellationRows
      <3> HIDE DEF mid, row
      <3> QED BY <3>1, <3>2
    <2>2. cancellation' = [cancellation EXCEPT ![c] = row]
      BY <1>2, <1>3, <1>6, <2>1
    <2>3. row = [m |-> cancellation[c].m, status |-> old.status, sent |-> sent,
                 active |-> active]
      OBVIOUS
    <2> HIDE DEF row
    <2> QED BY <1>2, <1>4, <2>2, <2>3, CodeWritten
  <1>7. ASSUME NEW status \in {"CONFIRMED", "DECLINED"}, NEW active \in SUBSET Nat,
               cancellation' = [cancellation EXCEPT ![c].status = status, ![c].active = active]
        PROVE  OthersUntouched(c) /\ RequestBecomes(c, status, old.sent, active)
    <2> DEFINE row == [m |-> old.m, status |-> status, sent |-> old.sent, active |-> active]
    <2>1. row = [[old EXCEPT !.status = status] EXCEPT !.active = active]
      <3> DEFINE mid == [m |-> old.m, status |-> status, sent |-> old.sent, active |-> old.active]
      <3>1. [mid EXCEPT !.active = active] = row
        OBVIOUS
      <3>2. [old EXCEPT !.status = status] = mid
        BY <1>4 DEF CancellationRows
      <3> HIDE DEF mid, row
      <3> QED BY <3>1, <3>2
    <2>2. cancellation' = [cancellation EXCEPT ![c] = row]
      BY <1>2, <1>3, <1>7, <2>1
    <2>3. row = [m |-> cancellation[c].m, status |-> status, sent |-> old.sent,
                 active |-> active]
      OBVIOUS
    <2> HIDE DEF row
    <2> QED BY <1>2, <1>4, <2>2, <2>3, CodeWritten
  <1>8. \A x, y : [cancellation EXCEPT ![c].status = x][c].active = old.active
               /\ [cancellation EXCEPT ![c].sent = y][c].active = old.active
    BY <1>2, <1>3, <1>4 DEF CancellationRows
  <1>9. CASE SpendCode(s)
    <2>1. PICK k \in loaded[s] : cancellation' = [cancellation EXCEPT ![c].active = old.active \ {k}]
      BY <1>9 DEF SpendCode
    <2>2. OthersUntouched(c) /\ RequestBecomes(c, old.status, old.sent, old.active \ {k})
      BY <1>4, <1>5, <2>1
    <2>3. pc[s] = "coded" /\ req[s].op = "verify_cancellation"
      BY <1>9 DEF SpendCode, Refers
    <2> QED BY <1>2, <2>2, <2>3 DEF ResendCode, CommitCancellation, CommitDecline, Commits
  <1>10. CASE ResendCode(s)
    <2> DEFINE next == old.sent + 1
    <2> DEFINE active == (old.active \ loaded[s]) \cup {next}
    <2>1. cancellation' = [cancellation EXCEPT ![c].sent = next, ![c].active = active]
      BY <1>8, <1>10 DEF ResendCode
    <2>2. next \in Nat /\ active \in SUBSET Nat
      BY <1>4
    <2> HIDE DEF next, active
    <2>3. OthersUntouched(c) /\ RequestBecomes(c, old.status, next, active)
      BY <1>6, <2>1, <2>2
    <2>4. pc[s] = "asked" /\ req[s].op = "resend_code"
      BY <1>10 DEF ResendCode
    <2> QED BY <1>2, <2>3, <2>4 DEF SpendCode, CommitCancellation, CommitDecline, Commits, next, active
  <1>11. CASE CommitCancellation(s)
    <2>1. PICK k \in loaded[s] :
            cancellation' = [cancellation EXCEPT ![c].status = "CONFIRMED",
                                                 ![c].active = old.active \ {k}]
      BY <1>8, <1>11 DEF CommitCancellation
    <2>2. OthersUntouched(c) /\ RequestBecomes(c, "CONFIRMED", old.sent, old.active \ {k})
      BY <1>4, <1>7, <2>1
    <2>3. pc[s] = "settled" /\ req[s].op = "verify_cancellation"
      BY <1>11 DEF CommitCancellation, Commits
    <2> QED BY <1>2, <2>2, <2>3 DEF SpendCode, ResendCode, CommitDecline, Commits
  <1>12. CASE CommitDecline(s)
    <2>1. cancellation' = [cancellation EXCEPT ![c].status = "DECLINED",
                                               ![c].active = old.active \ loaded[s]]
      BY <1>8, <1>12 DEF CommitDecline
    <2>2. OthersUntouched(c) /\ RequestBecomes(c, "DECLINED", old.sent, old.active \ loaded[s])
      BY <1>4, <1>7, <2>1
    <2>3. pc[s] = "settled" /\ req[s].op = "decline_cancellation"
      BY <1>12 DEF CommitDecline, Commits
    <2> QED BY <1>2, <2>2, <2>3 DEF SpendCode, ResendCode, CommitCancellation, Commits
  <1> QED BY <1>9, <1>10, <1>11, <1>12

(* A message changes a dispute's status, and nothing else.                 *)
LEMMA AddMessagePreserves ==
  ASSUME IInv, NEW s \in Sessions, AddMessage(s)
  PROVE  IInv'
  <1> DEFINE d == req[s].n
  <1>1. /\ d \in DOMAIN dispute /\ End(s)
        /\ dispute' = [dispute EXCEPT ![d].status = "AWAITING_RESPONSE"]
        /\ UNCHANGED <<project, milestone, cancellation, balance, txns>>
    BY DEF AddMessage, IInv, Stands, Refers
  <1>2. dispute' \in Seq(DisputeRows) /\ DOMAIN dispute' = DOMAIN dispute
        /\ \A x \in DOMAIN dispute : dispute'[x].m = dispute[x].m
    <2>1. TypeOK /\ "AWAITING_RESPONSE" \in OpenStatuses \cup {"RESOLVED"}
      BY DEF IInv, OpenStatuses
    <2> QED BY <1>1, <2>1, DisputeWritten
  <1>3. LeavesOthers(s)
    BY <1>1, <1>2 DEF LeavesOthers, Terminal, Status
  <1>4. AboutFunded'
    BY <1>1, <1>2 DEF IInv, RowsStand, AboutFunded, Status
  <1>5. FundedOnce' /\ Decided' /\ ClosedWithLastMilestone'
    BY <1>1 DEF IInv, RowsStand, FundedOnce, Decided, ClosedWithLastMilestone, Status
  <1>6. BooksMatch' /\ OncePerKind' /\ KeyedReleases' /\ ReleasedWasPaid'
    BY <1>1 DEF IInv, RowsStand, BooksMatch, OncePerKind, KeyedReleases, ReleasedWasPaid,
       IsFunding, Status
  <1>7. RowsStand'
    BY <1>4, <1>5, <1>6 DEF RowsStand
  <1> QED BY <1>1, <1>2, <1>3, <1>7, EndStep DEF IInv, TypeOK

(* A code is spent by who holds its row, or replaced by a new one.         *)
LEMMA CodesOnlyPreserve ==
  ASSUME IInv, NEW s \in Sessions, SpendCode(s) \/ ResendCode(s)
  PROVE  IInv'
  <1>1. /\ pc[s] # "idle" /\ Refers(s) /\ End(s) /\ TypeOK
        /\ UNCHANGED <<project, milestone, dispute, balance, txns>>
    BY DEF SpendCode, ResendCode, IInv, Stands
  <1>2. PICK c : c = req[s].n
    OBVIOUS
  <1>3. /\ c \in DOMAIN cancellation /\ OthersUntouched(c)
        /\ cancellation'[c].status = cancellation[c].status
    BY <1>1, <1>2, CodesWritten DEF RequestBecomes
  <1>4. /\ cancellation' \in Seq(CancellationRows) /\ DOMAIN cancellation' = DOMAIN cancellation
        /\ \A x \in DOMAIN cancellation :
             /\ cancellation'[x].m = cancellation[x].m
             /\ cancellation'[x].status = cancellation[x].status
    BY <1>3 DEF OthersUntouched
  <1>5. LeavesOthers(s)
    BY <1>1, <1>4 DEF LeavesOthers, Terminal, Status
  <1>6. AboutFunded' /\ Decided'
    BY <1>1, <1>4 DEF IInv, RowsStand, AboutFunded, Decided, Status
  <1>7. FundedOnce' /\ ClosedWithLastMilestone'
    BY <1>1 DEF IInv, RowsStand, FundedOnce, ClosedWithLastMilestone, Status
  <1>8. BooksMatch' /\ OncePerKind' /\ KeyedReleases' /\ ReleasedWasPaid'
    BY <1>1 DEF IInv, RowsStand, BooksMatch, OncePerKind, KeyedReleases, ReleasedWasPaid,
       IsFunding, Status
  <1>9. RowsStand'
    BY <1>6, <1>7, <1>8 DEF RowsStand
  <1> QED BY <1>1, <1>4, <1>5, <1>9, EndStep DEF TypeOK

-----------------------------------------------------------------------------
(* Commits.                                                                *)

(* A session that commits still finds what it has locked as it was.        *)
LEMMA CommittingFinds ==
  ASSUME IInv, NEW s \in Sessions, NEW ops, Commits(s, ops)
  PROVE  /\ req[s] \in Requests /\ req[s].m \in Milestones /\ req[s].op \in ops \cap Settling
         /\ pc[s] = "settled" /\ End(s) /\ project' = Written(s, staged[s].project)
         /\ Refers(s) /\ Permitted(req[s]) /\ StagedStands(s)
         /\ req[s].op = "fund_milestone" => Status(req[s].m) = "PENDING_FUNDING"
         /\ req[s].op # "fund_milestone" => Status(req[s].m) \in ProtectedStatuses
         /\ ~Terminal(req[s].m) /\ milestone[req[s].m] \in MilestoneRows
         /\ \A t \in Sessions \ {s} : Holds(t) => req[t].m # req[s].m
  <1>1. /\ pc[s] = "settled" /\ req[s].op \in ops /\ End(s)
        /\ project' = Written(s, staged[s].project)
    BY DEF Commits
  <1>2. Holds(s) /\ Refers(s) /\ Permitted(req[s]) /\ StagedStands(s) /\ req[s].op \in Settling
    BY <1>1 DEF IInv, Stands, Holds, Refers
  <1>3. req[s].op \in DOMAIN Via
    BY <1>2, PostingOps
  <1>4. /\ req[s].m \in Milestones
        /\ req[s].op = "fund_milestone" => Status(req[s].m) = "PENDING_FUNDING"
        /\ req[s].op # "fund_milestone" => Status(req[s].m) \in ProtectedStatuses
    BY <1>2, <1>3, Leaves DEF IInv, RowsStand
  <1>5. ~Terminal(req[s].m)
    BY <1>4, StatusNames DEF Terminal
  <1>6. \A t \in Sessions \ {s} : Holds(t) => req[t].m # req[s].m
    BY <1>2 DEF IInv, Apart
  <1>7. milestone[req[s].m] \in MilestoneRows /\ req[s] \in Requests
    BY <1>4, TypedRow DEF IInv, TypeOK
  <1> QED BY <1>1, <1>2, <1>4, <1>5, <1>6, <1>7

(* A posting adds a transaction, or none if it was a replay.               *)
LEMMA BookedRows ==
  ASSUME IInv, NEW s \in Sessions, pc[s] = "settled", Posts(req[s].op), Booked(s)
  PROVE  /\ balance' \in [Accounts -> Int] /\ txns' \in Seq(Transactions)
         /\ \A i \in DOMAIN txns : i \in DOMAIN txns' /\ txns'[i] = txns[i]
         /\ Tx(s) \in Nat /\ Tx(s) # 0
         /\ staged[s].tx = 0 => Tx(s) = Len(txns) + 1
  <1>1. /\ txns \in Seq(Transactions) /\ balance \in [Accounts -> Int]
        /\ staged[s].tx \in Nat /\ req[s] \in Requests
    BY DEF IInv, TypeOK
  <1>2. Permitted(req[s]) /\ req[s].m \in Milestones /\ req[s].key \in OptionalKeys
    BY <1>1 DEF IInv, Stands, Holds, Requests
  <1>3. EntryOf(req[s]) \in Entry
    BY <1>2, EntryIsTyped DEF Permitted
  <1>4. CASE staged[s].tx # 0
    <2>1. UNCHANGED <<balance, txns>>
      BY <1>4 DEF Booked
    <2> QED BY <1>1, <1>4, <2>1 DEF Tx
  <1>5. CASE staged[s].tx = 0
    <2> DEFINE new == [entry |-> EntryOf(req[s]), key |-> req[s].key, m |-> req[s].m]
    <2>1. new \in Transactions
      BY <1>2, <1>3 DEF Transactions
    <2>2. txns' = Append(txns, new) /\ balance' = Applied(balance, EntryOf(req[s]))
      BY <1>5 DEF Booked
    <2> HIDE DEF new
    <2>3. balance' \in [Accounts -> Int]
      BY <1>1, <1>3, <2>2, AppliedType
    <2>4. txns' \in Seq(Transactions) /\ \A i \in DOMAIN txns : i \in DOMAIN txns' /\ txns'[i] = txns[i]
      BY <1>1, <2>1, <2>2, Appended
    <2>5. Tx(s) = Len(txns) + 1 /\ Len(txns) \in Nat
      BY <1>1, <1>5 DEF Tx
    <2> QED BY <2>3, <2>4, <2>5
  <1> QED BY <1>4, <1>5

(* What every commit of a settling handler has in common.                  *)
LEMMA CommitPreserves ==
  ASSUME IInv, NEW s \in Sessions, NEW ops, Commits(s, ops),
         NEW status, NEW funding \in Nat, NEW release \in Nat,
         status = Target(req[s].op),
         milestone' = RowOf(req[s].m, status, funding, release, milestone[req[s].m].revisions),
         Writes(req[s].m) => MoneyRows',
         RefersOn(req[s].m), DecidesOn(req[s].m),
         dispute' \in Seq(DisputeRows), cancellation' \in Seq(CancellationRows),
         \A d \in DOMAIN dispute : d \in DOMAIN dispute' /\ dispute'[d].m = dispute[d].m,
         \A c \in DOMAIN cancellation :
           c \in DOMAIN cancellation' /\ cancellation'[c].m = cancellation[c].m,
         Posts(req[s].op) => Booked(s),
         ~Posts(req[s].op) => UNCHANGED <<balance, txns>>
  PROVE  IInv'
  <1> DEFINE m == req[s].m
  <1>1. /\ m \in Milestones /\ req[s].op \in Settling /\ pc[s] = "settled" /\ End(s)
        /\ project' = Written(s, staged[s].project)
        /\ ~Terminal(m) /\ milestone[m] \in MilestoneRows
        /\ \A t \in Sessions \ {s} : Holds(t) => req[t].m # m
    BY CommittingFinds
  <1>2. /\ status \in MilestoneStatuses /\ status \notin {"DRAFT", "PENDING_FUNDING"}
        /\ ~Posts(req[s].op) => status \notin TerminalStatuses
    <2>1. status \in {"FUNDED", "PAYMENT_RELEASED", "CANCELLED"}
      BY <1>1, PostingOps, Targets
    <2>2. ~Posts(req[s].op) => status = "FUNDED"
      BY <1>1, PostingOps, Targets DEF Payouts, Returns
    <2> QED BY <2>1, <2>2, StatusNames DEF ProtectedStatuses, TerminalStatuses
  <1> DEFINE row == [status |-> status, funding |-> funding, release |-> release,
                     revisions |-> milestone[m].revisions]
  <1>3. row \in MilestoneRows /\ row.status = status
    BY <1>1, <1>2 DEF MilestoneRows
  <1>4. milestone' = [milestone EXCEPT ![m] = row]
    BY DEF RowOf
  <1> HIDE DEF row
  <1>5. Writes(m) /\ milestone'[m].status = status /\ milestone' \in [Milestones -> MilestoneRows]
    BY <1>1, <1>2, <1>3, <1>4 DEF Writes, IInv, TypeOK
  <1>6. AboutFunded' /\ Decided'
    BY <1>1, <1>5, ReferencesStand
  <1>7. ClosedWithLastMilestone' /\ project' \in ProjectStatuses
    BY <1>1, <1>5, CommitCloses
  <1>8. /\ balance' \in [Accounts -> Int] /\ txns' \in Seq(Transactions)
        /\ \A i \in DOMAIN txns : i \in DOMAIN txns' /\ txns'[i] = txns[i]
    <2>1. CASE Posts(req[s].op)
      BY <1>1, <2>1, BookedRows
    <2>2. CASE ~Posts(req[s].op)
      BY <2>2 DEF IInv, TypeOK
    <2> QED BY <2>1, <2>2
  <1>9. HoldsBooks(s) \/ (balance' = balance /\ milestone'[m].status \notin TerminalStatuses)
    BY <1>1, <1>2, <1>5 DEF HoldsBooks
  <1>10. LeavesOthers(s)
    BY <1>1, <1>5, <1>8, <1>9, LocksSuffice
  <1>11. RowsStand'
    BY <1>5, <1>6, <1>7 DEF RowsStand, MoneyRows
  <1> QED BY <1>1, <1>5, <1>7, <1>8, <1>10, <1>11, EndStep

(* Disputes and cancellations that stay as they are refer as they did.     *)
LEMMA NothingDecided ==
  ASSUME IInv, NEW m \in Milestones, UNCHANGED <<dispute, cancellation>>
  PROVE  /\ RefersOn(m) /\ DecidesOn(m)
         /\ dispute' \in Seq(DisputeRows) /\ cancellation' \in Seq(CancellationRows)
  <1>1. RefersOn(m) /\ DecidesOn(m)
    BY DEF RefersOn, DecidesOn, IInv, RowsStand, Decided
  <1> QED BY <1>1 DEF IInv, TypeOK

(* fund_milestone() commits.                                               *)
LEMMA CommitFundingPreserves ==
  ASSUME IInv, NEW s \in Sessions, CommitFunding(s)
  PROVE  IInv'
  <1> DEFINE m == req[s].m
  <1> DEFINE row == milestone[m]
  <1>1. Commits(s, {"fund_milestone"}) /\ Booked(s) /\ UNCHANGED <<dispute, cancellation>>
    BY DEF CommitFunding
  <1>2. /\ m \in Milestones /\ req[s] \in Requests /\ req[s].op = "fund_milestone"
        /\ pc[s] = "settled" /\ Status(m) = "PENDING_FUNDING" /\ row \in MilestoneRows
    BY <1>1, CommittingFinds
  <1>3. Posts(req[s].op) /\ Target(req[s].op) = "FUNDED"
    BY <1>2, PostingOps, Targets
  <1>4. Tx(s) \in Nat /\ Tx(s) # 0
    BY <1>1, <1>2, <1>3, BookedRows
  <1>5. milestone' = RowOf(m, "FUNDED", Tx(s), row.release, row.revisions)
    <2>1. TypeOK
      BY DEF IInv
    <2>2. milestone' = [WithStatus(m, "FUNDED") EXCEPT ![m].funding = Tx(s)]
      BY DEF CommitFunding
    <2> QED BY <1>2, <2>1, <2>2, TwoColumnsWritten
  <1>6. Writes(m) => MoneyRows'
    <2>1. milestone'[m] = [status |-> "FUNDED", funding |-> Tx(s), release |-> row.release,
                           revisions |-> row.revisions]
      BY <1>2, <1>5 DEF RowOf, IInv, TypeOK
    <2>2. req[s].key \in OptionalKeys
      BY <1>2 DEF Requests
    <2>3. EntryOf(req[s]) = MilestoneFunding(client, Amount[m])
      BY <1>2, Entries
    <2>4. \/ txns' = txns
          \/ txns' = Append(txns, [entry |-> MilestoneFunding(client, Amount[m]),
                                   key |-> req[s].key, m |-> m])
      BY <1>1, <2>3 DEF Booked
    <2>5. milestone'[m].status = "FUNDED" /\ milestone'[m].funding # 0
      BY <1>4, <2>1
    <2> QED BY <1>2, <2>2, <2>4, <2>5, FundMove
  <1>7. row.release \in Nat
    BY <1>2 DEF MilestoneRows
  <1>8. /\ RefersOn(m) /\ DecidesOn(m)
        /\ dispute' \in Seq(DisputeRows) /\ cancellation' \in Seq(CancellationRows)
    BY <1>1, <1>2, NothingDecided
  <1> QED BY <1>1, <1>3, <1>4, <1>5, <1>6, <1>7, <1>8, CommitPreserves

(* A release that would record another milestone's payout as its own       *)
(* meets the unique index.                                                 *)
LEMMA ReleasesAreNew ==
  ASSUME IInv, NEW s \in Sessions, Commits(s, {"approve_and_release"}), ~AlreadyReleases(s)
  PROVE  staged[s].tx = 0
  <1> DEFINE i == staged[s].tx
  <1> SUFFICES ASSUME i # 0 PROVE FALSE
    OBVIOUS
  <1>1. /\ pc[s] = "settled" /\ req[s].op = "approve_and_release" /\ StagedStands(s)
        /\ req[s].m \in Milestones /\ Status(req[s].m) \in ProtectedStatuses
    BY CommittingFinds
  <1>2. /\ i \in DOMAIN txns /\ txns[i].entry = EntryOf(req[s])
        /\ txns[i].key = req[s].key /\ req[s].key # NoKey
    BY <1>1 DEF StagedStands
  <1>3. txns[i].entry.type = "PAYMENT_RELEASE"
    BY <1>1, <1>2, EntryTypes DEF Payouts
  <1>4. milestone[txns[i].m].release = i /\ txns[i].m \in Milestones
    BY <1>2, <1>3, TransactionsAre DEF IInv, RowsStand, KeyedReleases
  <1>5. txns[i].m # req[s].m
    BY <1>1, <1>2, <1>3 DEF IInv, RowsStand, BooksMatch, IsFunding
  <1> QED BY <1>4, <1>5 DEF AlreadyReleases, Tx

(* approve_and_release() commits.                                          *)
LEMMA CommitReleasePreserves ==
  ASSUME IInv, NEW s \in Sessions, CommitRelease(s)
  PROVE  IInv'
  <1> DEFINE m == req[s].m
  <1> DEFINE row == milestone[m]
  <1>1. /\ Commits(s, {"approve_and_release"}) /\ Booked(s) /\ UNCHANGED <<dispute, cancellation>>
        /\ ~AlreadyReleases(s)
    BY DEF CommitRelease
  <1>2. /\ m \in Milestones /\ req[s] \in Requests /\ req[s].op = "approve_and_release"
        /\ pc[s] = "settled" /\ Status(m) \in ProtectedStatuses /\ row \in MilestoneRows
        /\ staged[s].tx = 0
    BY <1>1, CommittingFinds, ReleasesAreNew
  <1>3. Posts(req[s].op) /\ Target(req[s].op) = "PAYMENT_RELEASED"
    BY <1>2, PostingOps, Targets DEF Payouts
  <1>4. Tx(s) \in Nat /\ Tx(s) = Len(txns) + 1
    BY <1>1, <1>2, <1>3, BookedRows
  <1>5. milestone' = RowOf(m, "PAYMENT_RELEASED", row.funding, Tx(s), row.revisions)
    <2>1. TypeOK
      BY DEF IInv
    <2>2. milestone' = [WithStatus(m, "PAYMENT_RELEASED") EXCEPT ![m].release = Tx(s)]
      BY DEF CommitRelease
    <2> QED BY <1>2, <2>1, <2>2, TwoColumnsWritten
  <1>6. Writes(m) => MoneyRows'
    <2>1. milestone'[m] = [status |-> "PAYMENT_RELEASED", funding |-> row.funding,
                           release |-> Tx(s), revisions |-> row.revisions]
      BY <1>2, <1>5 DEF RowOf, IInv, TypeOK
    <2>2. req[s].key \in OptionalKeys
      BY <1>2 DEF Requests
    <2>3. EntryOf(req[s]).type = "PAYMENT_RELEASE"
      BY <1>2, EntryTypes DEF Payouts
    <2>4. txns' = Append(txns, [entry |-> EntryOf(req[s]), key |-> req[s].key, m |-> m])
      BY <1>1, <1>2 DEF Booked
    <2>5. /\ milestone'[m].status \in TerminalStatuses
          /\ milestone'[m].funding = row.funding
          /\ milestone'[m].release = Len(txns) + 1
      BY <1>4, <2>1 DEF TerminalStatuses
    <2> DEFINE e == EntryOf(req[s])
    <2>6. e.type = "PAYMENT_RELEASE" /\ e.type # "MILESTONE_FUNDING"
      BY <2>3
    <2> HIDE DEF e
    <2> QED BY <1>2, <2>2, <2>4, <2>5, <2>6, PayMove DEF e
  <1>7. row.funding \in Nat
    BY <1>2 DEF MilestoneRows
  <1>8. /\ RefersOn(m) /\ DecidesOn(m)
        /\ dispute' \in Seq(DisputeRows) /\ cancellation' \in Seq(CancellationRows)
    BY <1>1, <1>2, NothingDecided
  <1> QED BY <1>1, <1>3, <1>4, <1>5, <1>6, <1>7, <1>8, CommitPreserves

(* Only a party's request has a key, so the other postings are new ones.   *)
LEMMA KeylessIsNew ==
  ASSUME IInv, NEW s \in Sessions, NEW ops, Commits(s, ops), req[s].op \notin KeyedOps
  PROVE  staged[s].tx = 0 /\ req[s].key = NoKey
  BY CommittingFinds DEF StagedStands, Refers

(* A keyless posting that ends the milestone.                              *)
LEMMA SettledMoney ==
  ASSUME IInv, NEW s \in Sessions, NEW ops, Commits(s, ops),
         req[s].op \in {"verify_cancellation", "RELEASE_TO_RECEIVER", "REFUND_TO_CLIENT", "SPLIT"},
         Booked(s), milestone' = WithStatus(req[s].m, Target(req[s].op)), Writes(req[s].m)
  PROVE  MoneyRows'
  <1> DEFINE m == req[s].m
  <1> DEFINE e == EntryOf(req[s])
  <1> DEFINE to == Target(req[s].op)
  <1>1. /\ m \in Milestones /\ req[s] \in Requests /\ Status(m) \in ProtectedStatuses
        /\ staged[s].tx = 0 /\ req[s].key = NoKey /\ NoKey \in OptionalKeys
    BY CommittingFinds, KeylessIsNew DEF KeyedOps, OptionalKeys
  <1>2. txns' = Append(txns, [entry |-> e, key |-> NoKey, m |-> m])
    BY <1>1 DEF Booked
  <1>3. e.type \in {"PAYMENT_RELEASE", "REFUND", "ADJUSTMENT"}
        /\ (to = "PAYMENT_RELEASED" => e.type = "PAYMENT_RELEASE")
    BY EntryTypes, Targets DEF Payouts, Returns
  <1>4. to \in TerminalStatuses
    BY Targets DEF TerminalStatuses
  <1>5. milestone' = RowOf(m, to, milestone[m].funding, milestone[m].release, milestone[m].revisions)
    BY <1>1, StatusWritten DEF IInv
  <1>6. milestone'[m] = [status |-> to, funding |-> milestone[m].funding,
                         release |-> milestone[m].release, revisions |-> milestone[m].revisions]
    BY <1>1, <1>5 DEF RowOf, IInv, TypeOK
  <1>7. milestone'[m].status = to /\ milestone'[m].funding = milestone[m].funding
    BY <1>6
  <1> HIDE DEF e, to
  <1>8. e.type # "MILESTONE_FUNDING"
    BY <1>3
  <1> QED BY <1>1, <1>2, <1>3, <1>4, <1>7, <1>8, PayMove

(* The money stays: a decline, or a dispute dismissed.                     *)
LEMMA KeptMoney ==
  ASSUME IInv, NEW s \in Sessions, NEW ops, Commits(s, ops),
         req[s].op \in {"decline_cancellation", "NO_ACTION"},
         milestone' = WithStatus(req[s].m, Target(req[s].op)), Writes(req[s].m), txns' = txns
  PROVE  MoneyRows'
  <1> DEFINE m == req[s].m
  <1>1. m \in Milestones /\ Status(m) \in ProtectedStatuses
    BY CommittingFinds
  <1>2. milestone' = RowOf(m, "FUNDED", milestone[m].funding, milestone[m].release, milestone[m].revisions)
    BY <1>1, StatusWritten, Targets DEF IInv
  <1>3. milestone'[m] = [status |-> "FUNDED", funding |-> milestone[m].funding,
                         release |-> milestone[m].release, revisions |-> milestone[m].revisions]
    BY <1>1, <1>2 DEF RowOf, IInv, TypeOK
  <1>4. /\ milestone'[m].status \in ProtectedStatuses
        /\ milestone'[m].funding = milestone[m].funding
        /\ milestone'[m].release = milestone[m].release
    BY <1>3 DEF ProtectedStatuses
  <1> QED BY <1>1, <1>4, InsideMove

(* verify_cancellation() commits.                                          *)
LEMMA CommitCancellationPreserves ==
  ASSUME IInv, NEW s \in Sessions, CommitCancellation(s)
  PROVE  IInv'
  <1> DEFINE m == req[s].m
  <1> DEFINE c == req[s].n
  <1>1. /\ Commits(s, {"verify_cancellation"}) /\ Booked(s) /\ UNCHANGED dispute
        /\ milestone' = WithStatus(m, "CANCELLED")
    BY DEF CommitCancellation
  <1>2. /\ m \in Milestones /\ req[s].op = "verify_cancellation" /\ pc[s] = "settled"
        /\ Refers(s) /\ milestone[m] \in MilestoneRows /\ TypeOK
    BY <1>1, CommittingFinds DEF IInv
  <1>3. /\ c \in DOMAIN cancellation /\ cancellation[c].m = m
        /\ Posts(req[s].op) /\ Target(req[s].op) = "CANCELLED"
    BY <1>2, PostingOps, Targets DEF Refers, CancellationOps, Deciding, Returns
  <1>4. milestone' = RowOf(m, "CANCELLED", milestone[m].funding, milestone[m].release,
                           milestone[m].revisions)
    BY <1>1, <1>2, StatusWritten
  <1>5. milestone[m].funding \in Nat /\ milestone[m].release \in Nat
    BY <1>2 DEF MilestoneRows
  <1>6. Writes(m) => MoneyRows'
    BY <1>1, <1>2, <1>3, SettledMoney
  <1>7. /\ cancellation' \in Seq(CancellationRows) /\ DOMAIN cancellation' = DOMAIN cancellation
        /\ cancellation'[c].status = "CONFIRMED"
        /\ \A x \in DOMAIN cancellation :
             cancellation'[x].m = cancellation[x].m
             /\ (x # c => cancellation'[x] = cancellation[x])
    <2>1. PICK n : n = c
      OBVIOUS
    <2>2. OthersUntouched(n) /\ cancellation'[n].status = "CONFIRMED"
      BY <1>2, <2>1, CodesWritten DEF RequestBecomes
    <2> HIDE DEF c
    <2> QED BY <2>1, <2>2 DEF OthersUntouched
  <1>9. RefersOn(m)
    BY <1>1, <1>7 DEF RefersOn
  <1>10. milestone'[m].status = "CANCELLED"
    BY <1>2, <1>4 DEF RowOf, TypeOK
  <1>11. DecidesOn(m)
    BY <1>3, <1>7, <1>10 DEF DecidesOn, IInv, RowsStand, Decided
  <1>12. /\ dispute' \in Seq(DisputeRows)
         /\ \A d \in DOMAIN dispute : d \in DOMAIN dispute' /\ dispute'[d].m = dispute[d].m
    BY <1>1, <1>2 DEF TypeOK
  <1>13. \A x \in DOMAIN cancellation :
          x \in DOMAIN cancellation' /\ cancellation'[x].m = cancellation[x].m
    BY <1>7
  <1>14. /\ Commits(s, {"verify_cancellation"}) /\ Booked(s) /\ Posts(req[s].op)
         /\ Target(req[s].op) = "CANCELLED" /\ cancellation' \in Seq(CancellationRows)
    BY <1>1, <1>3, <1>7
  <1> QED BY <1>4, <1>5, <1>6, <1>9, <1>11, <1>12, <1>13, <1>14, CommitPreserves

(* decline_cancellation() commits.                                         *)
LEMMA CommitDeclinePreserves ==
  ASSUME IInv, NEW s \in Sessions, CommitDecline(s)
  PROVE  IInv'
  <1> DEFINE m == req[s].m
  <1> DEFINE c == req[s].n
  <1>1. /\ Commits(s, {"decline_cancellation"}) /\ UNCHANGED <<dispute, balance, txns>>
        /\ milestone' = WithStatus(m, "FUNDED")
    BY DEF CommitDecline
  <1>2. /\ m \in Milestones /\ req[s].op = "decline_cancellation" /\ pc[s] = "settled"
        /\ Refers(s) /\ milestone[m] \in MilestoneRows /\ TypeOK
    BY <1>1, CommittingFinds DEF IInv
  <1>3. /\ c \in DOMAIN cancellation /\ cancellation[c].m = m
        /\ ~Posts(req[s].op) /\ Target(req[s].op) = "FUNDED"
    BY <1>2, PostingOps, Targets DEF Refers, CancellationOps, Deciding, Returns, Payouts
  <1>4. milestone' = RowOf(m, "FUNDED", milestone[m].funding, milestone[m].release,
                           milestone[m].revisions)
    BY <1>1, <1>2, StatusWritten
  <1>5. milestone[m].funding \in Nat /\ milestone[m].release \in Nat
    BY <1>2 DEF MilestoneRows
  <1>6. Writes(m) => MoneyRows'
    BY <1>1, <1>2, <1>3, KeptMoney
  <1>7. /\ cancellation' \in Seq(CancellationRows) /\ DOMAIN cancellation' = DOMAIN cancellation
        /\ cancellation'[c].status = "DECLINED"
        /\ \A x \in DOMAIN cancellation :
             cancellation'[x].m = cancellation[x].m
             /\ (x # c => cancellation'[x] = cancellation[x])
    <2>1. PICK n : n = c
      OBVIOUS
    <2>2. OthersUntouched(n) /\ cancellation'[n].status = "DECLINED"
      BY <1>2, <2>1, CodesWritten DEF RequestBecomes
    <2> HIDE DEF c
    <2> QED BY <2>1, <2>2 DEF OthersUntouched
  <1>9. RefersOn(m)
    BY <1>1, <1>7 DEF RefersOn
  <1>10. DecidesOn(m)
    BY <1>3, <1>7 DEF DecidesOn, IInv, RowsStand, Decided
  <1>11. /\ dispute' \in Seq(DisputeRows)
         /\ \A d \in DOMAIN dispute : d \in DOMAIN dispute' /\ dispute'[d].m = dispute[d].m
    BY <1>1, <1>2 DEF TypeOK
  <1>12. \A x \in DOMAIN cancellation :
          x \in DOMAIN cancellation' /\ cancellation'[x].m = cancellation[x].m
    BY <1>7
  <1>13. /\ Commits(s, {"decline_cancellation"}) /\ ~Posts(req[s].op)
         /\ UNCHANGED <<balance, txns>>
         /\ Target(req[s].op) = "FUNDED" /\ cancellation' \in Seq(CancellationRows)
    BY <1>1, <1>3, <1>7
  <1> QED BY <1>4, <1>5, <1>6, <1>9, <1>10, <1>11, <1>12, <1>13, CommitPreserves

(* resolve() commits, in any of its four ways.                             *)
LEMMA CommitResolutionPreserves ==
  ASSUME IInv, NEW s \in Sessions, CommitResolution(s)
  PROVE  IInv'
  <1> DEFINE m == req[s].m
  <1> DEFINE d == req[s].n
  <1> DEFINE to == Target(req[s].op)
  <1>1. /\ Commits(s, Resolutions) /\ UNCHANGED cancellation
        /\ dispute' = [dispute EXCEPT ![d].status = "RESOLVED"]
        /\ milestone' = WithStatus(m, to)
        /\ IF Posts(req[s].op) THEN Booked(s) ELSE UNCHANGED <<balance, txns>>
    BY DEF CommitResolution
  <1>2. /\ m \in Milestones /\ req[s].op \in Resolutions /\ pc[s] = "settled"
        /\ Refers(s) /\ milestone[m] \in MilestoneRows /\ TypeOK
    BY <1>1, CommittingFinds DEF IInv
  <1>3. d \in DOMAIN dispute /\ dispute[d].m = m
    BY <1>2 DEF Refers
  <1>4. milestone' = RowOf(m, to, milestone[m].funding, milestone[m].release,
                           milestone[m].revisions)
    BY <1>1, <1>2, StatusWritten
  <1>5. milestone[m].funding \in Nat /\ milestone[m].release \in Nat
    BY <1>2 DEF MilestoneRows
  <1>6. Writes(m) => MoneyRows'
    <2>1. CASE req[s].op = "NO_ACTION"
      <3>1. ~Posts(req[s].op)
        BY <2>1, PostingOps DEF Payouts, Returns
      <3> QED BY <1>1, <2>1, <3>1, KeptMoney
    <2>2. CASE req[s].op \in {"RELEASE_TO_RECEIVER", "REFUND_TO_CLIENT", "SPLIT"}
      <3>1. Posts(req[s].op)
        BY <2>2, PostingOps DEF Payouts, Returns
      <3> QED BY <1>1, <2>2, <3>1, SettledMoney
    <2> QED BY <1>2, <2>1, <2>2 DEF Resolutions
  <1>7. /\ dispute' \in Seq(DisputeRows) /\ DOMAIN dispute' = DOMAIN dispute
        /\ \A x \in DOMAIN dispute : dispute'[x].m = dispute[x].m
    BY <1>1, <1>2, <1>3, DisputeWritten
  <1>8. /\ cancellation' \in Seq(CancellationRows) /\ cancellation' = cancellation
    BY <1>1, <1>2 DEF TypeOK
  <1>9. RefersOn(m)
    BY <1>7, <1>8 DEF RefersOn
  <1>10. DecidesOn(m)
    BY <1>8 DEF DecidesOn, IInv, RowsStand, Decided
  <1> QED BY <1>1, <1>4, <1>5, <1>6, <1>7, <1>8, <1>9, <1>10, CommitPreserves

-----------------------------------------------------------------------------
(* The invariant.                                                          *)

(* The strengthening holds before any request.                             *)
LEMMA InitIsSound == Init => IInv
  <1> SUFFICES ASSUME Init PROVE IInv
    OBVIOUS
  <1>1. TypeOK
    <2>1. NoRequest \in Requests
      BY MilestonesAssumption, OpsAre DEF NoRequest, Requests, OpNames, OptionalKeys
    <2>2. milestone \in [Milestones -> MilestoneRows]
      BY StatusNames DEF Init, MilestoneRows
    <2>3. balance \in [Accounts -> Int]
      BY NumbersAssumption DEF Init
    <2>4. Nothing \in [project : ProjectStatuses, tx : Nat]
      BY DEF Nothing, ProjectStatuses
    <2> QED BY <2>1, <2>2, <2>3, <2>4 DEF Init, TypeOK, ProjectStatuses
  <1>2. FundedOnce /\ AboutFunded /\ Decided
    BY DEF Init, FundedOnce, AboutFunded, Decided, Status
  <1>3. BooksMatch /\ OncePerKind /\ KeyedReleases /\ ReleasedWasPaid
    BY DEF Init, BooksMatch, OncePerKind, KeyedReleases, ReleasedWasPaid, Status
  <1>4. ClosedWithLastMilestone
    <2>1. {milestone[m].status : m \in Milestones} = {"PENDING_FUNDING"}
      BY MilestonesAssumption DEF Init
    <2> QED BY <2>1 DEF Init, ClosedWithLastMilestone, TerminalStatuses
  <1>5. \A s \in Sessions : Stands(s)
    BY DEF Init, Stands
  <1>6. \A s, t \in Sessions : Apart(s, t)
    BY DEF Init, Apart, Holds, HoldsBooks
  <1> QED BY <1>1, <1>2, <1>3, <1>4, <1>5, <1>6 DEF IInv, RowsStand

(* No step breaks it.                                                      *)
LEMMA StepPreserves == IInv /\ [Next]_vars => IInv'
  <1> SUFFICES ASSUME IInv, [Next]_vars PROVE IInv'
    OBVIOUS
  <1>1. CASE UNCHANGED vars
    <2>1. UNCHANGED Rows /\ UNCHANGED <<pc, req, seen, loaded, staged>>
          /\ UNCHANGED <<project, milestone, dispute, cancellation, balance, txns>>
      BY <1>1 DEF vars, Rows
    <2>2. TypeOK'
      BY <2>1 DEF TypeOK, IInv
    <2>3. \A s \in Sessions : Stands(s)'
      <3> TAKE s \in Sessions
      <3>1. Stands(s)
        BY DEF IInv
      <3>2. NextProject(s)' = NextProject(s)
        BY <2>1 DEF NextProject, Completion
      <3>3. StagedStands(s)' <=> StagedStands(s)
        BY <2>1, <3>2 DEF StagedStands, EntryOf
      <3>4. Refers(s)' /\ SeenClosed(s)' <=> Refers(s) /\ SeenClosed(s)
        BY <2>1 DEF Refers, SeenClosed, Terminal, Status, Holds
      <3>5. Permitted(req[s])' <=> Permitted(req[s])
        BY <2>1 DEF Permitted
      <3> QED BY <2>1, <3>1, <3>3, <3>4, <3>5 DEF Stands, Holds
    <2>4. \A s, t \in Sessions : s # t => Apart(s, t)'
      BY <2>1 DEF IInv, Apart, Holds, HoldsBooks
    <2> QED BY <2>1, <2>2, <2>3, <2>4, RowsStay DEF IInv
  <1>2. CASE Next
    <2>1. PICK s \in Sessions : Asks(s) \/ Runs(s) \/ SpendCode(s) \/ Rollback(s)
      BY <1>2 DEF Next
    <2>2. CASE Asks(s)
      BY <2>2, AsksPreserves
    <2>3. CASE SpendCode(s) \/ ResendCode(s)
      BY <2>3, CodesOnlyPreserve
    <2>4. CASE Refuse(s) \/ NoCode(s) \/ CannotSettle(s) \/ LoseRelease(s) \/ Rollback(s)
      BY <2>4, EndedPreserves
    <2>5. CASE StartWork(s) \/ SubmitMilestone(s) \/ RequestChanges(s)
               \/ RequestCancellation(s) \/ RaiseDispute(s)
      BY <2>5, ActionsPreserve
    <2>6. CASE AddMessage(s)
      BY <2>6, AddMessagePreserves
    <2>7. CASE FindCode(s) \/ LockCode(s)
      BY <2>7, CodeStepsPreserve
    <2>8. CASE Lock(s)
      BY <2>8, LockPreserves
    <2>9. CASE SettleNew(s) \/ SettleReplayed(s)
      BY <2>9, SettlePreserves
    <2>10. CASE CommitFunding(s)
      BY <2>10, CommitFundingPreserves
    <2>11. CASE CommitRelease(s)
      BY <2>11, CommitReleasePreserves
    <2>12. CASE CommitCancellation(s)
      BY <2>12, CommitCancellationPreserves
    <2>13. CASE CommitDecline(s)
      BY <2>13, CommitDeclinePreserves
    <2>14. CASE CommitResolution(s)
      BY <2>14, CommitResolutionPreserves
    <2> QED BY <2>1, <2>2, <2>3, <2>4, <2>5, <2>6, <2>7, <2>8, <2>9, <2>10, <2>11, <2>12,
               <2>13, <2>14 DEF Runs
  <1> QED BY <1>1, <1>2

(* So it always holds.                                                     *)
LEMMA Invariance == Spec => []IInv
  BY InitIsSound, StepPreserves, PTL DEF Spec

-----------------------------------------------------------------------------
(* What follows, whatever keys are used.                                   *)

(* The state stays well-typed; in particular no handler writes a row that  *)
(* is not there.                                                           *)
THEOREM EscrowTypeCorrect == Spec => []TypeOK
  <1>1. IInv => TypeOK
    BY DEF IInv
  <1> QED BY <1>1, Invariance, PTL

(* fund_milestone() and approve_and_release(): of two transactions for one *)
(* milestone, one protects its money and the other lets it go, however     *)
(* parties and administrators race.                                        *)
THEOREM FundedAndPaidOnce == Spec => []PaidOutOnce
  <1>1. ASSUME IInv PROVE PaidOutOnce
    <2> SUFFICES ASSUME NEW i \in DOMAIN txns, NEW j \in DOMAIN txns, txns[i].m = txns[j].m,
                        i # j
                 PROVE  Cardinality({h \in {i, j} : txns[h].entry.type = "MILESTONE_FUNDING"}) = 1
      BY DEF PaidOutOnce
    <2> DEFINE fundings == {h \in {i, j} : txns[h].entry.type = "MILESTONE_FUNDING"}
    <2>1. IsFunding(i) # IsFunding(j)
      BY <1>1 DEF IInv, RowsStand, OncePerKind
    <2>2. fundings = {i} \/ fundings = {j}
      BY <2>1 DEF IsFunding
    <2> HIDE DEF fundings
    <2>3. Cardinality(fundings) = 1
      BY <2>2, FS_Singleton
    <2> QED BY <2>3 DEF fundings
  <1> QED BY <1>1, Invariance, PTL

(* approve_and_release(): a milestone shown as released had a payout of    *)
(* its own, also when a key is used for two milestones of equal worth.     *)
THEOREM ReleasesArePaid == Spec => []ReleasedWasPaid
  <1>1. IInv => ReleasedWasPaid
    BY DEF IInv, RowsStand
  <1> QED BY <1>1, Invariance, PTL

(* refresh_project_completion(): the project is closed exactly while all   *)
(* its milestones are, though each handler computes it from rows it has    *)
(* not locked.                                                             *)
THEOREM ClosedWithTheLast == Spec => []ClosedWithLastMilestone
  <1>1. IInv => ClosedWithLastMilestone
    BY DEF IInv, RowsStand
  <1> QED BY <1>1, Invariance, PTL

-----------------------------------------------------------------------------
(* Decisions about cancellations, and the codes that make them.            *)

(* A request that only one code was sent for has none once it is decided.  *)
CodesSent(c) ==
  /\ cancellation[c].sent # 0 /\ cancellation[c].active \subseteq 1 .. cancellation[c].sent
  /\ cancellation[c].status # "AWAITING_RECEIVER" /\ cancellation[c].sent = 1
       => cancellation[c].active = {}

(* Who has locked codes finds them ACTIVE; who declines a request has      *)
(* loaded its first code, if it still is.                                  *)
CodesLoaded(s) ==
  /\ HoldsCode(s) => loaded[s] # {} /\ loaded[s] \subseteq cancellation[req[s].n].active
  /\ UnderWay(s, "decline_cancellation") /\ cancellation[req[s].n].sent = 1
       => cancellation[req[s].n].active \subseteq loaded[s]

CodesApart(s, t) ==
  HoldsCode(s) /\ HoldsCode(t) /\ req[s].n = req[t].n => loaded[s] \cap loaded[t] = {}

CodesStand ==
  /\ \A c \in DOMAIN cancellation : CodesSent(c)
  /\ \A s \in Sessions : CodesLoaded(s)
  /\ \A s, t \in Sessions : s # t => CodesApart(s, t)

(* A row that a step of s leaves to those who hold codes of it, or decline. *)
LeftToOthers(s, c) ==
  /\ c \in DOMAIN cancellation'
  /\ \A t \in Sessions \ {s} :
       HoldsCode(t) /\ req[t].n = c => loaded[t] \subseteq cancellation'[c].active
  /\ cancellation'[c].sent = 1 =>
       cancellation[c].sent = 1 /\ cancellation'[c].active \subseteq cancellation[c].active

(* A session's request is there.                                           *)
LEMMA RequestIsThere ==
  ASSUME IInv, NEW t \in Sessions, pc[t] # "idle", req[t].op \in CancellationOps
  PROVE  req[t].n \in DOMAIN cancellation /\ cancellation[req[t].n].m = req[t].m
  BY DEF IInv, Stands, Refers

(* A handler ends, and leaves the others' codes as they are.               *)
LEMMA CodesAtEnd ==
  ASSUME IInv, CodesStand, NEW s \in Sessions, End(s),
         \A c \in DOMAIN cancellation' : CodesSent(c)',
         \A c \in DOMAIN cancellation : LeftToOthers(s, c)
  PROVE  CodesStand'
  <1>1. /\ pc'[s] = "idle"
        /\ \A t \in Sessions \ {s} : pc'[t] = pc[t] /\ req'[t] = req[t] /\ loaded'[t] = loaded[t]
    BY DEF End, IInv, TypeOK
  <1>2. ASSUME NEW t \in Sessions PROVE CodesLoaded(t)'
    <2>1. CASE t = s
      BY <1>1, <2>1 DEF CodesLoaded, HoldsCode, UnderWay
    <2>2. CASE t # s
      <3>1. CodesLoaded(t)
        BY DEF CodesStand
      <3>2. HoldsCode(t) \/ UnderWay(t, "decline_cancellation") => req[t].n \in DOMAIN cancellation
        BY RequestIsThere DEF HoldsCode, UnderWay, CancellationOps, Deciding
      <3>3. HoldsCode(t) => loaded[t] # {} /\ loaded[t] \subseteq cancellation'[req[t].n].active
        BY <2>2, <3>1, <3>2 DEF LeftToOthers, CodesLoaded
      <3>4. UnderWay(t, "decline_cancellation") /\ cancellation'[req[t].n].sent = 1
              => cancellation'[req[t].n].active \subseteq loaded[t]
        BY <2>2, <3>1, <3>2 DEF LeftToOthers, CodesLoaded
      <3> QED BY <1>1, <2>2, <3>3, <3>4 DEF CodesLoaded, HoldsCode, UnderWay
    <2> QED BY <2>1, <2>2
  <1>3. ASSUME NEW t \in Sessions, NEW u \in Sessions, t # u PROVE CodesApart(t, u)'
    BY <1>1, <1>3 DEF CodesStand, CodesApart, HoldsCode
  <1> QED BY <1>2, <1>3 DEF CodesStand

(* A step of one session that writes no request.                           *)
LEMMA CodesOfOne ==
  ASSUME IInv, CodesStand, NEW s \in Sessions, cancellation' = cancellation,
         \A t \in Sessions \ {s} :
           pc'[t] = pc[t] /\ req'[t] = req[t] /\ loaded'[t] = loaded[t],
         CodesLoaded(s)', \A t \in Sessions \ {s} : CodesApart(s, t)'
  PROVE  CodesStand'
  <1>1. \A c \in DOMAIN cancellation' : CodesSent(c)'
    BY DEF CodesStand, CodesSent
  <1>2. \A t \in Sessions : CodesLoaded(t)'
    BY DEF CodesStand, CodesLoaded, HoldsCode, UnderWay
  <1>3. \A t, u \in Sessions : CodesApart(t, u)' => CodesApart(u, t)'
    BY DEF CodesApart
  <1>4. \A t, u \in Sessions \ {s} : t # u => CodesApart(t, u)'
    BY DEF CodesStand, CodesApart, HoldsCode
  <1> QED BY <1>1, <1>2, <1>3, <1>4 DEF CodesStand

(* A session begins, and has loaded the codes that there are.              *)
LEMMA CodesAtBegin ==
  ASSUME IInv, CodesStand, NEW s \in Sessions, NEW r, NEW codes, Begin(s, r, codes),
         r.op = "decline_cancellation" => codes = cancellation[r.n].active
  PROVE  CodesStand'
  <1>1. /\ pc'[s] = "asked" /\ req'[s] = r /\ loaded'[s] = codes /\ cancellation' = cancellation
        /\ \A t \in Sessions \ {s} :
             pc'[t] = pc[t] /\ req'[t] = req[t] /\ loaded'[t] = loaded[t]
    BY DEF Begin, Rows, IInv, TypeOK
  <1>2. CodesLoaded(s)' /\ \A t \in Sessions \ {s} : CodesApart(s, t)'
    BY <1>1 DEF CodesLoaded, CodesApart, HoldsCode, UnderWay
  <1> QED BY <1>1, <1>2, CodesOfOne

(* A session goes on.                                                      *)
LEMMA CodesGoOn ==
  ASSUME IInv, CodesStand, NEW s \in Sessions,
         FindCode(s) \/ LockCode(s) \/ Lock(s) \/ SettleNew(s) \/ SettleReplayed(s)
  PROVE  CodesStand'
  <1> DEFINE stage == pc'[s]
  <1> DEFINE codes == loaded'[s]
  <1>1. /\ req' = req /\ cancellation' = cancellation
        /\ \A t \in Sessions \ {s} :
             pc'[t] = pc[t] /\ req'[t] = req[t] /\ loaded'[t] = loaded[t]
    BY DEF FindCode, LockCode, Lock, SettleNew, SettleReplayed, Stages, Goes, Rows, IInv, TypeOK
  <1>2. \/ stage = "found" /\ req[s].op = "verify_cancellation"
        \/ /\ stage = "coded" /\ req[s].op = "verify_cancellation" /\ CodesFree(s)
           /\ codes # {} /\ codes \subseteq loaded[s]
           /\ codes \subseteq cancellation[req[s].n].active
        \/ /\ pc[s] # "idle" /\ codes = loaded[s]
           /\ req[s].op = "verify_cancellation" => HoldsCode(s)
    <2>1. pc \in [Sessions -> {"idle", "asked", "found", "coded", "locked", "settled"}]
          /\ loaded \in [Sessions -> SUBSET Nat]
      BY DEF IInv, TypeOK
    <2>2. CASE FindCode(s)
      BY <2>1, <2>2 DEF FindCode, Goes
    <2>3. CASE LockCode(s)
      <3>1. pc[s] = "found" /\ req[s].op = "verify_cancellation"
        BY <2>3 DEF LockCode, IInv, Stands, Refers
      <3>2. codes = loaded[s] \cap cancellation[req[s].n].active /\ codes # {}
        BY <2>1, <2>3 DEF LockCode
      <3> QED BY <2>1, <2>3, <3>1, <3>2 DEF LockCode, Goes
    <2>4. CASE Lock(s)
      BY <2>1, <2>4 DEF Lock, Reaches, HoldsCode
    <2>5. CASE SettleNew(s) \/ SettleReplayed(s)
      <3>1. loaded' = loaded /\ pc[s] = "locked"
        BY <2>5 DEF SettleNew, SettleReplayed, Stages
      <3> QED BY <3>1 DEF HoldsCode
    <2> QED BY <2>2, <2>3, <2>4, <2>5
  <1> HIDE DEF stage, codes
  <1>3. CodesLoaded(s) /\ \A t \in Sessions \ {s} : CodesApart(s, t)
    BY DEF CodesStand
  <1>4. CodesLoaded(s)'
    BY <1>1, <1>2, <1>3 DEF CodesLoaded, HoldsCode, UnderWay, stage, codes
  <1>5. ASSUME NEW t \in Sessions \ {s} PROVE CodesApart(s, t)'
    <2>1. CASE stage = "found"
      BY <1>1, <2>1 DEF CodesApart, HoldsCode, stage
    <2>2. CASE CodesFree(s) /\ codes \subseteq loaded[s]
      BY <1>1, <2>2 DEF CodesApart, CodesFree, HoldsCode, codes
    <2>3. CASE codes = loaded[s] /\ (req[s].op = "verify_cancellation" => HoldsCode(s))
      BY <1>1, <1>3, <2>3 DEF CodesApart, HoldsCode, codes
    <2> QED BY <1>2, <2>1, <2>2, <2>3
  <1> QED BY <1>1, <1>4, <1>5, CodesOfOne

(* A new request has one code.                                             *)
LEMMA RequestAdded ==
  ASSUME IInv, NEW s \in Sessions, RequestCancellation(s), NEW last, last = Len(cancellation) + 1
  PROVE  /\ last \notin DOMAIN cancellation /\ DOMAIN cancellation' = DOMAIN cancellation \cup {last}
         /\ \A c \in DOMAIN cancellation : cancellation'[c] = cancellation[c]
         /\ cancellation'[last].m = req[s].m /\ RequestBecomes(last, "AWAITING_RECEIVER", 1, {1})
  <1> DEFINE new == [m |-> req[s].m, status |-> "AWAITING_RECEIVER", sent |-> 1, active |-> {1}]
  <1>1. cancellation \in Seq(CancellationRows) /\ cancellation' = Append(cancellation, new)
    BY DEF IInv, TypeOK, RequestCancellation
  <1>2. new.m = req[s].m /\ new.status = "AWAITING_RECEIVER" /\ new.sent = 1 /\ new.active = {1}
    OBVIOUS
  <1> HIDE DEF new
  <1>3. /\ last \notin DOMAIN cancellation /\ DOMAIN cancellation' = DOMAIN cancellation \cup {last}
        /\ \A c \in DOMAIN cancellation : cancellation'[c] = cancellation[c]
        /\ cancellation'[last] = new
    BY <1>1
  <1> QED BY <1>2, <1>3 DEF RequestBecomes

(* A code is spent, sent anew, confirms a request, or falls with it.       *)
LEMMA CodesWrittenStand ==
  ASSUME IInv, CodesStand, NEW s \in Sessions,
         SpendCode(s) \/ ResendCode(s) \/ CommitCancellation(s) \/ CommitDecline(s)
  PROVE  CodesStand'
  <1>1. PICK c : c = req[s].n
    OBVIOUS
  <1>2. Refers(s) /\ End(s) /\ TypeOK /\ pc[s] # "idle" /\ req[s].op \in CancellationOps
    BY DEF SpendCode, ResendCode, CommitCancellation, CommitDecline, Commits, IInv, Stands,
       Refers, CancellationOps, Deciding
  <1> DEFINE old == cancellation[c]
  <1>3. c \in DOMAIN cancellation /\ OthersUntouched(c)
    BY <1>1, <1>2, CodesWritten
  <1>4. old.sent \in Nat /\ old.active \in SUBSET Nat
    <2>1. cancellation \in Seq(CancellationRows)
      BY <1>2 DEF TypeOK
    <2>2. old \in CancellationRows
      BY <1>3, <2>1
    <2> QED BY <2>2 DEF CancellationRows
  <1>5. CodesSent(c) /\ CodesLoaded(s)
    BY <1>3 DEF CodesStand
  <1>6. ASSUME CodesSent(c)', LeftToOthers(s, c) PROVE CodesStand'
    <2>1. \A x \in DOMAIN cancellation' : CodesSent(x)'
      BY <1>3, <1>6 DEF OthersUntouched, CodesStand, CodesSent
    <2>2. \A x \in DOMAIN cancellation : LeftToOthers(s, x)
      BY <1>3, <1>6 DEF OthersUntouched, CodesStand, CodesLoaded, LeftToOthers
    <2> QED BY <1>2, <2>1, <2>2, CodesAtEnd
  <1>7. \A t \in Sessions \ {s} : HoldsCode(t) /\ req[t].n = c => loaded[t] \subseteq old.active
    BY DEF CodesStand, CodesLoaded
  <1>8. CASE SpendCode(s) \/ CommitCancellation(s)
    <2>1. PICK k \in loaded[s] :
            /\ RequestBecomes(c, old.status, old.sent, old.active \ {k})
               \/ RequestBecomes(c, "CONFIRMED", old.sent, old.active \ {k})
      BY <1>1, <1>2, <1>8, CodesWritten
    <2>2. HoldsCode(s)
      BY <1>8 DEF SpendCode, CommitCancellation, Commits, HoldsCode, IInv, Stands, Refers
    <2>3. k \in old.active
      BY <1>1, <1>5, <2>1, <2>2 DEF CodesLoaded
    <2>4. \A t \in Sessions \ {s} : HoldsCode(t) /\ req[t].n = c => k \notin loaded[t]
      BY <1>1, <2>1, <2>2 DEF CodesStand, CodesApart
    <2>5. LeftToOthers(s, c)
      BY <1>3, <1>7, <2>1, <2>4 DEF LeftToOthers, RequestBecomes, OthersUntouched
    <2>6. old.sent = 1 => old.active \ {k} = {}
      <3> SUFFICES ASSUME old.sent = 1 PROVE old.active \ {k} = {}
        OBVIOUS
      <3>1. old.active \subseteq {1}
        BY <1>5 DEF CodesSent
      <3> QED BY <2>3, <3>1
    <2>7. CodesSent(c)'
      BY <1>5, <2>1, <2>6 DEF CodesSent, RequestBecomes
    <2> QED BY <1>6, <2>5, <2>7
  <1>9. CASE ResendCode(s)
    <2>1. RequestBecomes(c, old.status, old.sent + 1, (old.active \ loaded[s]) \cup {old.sent + 1})
      BY <1>1, <1>2, <1>9, CodesWritten
    <2>2. \A t \in Sessions \ {s} : HoldsCode(t) /\ req[t].n = c => loaded[t] \cap loaded[s] = {}
      BY <1>1, <1>9 DEF ResendCode, CodesFree
    <2>3. old.sent + 1 # 1 /\ old.sent + 1 # 0 /\ old.sent + 1 \in 1 .. (old.sent + 1)
          /\ 1 .. old.sent \subseteq 1 .. (old.sent + 1)
      BY <1>4, <1>5 DEF CodesSent
    <2>4. LeftToOthers(s, c)
      BY <1>3, <1>7, <2>1, <2>2, <2>3 DEF LeftToOthers, RequestBecomes, OthersUntouched
    <2>5. CodesSent(c)'
      BY <1>5, <2>1, <2>3 DEF CodesSent, RequestBecomes
    <2> QED BY <1>6, <2>4, <2>5
  <1>10. CASE CommitDecline(s)
    <2>1. RequestBecomes(c, "DECLINED", old.sent, old.active \ loaded[s])
      BY <1>1, <1>2, <1>10, CodesWritten
    <2>2. \A t \in Sessions \ {s} : HoldsCode(t) /\ req[t].n = c => loaded[t] \cap loaded[s] = {}
      BY <1>1, <1>10 DEF CommitDecline, CodesFree
    <2>3. LeftToOthers(s, c)
      BY <1>3, <1>7, <2>1, <2>2 DEF LeftToOthers, RequestBecomes, OthersUntouched
    <2>4. UnderWay(s, "decline_cancellation")
      BY <1>10 DEF CommitDecline, Commits, UnderWay
    <2>5. CodesSent(c)'
      BY <1>1, <1>5, <2>1, <2>4 DEF CodesSent, CodesLoaded, RequestBecomes
    <2> QED BY <1>6, <2>3, <2>5
  <1> QED BY <1>8, <1>9, <1>10

(* Any other handler that ends leaves the codes alone.                     *)
LEMMA CodesLeftAtEnd ==
  ASSUME IInv, CodesStand, NEW s \in Sessions, End(s), UNCHANGED cancellation
  PROVE  CodesStand'
  <1>1. \A c \in DOMAIN cancellation' : CodesSent(c)'
    BY DEF CodesStand, CodesSent
  <1>2. \A c \in DOMAIN cancellation : LeftToOthers(s, c)
    BY DEF CodesStand, CodesLoaded, LeftToOthers
  <1> QED BY <1>1, <1>2, CodesAtEnd

(* A request with its first code.                                          *)
LEMMA CodesOfNewRequest ==
  ASSUME IInv, CodesStand, NEW s \in Sessions, RequestCancellation(s)
  PROVE  CodesStand'
  <1>1. PICK last : last = Len(cancellation) + 1
    OBVIOUS
  <1>2. /\ DOMAIN cancellation' = DOMAIN cancellation \cup {last}
        /\ \A c \in DOMAIN cancellation : cancellation'[c] = cancellation[c]
        /\ RequestBecomes(last, "AWAITING_RECEIVER", 1, {1})
    BY <1>1, RequestAdded
  <1>3. CodesSent(last)'
    BY <1>2 DEF CodesSent, RequestBecomes
  <1>4. \A c \in DOMAIN cancellation' : CodesSent(c)'
    BY <1>2, <1>3 DEF CodesStand, CodesSent
  <1>5. \A c \in DOMAIN cancellation : LeftToOthers(s, c)
    BY <1>2 DEF CodesStand, CodesLoaded, LeftToOthers
  <1>6. End(s)
    BY DEF RequestCancellation, Acts
  <1> QED BY <1>4, <1>5, <1>6, CodesAtEnd

(* Who asks for a decision has loaded the codes there are.                 *)
LEMMA CodesAsked ==
  ASSUME IInv, CodesStand, NEW s \in Sessions, Asks(s)
  PROVE  CodesStand'
  <1>1. PICK r, codes : /\ Begin(s, r, codes)
                        /\ r.op = "decline_cancellation" => codes = cancellation[r.n].active
    <2>1. ASSUME NEW op \in MilestoneOps, NEW m, NEW k, AskAboutMilestone(s, op, m, k)
          PROVE  \E r : Begin(s, r, {}) /\ r.op # "decline_cancellation"
      <3> DEFINE r == [op |-> op, m |-> m, n |-> 0, key |-> k]
      <3>1. Begin(s, r, {}) /\ r.op = op
        BY <2>1 DEF AskAboutMilestone
      <3> HIDE DEF r
      <3> QED BY <3>1 DEF MilestoneOps, PartyMoves
    <2>2. ASSUME NEW op \in Resolutions \cup {"add_message"}, NEW d, AskAboutDispute(s, op, d)
          PROVE  \E r : Begin(s, r, {}) /\ r.op # "decline_cancellation"
      <3> DEFINE r == [op |-> op, m |-> dispute[d].m, n |-> d, key |-> NoKey]
      <3>1. Begin(s, r, {}) /\ r.op = op
        BY <2>2 DEF AskAboutDispute
      <3> HIDE DEF r
      <3> QED BY <3>1 DEF Resolutions
    <2>3. ASSUME NEW op, NEW c, AskAboutCancellation(s, op, c)
          PROVE  \E r, codes : /\ Begin(s, r, codes)
                               /\ r.op = "decline_cancellation" => codes = cancellation[r.n].active
      <3> DEFINE r == [op |-> op, m |-> cancellation[c].m, n |-> c, key |-> NoKey]
      <3> DEFINE codes == IF op = "verify_cancellation" THEN {} ELSE cancellation[c].active
      <3>1. Begin(s, r, codes) /\ r.op = op /\ r.n = c
        BY <2>3 DEF AskAboutCancellation
      <3>2. op = "decline_cancellation" => codes = cancellation[c].active
        OBVIOUS
      <3> HIDE DEF r, codes
      <3> QED BY <3>1, <3>2
    <2> QED BY <2>1, <2>2, <2>3 DEF Asks
  <1> QED BY <1>1, CodesAtBegin

(* No step breaks what is known of the codes.                              *)
LEMMA CodesPreserved == IInv /\ CodesStand /\ [Next]_vars => CodesStand'
  <1> SUFFICES ASSUME IInv, CodesStand, [Next]_vars PROVE CodesStand'
    OBVIOUS
  <1>1. CASE UNCHANGED vars
    BY <1>1 DEF vars, CodesStand, CodesSent, CodesLoaded, CodesApart, HoldsCode, UnderWay
  <1>2. CASE Next
    <2>1. PICK s \in Sessions : Asks(s) \/ Runs(s) \/ SpendCode(s) \/ Rollback(s)
      BY <1>2 DEF Next
    <2>2. CASE Asks(s)
      BY <2>2, CodesAsked
    <2>3. CASE SpendCode(s) \/ ResendCode(s) \/ CommitCancellation(s) \/ CommitDecline(s)
      BY <2>3, CodesWrittenStand
    <2>4. CASE FindCode(s) \/ LockCode(s) \/ Lock(s) \/ SettleNew(s) \/ SettleReplayed(s)
      BY <2>4, CodesGoOn
    <2>5. CASE RequestCancellation(s)
      BY <2>5, CodesOfNewRequest
    <2>6. CASE Refuse(s) \/ NoCode(s) \/ CannotSettle(s) \/ LoseRelease(s) \/ Rollback(s)
               \/ AddMessage(s)
      BY <2>6, CodesLeftAtEnd
         DEF Refuse, NoCode, CannotSettle, LoseRelease, Rollback, AddMessage, Rows
    <2>7. CASE StartWork(s) \/ SubmitMilestone(s) \/ RequestChanges(s) \/ RaiseDispute(s)
      BY <2>7, CodesLeftAtEnd DEF StartWork, SubmitMilestone, RequestChanges, RaiseDispute, Acts
    <2>8. CASE CommitFunding(s) \/ CommitRelease(s) \/ CommitResolution(s)
      BY <2>8, CodesLeftAtEnd DEF CommitFunding, CommitRelease, CommitResolution, Commits
    <2> QED BY <2>1, <2>2, <2>3, <2>4, <2>5, <2>6, <2>7, <2>8 DEF Runs
  <1> QED BY <1>1, <1>2

(* What a step does to the requests: it adds one, or writes the status or  *)
(* the codes of one.                                                       *)
LEMMA RequestSteps ==
  ASSUME Next
  PROVE  \/ UNCHANGED cancellation
         \/ \E s \in Sessions :
              \/ RequestCancellation(s) \/ SpendCode(s) \/ ResendCode(s)
              \/ CommitCancellation(s) \/ CommitDecline(s)
  <1>1. PICK s \in Sessions : Asks(s) \/ Runs(s) \/ SpendCode(s) \/ Rollback(s)
    BY DEF Next
  <1>2. CASE Asks(s)
    <2>1. UNCHANGED Rows
      BY <1>2 DEF Asks, AskAboutMilestone, AskAboutDispute, AskAboutCancellation, Begin
    <2> QED BY <2>1 DEF Rows
  <1>3. CASE Runs(s)
    BY <1>3 DEF Runs, Refuse, StartWork, SubmitMilestone, RequestChanges, RaiseDispute,
       AddMessage, FindCode, LockCode, NoCode, Lock, SettleNew, SettleReplayed, CannotSettle,
       CommitFunding, CommitRelease, LoseRelease, CommitResolution, Rows, Goes, Stages
  <1>4. CASE Rollback(s)
    BY <1>4 DEF Rollback, Rows
  <1> QED BY <1>1, <1>2, <1>3, <1>4

(* Whoever writes a status finds the request and its milestone so.         *)
LEMMA DecidersFind ==
  ASSUME IInv, NEW s \in Sessions, CommitCancellation(s) \/ CommitDecline(s)
  PROVE  /\ Refers(s) /\ TypeOK /\ pc[s] = "settled" /\ req[s].op \in Deciding
         /\ req[s].n \in DOMAIN cancellation /\ cancellation[req[s].n].m = req[s].m
         /\ cancellation[req[s].n].status # "CONFIRMED"
         /\ CommitCancellation(s) => HoldsCode(s)
  <1>1. PICK op \in Deciding : Commits(s, {op}) /\ (CommitCancellation(s) => op = "verify_cancellation")
    BY DEF CommitCancellation, CommitDecline, Commits, Deciding
  <1>2. /\ Refers(s) /\ pc[s] = "settled" /\ req[s].op = op
        /\ Status(req[s].m) \in ProtectedStatuses
    BY <1>1, CommittingFinds DEF Deciding
  <1>3. req[s].n \in DOMAIN cancellation /\ cancellation[req[s].n].m = req[s].m
    BY <1>2 DEF Refers, CancellationOps
  <1>4. cancellation[req[s].n].status # "CONFIRMED"
    BY <1>2, <1>3 DEF IInv, RowsStand, Decided, ProtectedStatuses
  <1>5. CommitCancellation(s) => HoldsCode(s)
    BY <1>1, <1>2 DEF HoldsCode
  <1> QED BY <1>2, <1>3, <1>4, <1>5 DEF IInv

(* Which steps write a decision, and over what.                            *)
LEMMA DecisionsStand ==
  ASSUME IInv, CodesStand, Next, NEW c \in DOMAIN cancellation,
         cancellation[c].status # "AWAITING_RECEIVER",
         cancellation'[c].status # cancellation[c].status
  PROVE  cancellation[c].status = "DECLINED" /\ cancellation[c].sent > 1
  <1>1. PICK s \in Sessions :
          \/ RequestCancellation(s) \/ SpendCode(s) \/ ResendCode(s)
          \/ CommitCancellation(s) \/ CommitDecline(s)
    BY RequestSteps
  <1>2. ~RequestCancellation(s)
    BY RequestAdded
  <1>3. PICK x : x = req[s].n
    OBVIOUS
  <1>4. Refers(s) /\ TypeOK
    BY <1>1, <1>2 DEF SpendCode, ResendCode, CommitCancellation, CommitDecline, Commits, IInv, Stands
  <1>5. c = x
    <2>1. OthersUntouched(x)
      BY <1>1, <1>2, <1>3, <1>4, CodesWritten
    <2> QED BY <2>1 DEF OthersUntouched
  <1>6. ~(SpendCode(s) \/ ResendCode(s))
    BY <1>3, <1>4, <1>5, CodesWritten DEF RequestBecomes
  <1>7. cancellation[c].status = "DECLINED"
    <2>1. cancellation[c] \in CancellationRows
      BY <1>4 DEF TypeOK
    <2>2. cancellation[c].status # "CONFIRMED"
      BY <1>1, <1>2, <1>3, <1>5, <1>6, DecidersFind
    <2> QED BY <2>1, <2>2 DEF CancellationRows
  <1>8. ~CommitDecline(s)
    BY <1>3, <1>4, <1>5, <1>7, CodesWritten DEF RequestBecomes
  <1>9. cancellation[c].active # {}
    <2>1. HoldsCode(s)
      BY <1>1, <1>2, <1>6, <1>8, DecidersFind
    <2> QED BY <1>3, <1>5, <2>1 DEF CodesStand, CodesLoaded
  <1>10. cancellation[c].sent # 0 /\ cancellation[c].sent # 1
    BY <1>9 DEF CodesStand, CodesSent
  <1>11. cancellation[c].sent \in Nat
    <2>1. cancellation[c] \in CancellationRows
      BY <1>4 DEF TypeOK
    <2> QED BY <2>1 DEF CancellationRows
  <1> QED BY <1>7, <1>10, <1>11

(* verify_cancellation() and decline_cancellation() check the request's    *)
(* status before they lock anything.  What keeps the later of the two from *)
(* turning the decision of the other is the code: a confirmation uses one  *)
(* up, and a decline invalidates all that it had loaded.  So a             *)
(* confirmation stands, and a decline too if no code was sent anew.        *)
THEOREM OnlyNewCodesTurn == Spec => OnlyNewCodesTurnDecisions
  <1> DEFINE Kept ==
        \A c \in DOMAIN cancellation :
          cancellation[c].status # "AWAITING_RECEIVER"
          /\ cancellation'[c].status # cancellation[c].status =>
            cancellation[c].status = "DECLINED" /\ cancellation[c].sent > 1
  <1>1. Init => CodesStand
    BY DEF Init, CodesStand, CodesLoaded, CodesApart, HoldsCode, UnderWay
  <1>2. IInv /\ CodesStand /\ [Next]_vars => [Kept]_cancellation
    BY DecisionsStand DEF vars
  <1>3. Spec => [][Kept]_cancellation
    <2> HIDE DEF Kept
    <2> QED BY <1>1, <1>2, CodesPreserved, Invariance, PTL DEF Spec
  <1> QED BY <1>3 DEF OnlyNewCodesTurnDecisions

-----------------------------------------------------------------------------
(* What a step does to the money.                                          *)

NewStatus(m, status) ==
  \A x \in Milestones :
    milestone'[x].status = IF x = m THEN status ELSE milestone[x].status

(* No money moves, and no milestone looks as if its money had.             *)
NoMoneyMoves ==
  /\ balance' = balance
  /\ \A x \in Milestones :
       \/ milestone'[x].status = milestone[x].status
       \/ {milestone'[x].status, milestone[x].status} \subseteq ProtectedStatuses

(* A session's posting takes effect together with its milestone's status.  *)
MoneyMoves(s) ==
  /\ req[s].m \in Milestones /\ req[s].op \in Settling /\ Posts(req[s].op)
  /\ req[s].op = "SPLIT" => Share \in 1..(Amount[req[s].m] - 1)
  /\ IF req[s].op = "fund_milestone" THEN Status(req[s].m) = "PENDING_FUNDING"
                                     ELSE Status(req[s].m) \in ProtectedStatuses
  /\ NewStatus(req[s].m, Target(req[s].op))
  /\ Covered(balance, EntryOf(req[s]))
  /\ balance' = Applied(balance, EntryOf(req[s]))

(* A key's transaction is handed back for another milestone's funding,     *)
(* which is then shown as funded though no money has moved.                *)
HandedBack(s) ==
  /\ req[s].m \in Milestones /\ Status(req[s].m) = "PENDING_FUNDING"
  /\ req[s].op = "fund_milestone" /\ staged[s].tx # 0 /\ pc[s] = "settled"
  /\ NewStatus(req[s].m, "FUNDED")
  /\ balance' = balance

(* A commit gives one milestone its new status.                            *)
LEMMA StatusIsNew ==
  ASSUME TypeOK, NEW m \in Milestones, NEW status,
         \/ milestone' = WithStatus(m, status)
         \/ \E y : milestone' = [WithStatus(m, status) EXCEPT ![m].funding = y]
         \/ \E y : milestone' = [WithStatus(m, status) EXCEPT ![m].release = y]
  PROVE  NewStatus(m, status)
  <1>1. \E funding, release, n : milestone' = RowOf(m, status, funding, release, n)
    <2>1. CASE milestone' = WithStatus(m, status)
      BY <2>1, StatusWritten
    <2>2. CASE \E y : milestone' = [WithStatus(m, status) EXCEPT ![m].funding = y]
      <3>1. PICK y : milestone' = [WithStatus(m, status) EXCEPT ![m].funding = y]
        BY <2>2
      <3>2. [WithStatus(m, status) EXCEPT ![m].funding = y] =
              RowOf(m, status, y, milestone[m].release, milestone[m].revisions)
        BY TwoColumnsWritten
      <3> QED BY <3>1, <3>2
    <2>3. CASE \E y : milestone' = [WithStatus(m, status) EXCEPT ![m].release = y]
      <3>1. PICK y : milestone' = [WithStatus(m, status) EXCEPT ![m].release = y]
        BY <2>3
      <3>2. [WithStatus(m, status) EXCEPT ![m].release = y] =
              RowOf(m, status, milestone[m].funding, y, milestone[m].revisions)
        BY TwoColumnsWritten
      <3> QED BY <3>1, <3>2
    <2> QED BY <2>1, <2>2, <2>3
  <1>2. PICK funding, release, n : milestone' = RowOf(m, status, funding, release, n)
    BY <1>1
  <1> DEFINE row == [status |-> status, funding |-> funding, release |-> release, revisions |-> n]
  <1>3. row.status = status /\ milestone' = [milestone EXCEPT ![m] = row]
    BY <1>2 DEF RowOf
  <1> HIDE DEF row
  <1> QED BY <1>3 DEF NewStatus, TypeOK

(* A commit that posts a new transaction moves one milestone's money.      *)
LEMMA BookedMoves ==
  ASSUME IInv, NEW s \in Sessions, NEW ops, Commits(s, ops), Booked(s),
         Posts(req[s].op), staged[s].tx = 0, NewStatus(req[s].m, Target(req[s].op))
  PROVE  MoneyMoves(s)
  <1>1. /\ req[s].m \in Milestones /\ req[s].op \in Settling /\ Permitted(req[s])
        /\ StagedStands(s) /\ pc[s] = "settled"
        /\ req[s].op = "fund_milestone" => Status(req[s].m) = "PENDING_FUNDING"
        /\ req[s].op # "fund_milestone" => Status(req[s].m) \in ProtectedStatuses
    BY CommittingFinds
  <1>2. req[s].op = "SPLIT" => Share \in 1..(Amount[req[s].m] - 1)
    BY <1>1 DEF Permitted
  <1>3. Covered(balance, EntryOf(req[s])) /\ balance' = Applied(balance, EntryOf(req[s]))
    BY <1>1 DEF StagedStands, Booked
  <1> QED BY <1>1, <1>2, <1>3 DEF MoneyMoves

(* A change between protected statuses moves no money.                     *)
LEMMA InsideMovesNothing ==
  ASSUME IInv, NEW m \in Milestones, Status(m) \in ProtectedStatuses,
         NEW status \in ProtectedStatuses, NewStatus(m, status), balance' = balance
  PROVE  NoMoneyMoves
  BY DEF NoMoneyMoves, NewStatus, Status

(* The handlers that post nothing give a protected milestone a status that *)
(* is protected too.                                                       *)
LEMMA ActsWrite ==
  ASSUME IInv, NEW s \in Sessions,
         \/ StartWork(s) \/ SubmitMilestone(s) \/ RequestChanges(s)
         \/ RequestCancellation(s) \/ RaiseDispute(s)
  PROVE  \E op \in ActOps, status \in ProtectedStatuses :
           /\ Acts(s, op) /\ balance' = balance
           /\ NewStatus(req[s].m, status)
           /\ op = "raise_dispute" => status = "DISPUTED"
  <1> DEFINE m == req[s].m
  <1>1. PICK op \in ActOps, status \in ProtectedStatuses :
          /\ Acts(s, op) /\ balance' = balance
          /\ op = "raise_dispute" => status = "DISPUTED"
          /\ \/ milestone' = WithStatus(m, status)
             \/ \E y : milestone' = [WithStatus(m, status) EXCEPT ![m].revisions = y]
    <2>1. /\ {"start_work", "submit_milestone", "request_changes", "request_cancellation",
              "raise_dispute"} \subseteq ActOps
          /\ {"IN_PROGRESS", "SUBMITTED", "CHANGES_REQUESTED", "CANCELLATION_REQUESTED",
              "DISPUTED"} \subseteq ProtectedStatuses
      BY DEF ActOps, ProtectedStatuses
    <2>2. CASE StartWork(s)
      BY <2>1, <2>2 DEF StartWork
    <2>3. CASE SubmitMilestone(s)
      BY <2>1, <2>3 DEF SubmitMilestone
    <2>4. CASE RequestChanges(s)
      BY <2>1, <2>4 DEF RequestChanges
    <2>5. CASE RequestCancellation(s)
      BY <2>1, <2>5 DEF RequestCancellation
    <2>6. CASE RaiseDispute(s)
      BY <2>1, <2>6 DEF RaiseDispute
    <2> QED BY <2>2, <2>3, <2>4, <2>5, <2>6
  <1>2. m \in Milestones /\ Status(m) \in ProtectedStatuses
    BY <1>1, ActingFinds
  <1>3. NewStatus(m, status)
    <2> DEFINE after == WithStatus(m, status)
    <2>1. after = RowOf(m, status, milestone[m].funding, milestone[m].release, milestone[m].revisions)
      BY <1>2, StatusWritten DEF IInv
    <2>2. /\ DOMAIN after = Milestones /\ after[m].status = status
          /\ \A x \in Milestones \ {m} : after[x] = milestone[x]
      BY <1>2, <2>1 DEF RowOf, IInv, TypeOK
    <2>3. milestone' = after \/ \E y : milestone' = [after EXCEPT ![m].revisions = y]
      BY <1>1
    <2> HIDE DEF after
    <2>4. \A y : /\ [after EXCEPT ![m].revisions = y][m].status = after[m].status
                 /\ \A x \in Milestones \ {m} : [after EXCEPT ![m].revisions = y][x] = after[x]
      BY <1>2, <2>2
    <2> QED BY <2>2, <2>3, <2>4 DEF NewStatus
  <1> QED BY <1>1, <1>3

(* So they move no money.                                                  *)
LEMMA ActsMoveNothing ==
  ASSUME IInv, NEW s \in Sessions,
         \/ StartWork(s) \/ SubmitMilestone(s) \/ RequestChanges(s)
         \/ RequestCancellation(s) \/ RaiseDispute(s)
  PROVE  NoMoneyMoves
  <1>1. PICK op \in ActOps, status \in ProtectedStatuses :
          Acts(s, op) /\ balance' = balance /\ NewStatus(req[s].m, status)
    BY ActsWrite
  <1>2. req[s].m \in Milestones /\ Status(req[s].m) \in ProtectedStatuses
    BY <1>1, ActingFinds
  <1> QED BY <1>1, <1>2, InsideMovesNothing

(* Every step moves no money, or is one posting's, or funds a milestone    *)
(* with what another's funding has posted.                                 *)
LEMMA StepsAre ==
  ASSUME IInv, [Next]_vars
  PROVE  NoMoneyMoves \/ \E s \in Sessions : MoneyMoves(s) \/ HandedBack(s)
  <1>1. ASSUME UNCHANGED <<milestone, balance>> PROVE NoMoneyMoves
    BY <1>1 DEF NoMoneyMoves
  <1>2. CASE UNCHANGED vars
    BY <1>1, <1>2 DEF vars
  <1>3. CASE Next
    <2>1. PICK s \in Sessions : Asks(s) \/ Runs(s) \/ SpendCode(s) \/ Rollback(s)
      BY <1>3 DEF Next
    <2>2. CASE Asks(s)
      <3>1. UNCHANGED Rows
        BY <2>2 DEF Asks, AskAboutMilestone, AskAboutDispute, AskAboutCancellation, Begin
      <3> QED BY <1>1, <3>1 DEF Rows
    <2>3. CASE SpendCode(s) \/ ResendCode(s) \/ Rollback(s) \/ AddMessage(s)
      BY <1>1, <2>3 DEF SpendCode, ResendCode, Rollback, AddMessage, Rows
    <2>4. CASE Refuse(s) \/ NoCode(s) \/ CannotSettle(s) \/ LoseRelease(s)
      BY <1>1, <2>4 DEF Refuse, NoCode, CannotSettle, LoseRelease, Rows
    <2>5. CASE FindCode(s) \/ LockCode(s) \/ Lock(s) \/ SettleNew(s) \/ SettleReplayed(s)
      BY <1>1, <2>5 DEF FindCode, LockCode, Lock, SettleNew, SettleReplayed, Stages, Goes, Rows
    <2>6. CASE StartWork(s) \/ SubmitMilestone(s) \/ RequestChanges(s)
               \/ RequestCancellation(s) \/ RaiseDispute(s)
      BY <2>6, ActsMoveNothing
    <2> DEFINE m == req[s].m
    <2>7. TypeOK
      BY DEF IInv
    <2>8. CASE CommitFunding(s)
      <3>1. /\ Commits(s, {"fund_milestone"}) /\ Booked(s)
            /\ \E y : milestone' = [WithStatus(m, "FUNDED") EXCEPT ![m].funding = y]
        BY <2>8 DEF CommitFunding
      <3>2. /\ m \in Milestones /\ req[s].op = "fund_milestone" /\ pc[s] = "settled"
            /\ Status(m) = "PENDING_FUNDING"
        BY <3>1, CommittingFinds
      <3>3. Posts(req[s].op) /\ Target(req[s].op) = "FUNDED"
        BY <3>2, PostingOps, Targets
      <3>4. NewStatus(m, "FUNDED")
        BY <2>7, <3>1, <3>2, StatusIsNew
      <3>5. CASE staged[s].tx = 0
        BY <3>1, <3>2, <3>3, <3>4, <3>5, BookedMoves
      <3>6. CASE staged[s].tx # 0
        BY <3>1, <3>2, <3>4, <3>6 DEF HandedBack, Booked
      <3> QED BY <3>5, <3>6
    <2>9. CASE CommitRelease(s)
      <3>1. /\ Commits(s, {"approve_and_release"}) /\ Booked(s) /\ ~AlreadyReleases(s)
            /\ \E y : milestone' = [WithStatus(m, "PAYMENT_RELEASED") EXCEPT ![m].release = y]
        BY <2>9 DEF CommitRelease
      <3>2. m \in Milestones /\ req[s].op = "approve_and_release" /\ staged[s].tx = 0
        BY <3>1, CommittingFinds, ReleasesAreNew
      <3>3. Posts(req[s].op) /\ Target(req[s].op) = "PAYMENT_RELEASED"
        BY <3>2, PostingOps, Targets DEF Payouts
      <3>4. NewStatus(m, "PAYMENT_RELEASED")
        BY <2>7, <3>1, <3>2, StatusIsNew
      <3> QED BY <3>1, <3>2, <3>3, <3>4, BookedMoves
    <2>10. CASE CommitCancellation(s)
      <3>1. /\ Commits(s, {"verify_cancellation"}) /\ Booked(s)
            /\ milestone' = WithStatus(m, "CANCELLED")
        BY <2>10 DEF CommitCancellation
      <3>2. m \in Milestones /\ req[s].op = "verify_cancellation" /\ staged[s].tx = 0
        BY <3>1, CommittingFinds, KeylessIsNew DEF KeyedOps
      <3>3. Posts(req[s].op) /\ Target(req[s].op) = "CANCELLED"
        BY <3>2, PostingOps, Targets DEF Returns
      <3>4. NewStatus(m, "CANCELLED")
        BY <2>7, <3>1, <3>2, StatusIsNew
      <3> QED BY <3>1, <3>2, <3>3, <3>4, BookedMoves
    <2>11. CASE CommitDecline(s)
      <3>1. /\ Commits(s, {"decline_cancellation"}) /\ balance' = balance
            /\ milestone' = WithStatus(m, "FUNDED")
        BY <2>11 DEF CommitDecline
      <3>2. m \in Milestones /\ Status(m) \in ProtectedStatuses
        BY <3>1, CommittingFinds
      <3>3. NewStatus(m, "FUNDED") /\ "FUNDED" \in ProtectedStatuses
        BY <2>7, <3>1, <3>2, StatusIsNew DEF ProtectedStatuses
      <3> QED BY <3>1, <3>2, <3>3, InsideMovesNothing
    <2>12. CASE CommitResolution(s)
      <3>1. /\ Commits(s, Resolutions) /\ milestone' = WithStatus(m, Target(req[s].op))
            /\ IF Posts(req[s].op) THEN Booked(s) ELSE balance' = balance
        BY <2>12 DEF CommitResolution
      <3>2. /\ m \in Milestones /\ req[s].op \in Resolutions /\ req[s].op \in Settling
            /\ staged[s].tx = 0 /\ Status(m) \in ProtectedStatuses
        BY <3>1, CommittingFinds, KeylessIsNew DEF KeyedOps, Resolutions
      <3>3. NewStatus(m, Target(req[s].op))
        BY <2>7, <3>1, <3>2, StatusIsNew
      <3>4. CASE Posts(req[s].op)
        BY <3>1, <3>2, <3>3, <3>4, BookedMoves
      <3>5. CASE ~Posts(req[s].op)
        <4>1. Target(req[s].op) \in ProtectedStatuses
          BY <3>2, <3>5, PostingOps, Targets DEF Payouts, Returns, ProtectedStatuses
        <4> QED BY <3>1, <3>2, <3>3, <3>5, <4>1, InsideMovesNothing
      <3> QED BY <3>4, <3>5
    <2> QED BY <2>1, <2>2, <2>3, <2>4, <2>5, <2>6, <2>8, <2>9, <2>10, <2>11, <2>12 DEF Runs
  <1> QED BY <1>2, <1>3

(* Keys that tell milestones apart hand nothing back: a key on a funding   *)
(* of the milestone's own would have left it funded.                       *)
LEMMA NothingHandedBack ==
  ASSUME IInv, KeysTellMilestones, NEW s \in Sessions
  PROVE  ~HandedBack(s)
  <1> DEFINE i == staged[s].tx
  <1> SUFFICES ASSUME HandedBack(s) PROVE FALSE
    OBVIOUS
  <1>1. /\ req[s].op = "fund_milestone" /\ StagedStands(s) /\ pc[s] = "settled"
        /\ Status(req[s].m) = "PENDING_FUNDING" /\ i # 0
    BY DEF HandedBack, IInv, Stands
  <1>2. /\ i \in DOMAIN txns /\ txns[i].entry = EntryOf(req[s])
        /\ txns[i].key = req[s].key /\ req[s].key # NoKey
    BY <1>1 DEF StagedStands
  <1>3. txns[i].m = req[s].m
    BY <1>1, <1>2 DEF KeysTellMilestones, Recorded
  <1>4. Status(txns[i].m) # "PENDING_FUNDING"
    BY <1>2 DEF IInv, RowsStand, BooksMatch
  <1> QED BY <1>1, <1>3, <1>4

(* So every step either moves no money or is one posting's.                *)
LEMMA StepsMoveMoneyOnce ==
  ASSUME IInv, KeysTellMilestones, [Next]_vars
  PROVE  NoMoneyMoves \/ \E s \in Sessions : MoneyMoves(s)
  BY StepsAre, NothingHandedBack

(* What each milestone adds to the protected balance.                      *)
Shares == [m \in Milestones |-> IF milestone[m].status \in ProtectedStatuses THEN Amount[m] ELSE 0]

(* What a milestone contributes to the protected balance is an amount.     *)
LEMMA SharesAreInts ==
  /\ Shares \in [Milestones -> Int]
  /\ \A m \in Milestones : Amount[m] \in Int
  <1>1. \A m \in Milestones : Amount[m] \in Int
    BY AmountAssumption
  <1> QED BY <1>1 DEF Shares

(* What is shown as held is the sum of these.                              *)
LEMMA ShownIs == ShownAsHeld = SumFunction(Shares)
  BY DEF ShownAsHeld, Shares

(* A step that moves no money leaves what is shown as held.                *)
LEMMA SameIsShown ==
  ASSUME NoMoneyMoves
  PROVE  balance' = balance /\ ShownAsHeld' = ShownAsHeld
  <1> DEFINE after == [m \in Milestones |->
                         IF milestone'[m].status \in ProtectedStatuses THEN Amount[m] ELSE 0]
  <1>1. after = Shares
    BY DEF Shares, NoMoneyMoves
  <1>2. ShownAsHeld' = SumFunction(after)
    BY DEF ShownAsHeld
  <1> QED BY <1>1, <1>2, ShownIs DEF NoMoneyMoves

(* A milestone that comes to be protected, or no longer is, changes what   *)
(* is shown as held by what it is worth.                                   *)
LEMMA ShownChanges ==
  ASSUME NEW m \in Milestones, NEW status, NewStatus(m, status),
         Status(m) \in ProtectedStatuses <=> status \notin ProtectedStatuses
  PROVE  /\ ShownAsHeld \in Int
         /\ ShownAsHeld' = ShownAsHeld + (IF status \in ProtectedStatuses THEN Amount[m]
                                                                       ELSE -Amount[m])
  <1> DEFINE after == [x \in Milestones |->
                         IF milestone'[x].status \in ProtectedStatuses THEN Amount[x] ELSE 0]
  <1>1. IsFiniteSet(Milestones) /\ Amount[m] \in Int
    BY MilestonesAssumption, SharesAreInts
  <1>2. after \in [Milestones -> Int] /\ Shares \in [Milestones -> Int]
    BY SharesAreInts
  <1>3. \A x \in Milestones \ {m} : after[x] = Shares[x]
    BY DEF NewStatus, Shares
  <1>4. IF status \in ProtectedStatuses THEN Shares[m] = 0 /\ after[m] = Amount[m]
                                        ELSE Shares[m] = Amount[m] /\ after[m] = 0
    BY DEF NewStatus, Shares, Status
  <1>5. ShownAsHeld = SumFunction(Shares) /\ ShownAsHeld' = SumFunction(after)
    BY ShownIs DEF ShownAsHeld
  <1> HIDE DEF after
  <1>6. /\ SumFunction(Shares) \in Int
        /\ SumFunction(after) = SumFunction(Shares) - Shares[m] + after[m]
    BY <1>1, <1>2, <1>3, SumChangesByOne
  <1> QED BY <1>1, <1>4, <1>5, <1>6

(* A posting changes the balance by as much, the same way.                 *)
LEMMA PostingsShow ==
  ASSUME IInv, NEW s \in Sessions, MoneyMoves(s)
  PROVE  \E n \in Int : /\ balance'[Protected(client)] = balance[Protected(client)] + n
                        /\ balance'[Protected(client)] >= 0
                        /\ ShownAsHeld \in Int /\ ShownAsHeld' = ShownAsHeld + n
  <1> DEFINE m == req[s].m
  <1> DEFINE op == req[s].op
  <1> DEFINE p == Protected(client)
  <1> DEFINE n == IF op = "fund_milestone" THEN Amount[m] ELSE -Amount[m]
  <1>1. m \in Milestones /\ Amount[m] \in Nat \ {0} /\ NewStatus(m, Target(op))
    BY AmountAssumption DEF MoneyMoves
  <1>2. IF op = "fund_milestone"
        THEN Target(op) \in ProtectedStatuses /\ Status(m) \notin ProtectedStatuses
        ELSE Target(op) \notin ProtectedStatuses /\ Status(m) \in ProtectedStatuses
    BY PostingOps, Targets DEF MoneyMoves, Payouts, Returns, ProtectedStatuses
  <1>3. ShownAsHeld \in Int /\ ShownAsHeld' = ShownAsHeld + n
    <2>1. ShownAsHeld \in Int /\ ShownAsHeld' = ShownAsHeld +
            (IF Target(op) \in ProtectedStatuses THEN Amount[m] ELSE -Amount[m])
      BY <1>1, <1>2, ShownChanges
    <2> QED BY <1>2, <2>1
  <1>4. Delta(EntryOf(req[s]), p) = n /\ n \in Int /\ n # 0
    BY <1>1, ProtectedDelta DEF MoneyMoves
  <1>5. balance'[p] = balance[p] + n
    BY <1>4, AccountsThere DEF MoneyMoves, Applied
  <1>6. p \in Touched(EntryOf(req[s])) \cap UserAccounts
    <2>1. p \in UserAccounts
      BY AccountsThere DEF UserAccounts, UserAccountTypes, Protected
    <2>2. p \in Touched(EntryOf(req[s]))
      BY ProtectedTouched DEF MoneyMoves
    <2> QED BY <2>1, <2>2
  <1>7. balance[p] + n >= 0
    BY <1>4, <1>6 DEF MoneyMoves, Covered
  <1> HIDE DEF n, p
  <1> QED BY <1>3, <1>4, <1>5, <1>7 DEF p

(* At first nothing is protected.                                          *)
LEMMA NothingAtFirst ==
  ASSUME Init
  PROVE  balance[Protected(client)] = 0 /\ ShownAsHeld = 0
  <1>1. Shares = [m \in Milestones |-> 0]
    BY DEF Init, Shares, ProtectedStatuses
  <1>2. SumFunction(Shares) = 0
    BY <1>1, SumOfZeroes, MilestonesAssumption
  <1> QED BY <1>2, ShownIs, AccountsThere DEF Init

(* constants.py: "Money is held against the milestone in these states."    *)
(* The client's protected balance is the total of the milestones whose     *)
(* status says so, for any milestones and amounts, as long as keys tell    *)
(* milestones of the same worth apart.                                     *)
THEOREM ProtectedMoneyIsHeld == Spec /\ []KeysTellMilestones => []ProtectedMoneyHeld
  <1>1. Init => ProtectedMoneyHeld
    BY NothingAtFirst DEF ProtectedMoneyHeld
  <1>2. IInv /\ KeysTellMilestones /\ ProtectedMoneyHeld /\ [Next]_vars => ProtectedMoneyHeld'
    <2> SUFFICES ASSUME IInv, KeysTellMilestones, ProtectedMoneyHeld, [Next]_vars
                 PROVE  ProtectedMoneyHeld'
      OBVIOUS
    <2>1. CASE NoMoneyMoves
      BY <2>1, SameIsShown DEF ProtectedMoneyHeld
    <2>2. ASSUME NEW s \in Sessions, MoneyMoves(s) PROVE ProtectedMoneyHeld'
      BY <2>2, PostingsShow DEF ProtectedMoneyHeld
    <2> QED BY <2>1, <2>2, StepsMoveMoneyOnce
  <1> QED BY <1>1, <1>2, Invariance, PTL DEF Spec

(* Whatever keys are sent: what a key mixes up is shown without being      *)
(* there, and nothing is there without being shown.                        *)
THEOREM NoMoneyIsLeftBehind == Spec => []NothingLeftBehind
  <1>1. Init => NothingLeftBehind
    BY NothingAtFirst DEF NothingLeftBehind
  <1>2. IInv /\ NothingLeftBehind /\ [Next]_vars => NothingLeftBehind'
    <2> SUFFICES ASSUME IInv, NothingLeftBehind, [Next]_vars PROVE NothingLeftBehind'
      OBVIOUS
    <2> DEFINE p == Protected(client)
    <2>1. balance[p] \in Int /\ balance[p] >= 0 /\ balance[p] <= ShownAsHeld
      BY AccountsThere DEF IInv, TypeOK, NothingLeftBehind
    <2> HIDE DEF p
    <2>2. CASE NoMoneyMoves
      BY <2>2, SameIsShown DEF NothingLeftBehind
    <2>3. ASSUME NEW s \in Sessions, MoneyMoves(s) PROVE NothingLeftBehind'
      <3>1. PICK n \in Int : /\ balance'[p] = balance[p] + n /\ balance'[p] >= 0
                             /\ ShownAsHeld \in Int /\ ShownAsHeld' = ShownAsHeld + n
        BY <2>3, PostingsShow DEF p
      <3> QED BY <2>1, <3>1 DEF NothingLeftBehind, p
    <2>4. ASSUME NEW s \in Sessions, HandedBack(s) PROVE NothingLeftBehind'
      <3> DEFINE m == req[s].m
      <3>1. /\ m \in Milestones /\ NewStatus(m, "FUNDED") /\ balance' = balance
            /\ "FUNDED" \in ProtectedStatuses /\ Status(m) \notin ProtectedStatuses
        BY <2>4 DEF HandedBack, ProtectedStatuses
      <3>2. Amount[m] \in Nat
        BY <3>1, AmountAssumption
      <3>3. ShownAsHeld \in Int /\ ShownAsHeld' = ShownAsHeld + Amount[m]
        BY <3>1, ShownChanges
      <3> QED BY <2>1, <3>1, <3>2, <3>3 DEF NothingLeftBehind, p
    <2> QED BY <2>2, <2>3, <2>4, StepsAre
  <1> QED BY <1>1, <1>2, Invariance, PTL DEF Spec

-----------------------------------------------------------------------------
(* Refinement: the handlers keep the promise.                              *)

(* The promise's vocabulary is escrow's own.                               *)
LEMMA SameBooks ==
  ASSUME NEW e, NEW bal
  PROVE  /\ Promise!Covered(bal, e) <=> Covered(bal, e)
         /\ Promise!Applied(bal, e) = Applied(bal, e)
  BY DEF Promise!Covered, Promise!Applied, Covered, Applied,
         Promise!Delta, Promise!SignedDelta, Promise!NormalBalance, Promise!Touched,
         Delta, SignedDelta, NormalBalance, Touched,
         Promise!UserAccounts, Promise!UserAccountTypes, UserAccounts, UserAccountTypes

(* The promise's movements are the ledger's.                               *)
LEMMA SameEntries ==
  ASSUME NEW n, NEW share
  PROVE  /\ Promise!MilestoneFunding(client, n) = MilestoneFunding(client, n)
         /\ Promise!PaymentRelease(client, receiver, n) = PaymentRelease(client, receiver, n)
         /\ Promise!Refund(client, n) = Refund(client, n)
         /\ Promise!SplitSettlement(client, receiver, n, share) =
              SplitSettlement(client, receiver, n, share)
  BY DEF Promise!MilestoneFunding, Promise!PaymentRelease, Promise!Refund,
         Promise!SplitSettlement, Promise!Transfer, Promise!Line, Promise!Available,
         Promise!Protected, MilestoneFunding, PaymentRelease, Refund, SplitSettlement,
         Transfer, Line, Available, Protected

PlaceOf(status) ==
  CASE status \in ProtectedStatuses -> "escrow"
    [] status = "PAYMENT_RELEASED" -> "receiver"
    [] status = "CANCELLED" -> "returned"
    [] OTHER -> "client"

(* Where a milestone's money is, by its status.                            *)
LEMMA PlacesAre ==
  /\ \A status \in ProtectedStatuses : PlaceOf(status) = "escrow"
  /\ PlaceOf("PENDING_FUNDING") = "client" /\ PlaceOf("FUNDED") = "escrow"
  /\ PlaceOf("PAYMENT_RELEASED") = "receiver" /\ PlaceOf("CANCELLED") = "returned"
  BY DEF PlaceOf, ProtectedStatuses

PlacesOf == [m \in Milestones |-> Place(m)]

(* The refinement mapping, one milestone at a time.                        *)
LEMMA PlaceIs ==
  /\ PlacesOf = [m \in Milestones |-> PlaceOf(milestone[m].status)]
  /\ PlacesOf' = [m \in Milestones |-> PlaceOf(milestone'[m].status)]
  BY DEF PlacesOf, Place, PlaceOf

(* A posting is the promise's one step.                                    *)
LEMMA MovesPlace ==
  ASSUME IInv, NEW s \in Sessions, MoneyMoves(s)
  PROVE  Promise!Next
  <1> DEFINE m == req[s].m
  <1> DEFINE op == req[s].op
  <1> DEFINE e == EntryOf(req[s])
  <1> DEFINE from == PlaceOf(milestone[m].status)
  <1> DEFINE to == PlaceOf(Target(op))
  <1>1. /\ m \in Milestones /\ op \in Payouts \cup Returns \cup {"fund_milestone", "SPLIT"}
        /\ Covered(balance, e) /\ balance' = Applied(balance, e)
        /\ op = "SPLIT" => Share \in 1..(Amount[m] - 1)
    BY PostingOps DEF MoneyMoves
  <1>2. /\ PlacesOf[m] = from
        /\ PlacesOf' = [PlacesOf EXCEPT ![m] = to]
    <2>1. \A x \in Milestones :
            milestone'[x].status = IF x = m THEN Target(op) ELSE milestone[x].status
      BY DEF MoneyMoves, NewStatus
    <2> QED BY <1>1, <2>1, PlaceIs
  <1>3. op = "fund_milestone" => from = "client" /\ to = "escrow"
    BY PlacesAre, Targets DEF MoneyMoves, Status
  <1>4. op # "fund_milestone" => from = "escrow"
    BY PlacesAre DEF MoneyMoves, Status
  <1>5. /\ op \in Payouts => to = "receiver"
        /\ op \in Returns \cup {"SPLIT"} => to = "returned"
    BY PlacesAre, Targets DEF Payouts, Returns
  <1>6. Promise!Covered(balance, e) /\ balance' = Promise!Applied(balance, e)
    BY <1>1, SameBooks
  <1> HIDE DEF from, to
  <1>7. CASE op = "fund_milestone"
    <2>1. e = Promise!MilestoneFunding(client, Amount[m])
      BY <1>7, Entries, SameEntries
    <2>2. Promise!Protect(m)
      BY <1>2, <1>3, <1>6, <1>7, <2>1 DEF Promise!Protect, Promise!Moves, PlacesOf
    <2> QED BY <1>1, <2>2 DEF Promise!Next
  <1>8. CASE op \in Payouts
    <2>1. e = Promise!PaymentRelease(client, receiver, Amount[m]) /\ op # "fund_milestone"
      BY <1>8, Entries, SameEntries DEF Payouts
    <2>2. Promise!Pay(m)
      BY <1>2, <1>4, <1>5, <1>6, <1>8, <2>1 DEF Promise!Pay, Promise!Moves, PlacesOf
    <2> QED BY <1>1, <2>2 DEF Promise!Next
  <1>9. CASE op \in Returns
    <2>1. e = Promise!Refund(client, Amount[m]) /\ op # "fund_milestone"
      BY <1>9, Entries, SameEntries DEF Returns
    <2>2. Promise!GiveBack(m)
      BY <1>2, <1>4, <1>5, <1>6, <1>9, <2>1 DEF Promise!GiveBack, Promise!Moves, PlacesOf
    <2> QED BY <1>1, <2>2 DEF Promise!Next
  <1>10. CASE op = "SPLIT"
    <2>1. e = Promise!SplitSettlement(client, receiver, Amount[m], Share)
      BY <1>10, Entries, SameEntries
    <2>2. Promise!Divide(m, Share)
      BY <1>2, <1>4, <1>5, <1>6, <1>10, <2>1 DEF Promise!Divide, Promise!Moves, PlacesOf
    <2> QED BY <1>1, <1>10, <2>2 DEF Promise!Next
  <1> QED BY <1>1, <1>7, <1>8, <1>9, <1>10

(* However the handlers interleave, a milestone's money leaves the client  *)
(* once, stays whole while it is protected, and leaves protection once, to *)
(* where its status says, as long as keys tell milestones of the same      *)
(* worth apart.                                                            *)
THEOREM CustodyIsKept == Spec /\ []KeysTellMilestones => KeepsCustody
  <1>1. Init => Promise!Init
    <2> SUFFICES ASSUME Init PROVE Promise!Init
      OBVIOUS
    <2>1. balance \in [Accounts -> Int]
      BY InitIsSound DEF IInv, TypeOK
    <2>2. PlacesOf = [m \in Milestones |-> "client"]
      BY PlaceIs, PlacesAre DEF Init
    <2> QED BY <2>1, <2>2 DEF Promise!Init, PlacesOf
  <1>2. IInv /\ KeysTellMilestones /\ [Next]_vars => [Promise!Next]_(Promise!vars)
    <2> SUFFICES ASSUME IInv, KeysTellMilestones, [Next]_vars
                 PROVE  Promise!Next \/ UNCHANGED <<balance, PlacesOf>>
      BY DEF Promise!vars, PlacesOf
    <2>1. CASE NoMoneyMoves
      <3>1. \A x \in Milestones : PlaceOf(milestone'[x].status) = PlaceOf(milestone[x].status)
        BY <2>1, PlacesAre DEF NoMoneyMoves
      <3>2. PlacesOf' = PlacesOf
        BY <3>1, PlaceIs
      <3> QED BY <2>1, <3>2 DEF NoMoneyMoves
    <2> QED BY <2>1, StepsMoveMoneyOnce, MovesPlace
  <1> QED BY <1>1, <1>2, Invariance, PTL DEF Spec, KeepsCustody, Promise!Spec

-----------------------------------------------------------------------------
(* When keys tell milestones apart.                                        *)

(* A recorded funding of a request's details is of the request's worth.    *)
LEMMA SameDetailsSameWorth ==
  ASSUME IInv, NEW s \in Sessions, req[s].op = "fund_milestone",
         NEW i \in DOMAIN txns, txns[i].entry = EntryOf(req[s])
  PROVE  /\ IsFunding(i) /\ txns[i].m \in Milestones /\ req[s].m \in Milestones
         /\ Amount[txns[i].m] = Amount[req[s].m]
  <1>1. txns[i].m \in Milestones /\ req[s].m \in Milestones
    BY TransactionsAre DEF IInv, TypeOK, Requests
  <1>2. txns[i].entry = MilestoneFunding(client, Amount[req[s].m]) /\ IsFunding(i)
    BY Entries, EntryTypes DEF IsFunding
  <1>3. txns[i].entry = MilestoneFunding(client, Amount[txns[i].m])
    BY <1>2 DEF IInv, RowsStand, BooksMatch
  <1> QED BY <1>1, <1>2, <1>3, FundingTellsAmount

(* fund() without keys, or with milestones of different worth: the ledger  *)
(* compares the amount, so a key is never taken for another milestone's.   *)
THEOREM DifferentWorthsTell ==
  ASSUME NoMixUp
  PROVE  Spec => []KeysTellMilestones
  <1>1. IInv => KeysTellMilestones
    <2> SUFFICES ASSUME IInv, NEW s \in Sessions, NEW i \in Recorded(req[s].key),
                        req[s].op = "fund_milestone", txns[i].entry = EntryOf(req[s])
                 PROVE  txns[i].m = req[s].m
      BY DEF KeysTellMilestones
    <2>1. i \in DOMAIN txns /\ req[s].key \in Keys
      BY DEF Recorded, IInv, TypeOK, Requests, OptionalKeys
    <2> QED BY <2>1, SameDetailsSameWorth DEF NoMixUp
  <1> QED BY <1>1, Invariance, PTL

(* What a step adds to the ledger is a request's posting.                  *)
LEMMA PostedIsAsked ==
  ASSUME IInv, [Next]_vars, NEW i \in DOMAIN txns'
  PROVE  \/ i \in DOMAIN txns /\ txns'[i] = txns[i]
         \/ \E s \in Sessions :
              /\ pc[s] = "settled" /\ Posts(req[s].op)
              /\ txns'[i] = [entry |-> EntryOf(req[s]), key |-> req[s].key, m |-> req[s].m]
  <1>1. CASE UNCHANGED txns
    BY <1>1
  <1>2. ASSUME NEW s \in Sessions, Booked(s), Posts(req[s].op)
        PROVE  \/ i \in DOMAIN txns /\ txns'[i] = txns[i]
               \/ txns'[i] = [entry |-> EntryOf(req[s]), key |-> req[s].key, m |-> req[s].m]
    <2> DEFINE new == [entry |-> EntryOf(req[s]), key |-> req[s].key, m |-> req[s].m]
    <2>1. txns' = txns \/ txns' = Append(txns, new)
      BY <1>2 DEF Booked
    <2>2. txns \in Seq(Transactions)
      BY DEF IInv, TypeOK
    <2> HIDE DEF new
    <2>3. (i \in DOMAIN txns /\ txns'[i] = txns[i]) \/ txns'[i] = new
      BY <2>1, <2>2
    <2> QED BY <2>3 DEF new
  <1>3. CASE UNCHANGED vars
    BY <1>1, <1>3 DEF vars
  <1>4. CASE Next
    <2>1. PICK s \in Sessions : Asks(s) \/ Runs(s) \/ SpendCode(s) \/ Rollback(s)
      BY <1>4 DEF Next
    <2>2. CASE Asks(s)
      <3>1. UNCHANGED Rows
        BY <2>2 DEF Asks, AskAboutMilestone, AskAboutDispute, AskAboutCancellation, Begin
      <3> QED BY <1>1, <3>1 DEF Rows
    <2>3. CASE SpendCode(s) \/ ResendCode(s) \/ Rollback(s) \/ AddMessage(s)
      BY <1>1, <2>3 DEF SpendCode, ResendCode, Rollback, AddMessage, Rows
    <2>4. CASE Refuse(s) \/ NoCode(s) \/ CannotSettle(s) \/ LoseRelease(s)
      BY <1>1, <2>4 DEF Refuse, NoCode, CannotSettle, LoseRelease, Rows
    <2>5. CASE FindCode(s) \/ LockCode(s) \/ Lock(s) \/ SettleNew(s) \/ SettleReplayed(s)
      BY <1>1, <2>5 DEF FindCode, LockCode, Lock, SettleNew, SettleReplayed, Stages, Goes, Rows
    <2>6. CASE StartWork(s) \/ SubmitMilestone(s) \/ RequestChanges(s)
               \/ RequestCancellation(s) \/ RaiseDispute(s) \/ CommitDecline(s)
      BY <1>1, <2>6 DEF StartWork, SubmitMilestone, RequestChanges, RequestCancellation,
         RaiseDispute, CommitDecline
    <2>7. CASE CommitFunding(s) \/ CommitRelease(s) \/ CommitCancellation(s)
      <3>1. Booked(s) /\ req[s].op \in {"fund_milestone", "approve_and_release",
                                        "verify_cancellation"}
        BY <2>7 DEF CommitFunding, CommitRelease, CommitCancellation, Commits
      <3>2. Posts(req[s].op)
        BY <3>1, PostingOps DEF Payouts, Returns
      <3>3. pc[s] = "settled"
        BY <2>7 DEF CommitFunding, CommitRelease, CommitCancellation, Commits
      <3> QED BY <1>2, <3>1, <3>2, <3>3
    <2>8. CASE CommitResolution(s)
      BY <1>1, <1>2, <2>8 DEF CommitResolution, Commits
    <2> QED BY <2>1, <2>2, <2>3, <2>4, <2>5, <2>6, <2>7, <2>8 DEF Runs
  <1> QED BY <1>3, <1>4

(* The fundings that carry a key are of the milestone the key is for.      *)
FundingsAreFor(own) ==
  \A i \in DOMAIN txns : IsFunding(i) /\ txns[i].key # NoKey => txns[i].m = own[txns[i].key]

(* lib/queries.ts: the app makes up a new key for each funding it asks     *)
(* for.  Keys then tell milestones of any worth apart, also if a client    *)
(* asks for the same funding again with the key it has.                    *)
THEOREM OwnKeysTell ==
  ASSUME NEW own
  PROVE  Spec /\ []KeysAreFor(own) => []KeysTellMilestones
  <1>1. Init => FundingsAreFor(own)
    BY DEF Init, FundingsAreFor
  <1>2. IInv /\ KeysAreFor(own) /\ FundingsAreFor(own) /\ [Next]_vars => FundingsAreFor(own)'
    <2> SUFFICES ASSUME IInv, KeysAreFor(own), FundingsAreFor(own), [Next]_vars,
                        NEW i \in DOMAIN txns', txns'[i].entry.type = "MILESTONE_FUNDING",
                        txns'[i].key # NoKey
                 PROVE  txns'[i].m = own[txns'[i].key]
      BY DEF FundingsAreFor, IsFunding
    <2>1. CASE i \in DOMAIN txns /\ txns'[i] = txns[i]
      BY <2>1 DEF FundingsAreFor, IsFunding
    <2>2. ASSUME NEW s \in Sessions, Posts(req[s].op),
                 txns'[i] = [entry |-> EntryOf(req[s]), key |-> req[s].key, m |-> req[s].m]
          PROVE  txns'[i].m = own[txns'[i].key]
      <3>1. EntryOf(req[s]).type = "MILESTONE_FUNDING" /\ req[s].key # NoKey
        BY <2>2
      <3>2. req[s].op = "fund_milestone"
        BY <2>2, <3>1, PostingOps, EntryTypes
      <3> QED BY <2>2, <3>1, <3>2 DEF KeysAreFor
    <2> QED BY <2>1, <2>2, PostedIsAsked
  <1>3. IInv /\ KeysAreFor(own) /\ FundingsAreFor(own) => KeysTellMilestones
    <2> SUFFICES ASSUME IInv, KeysAreFor(own), FundingsAreFor(own),
                        NEW s \in Sessions, NEW i \in Recorded(req[s].key),
                        req[s].op = "fund_milestone", txns[i].entry = EntryOf(req[s])
                 PROVE  txns[i].m = req[s].m
      BY DEF KeysTellMilestones
    <2>1. i \in DOMAIN txns /\ req[s].key # NoKey /\ txns[i].key = req[s].key
      BY DEF Recorded
    <2>2. IsFunding(i)
      BY <2>1, SameDetailsSameWorth
    <2> QED BY <2>1, <2>2 DEF KeysAreFor, FundingsAreFor
  <1> QED BY <1>1, <1>2, <1>3, Invariance, PTL DEF Spec

-----------------------------------------------------------------------------
(* Between the parties.                                                    *)

PartyAccounts == {Available(client), Protected(client), Available(receiver)}

(* The client's and the receiver's accounts hold what the client has       *)
(* topped up, all of it and nothing else, and none of them is overdrawn.   *)
AllIsAccountedFor ==
  /\ balance[Available(client)] + balance[Protected(client)] + balance[Available(receiver)] = Funds
  /\ \A a \in PartyAccounts : balance[a] >= 0

(* The ledger would have let in every movement that is recorded.           *)
MovementsBalance == \A i \in DOMAIN txns : Balanced(txns[i].entry)

(* The parties' accounts are three user accounts.                          *)
LEMMA PartyAccountsAre ==
  /\ PartyAccounts \subseteq UserAccounts
  /\ Available(client) # Available(receiver)
  BY AccountsThere, PartiesAssumption
     DEF PartyAccounts, UserAccounts, UserAccountTypes, Available, Protected

(* A movement takes from one party's account what it gives to others.      *)
LEMMA PartyDeltas ==
  ASSUME NEW r, r.m \in Milestones, Posts(r.op),
         r.op = "SPLIT" => Share \in 1 .. (Amount[r.m] - 1)
  PROVE  Delta(EntryOf(r), Available(client)) + Delta(EntryOf(r), Protected(client))
           + Delta(EntryOf(r), Available(receiver)) = 0
  <1> DEFINE n == Amount[r.m]  ac == Available(client)  p == Protected(client)
             ar == Available(receiver)  e == EntryOf(r)
  <1> SUFFICES Delta(e, ac) + Delta(e, p) + Delta(e, ar) = 0
    OBVIOUS
  <1>1. n \in Nat /\ n - n = 0
    BY AmountAssumption
  <1>2. /\ ac \in Accounts /\ p \in Accounts /\ ar \in Accounts
        /\ ac # p /\ ar # p /\ ac # ar
    BY AccountsThere, PartyAccountsAre
  <1>3. \A a \in {ac, p, ar} : NormalBalance(a) = "CREDIT"
    BY DEF NormalBalance, Available, Protected
  <1>4. \A a \in {ac, p, ar} : Delta(e, a) = e.credit[a] - e.debit[a]
    BY <1>3 DEF Delta, SignedDelta
  <1>5. CASE r.op = "fund_milestone"
    <2>1. e = Transfer("MILESTONE_FUNDING", ac, p, n)
      BY <1>5, Entries DEF MilestoneFunding
    <2> HIDE DEF ac, p, ar, e, n
    <2> QED BY <1>1, <1>2, <1>4, <2>1 DEF Transfer, Line
  <1>6. CASE r.op \in Payouts
    <2>1. e = Transfer("PAYMENT_RELEASE", p, ar, n)
      BY <1>6, Entries DEF PaymentRelease
    <2> HIDE DEF ac, p, ar, e, n
    <2> QED BY <1>1, <1>2, <1>4, <2>1 DEF Transfer, Line
  <1>7. CASE r.op \in Returns
    <2>1. e = Transfer("REFUND", p, ac, n)
      BY <1>7, Entries DEF Refund
    <2> HIDE DEF ac, p, ar, e, n
    <2> QED BY <1>1, <1>2, <1>4, <2>1 DEF Transfer, Line
  <1>8. CASE r.op = "SPLIT"
    <2>1. e = SplitSettlement(client, receiver, n, Share) /\ Share \in Int
      BY <1>1, <1>8, Entries
    <2>2. /\ e.debit[ac] = 0 /\ e.debit[p] = n /\ e.debit[ar] = 0
          /\ e.credit[p] = 0 + 0 /\ e.credit[ac] = 0 + (n - Share) /\ e.credit[ar] = Share + 0
      <3>1. e.debit = Line(p, n)
        BY <2>1 DEF SplitSettlement
      <3>2. e.credit = [x \in Accounts |-> Line(ar, Share)[x] + Line(ac, n - Share)[x]]
        BY <2>1 DEF SplitSettlement
      <3> HIDE DEF ac, p, ar, e, n
      <3> QED BY <1>2, <3>1, <3>2 DEF Line
    <2> HIDE DEF ac, p, ar, e, n
    <2> QED BY <1>1, <1>4, <2>1, <2>2
  <1> QED BY <1>5, <1>6, <1>7, <1>8, PostingOps

(* A step that moves money keeps it between the parties.                   *)
LEMMA MovesKeepTheMoney ==
  ASSUME IInv, AllIsAccountedFor, NEW s \in Sessions, MoneyMoves(s)
  PROVE  AllIsAccountedFor'
  <1> DEFINE e == EntryOf(req[s])
  <1>1. /\ req[s].m \in Milestones /\ Posts(req[s].op)
        /\ req[s].op = "SPLIT" => Share \in 1 .. (Amount[req[s].m] - 1)
        /\ Covered(balance, e) /\ balance' = Applied(balance, e)
    BY DEF MoneyMoves
  <1>2. e \in Entry /\ balance \in [Accounts -> Int] /\ PartyAccounts \subseteq Accounts
    BY <1>1, EntryIsTyped, AccountsThere DEF IInv, TypeOK, PartyAccounts
  <1>3. Delta(e, Available(client)) + Delta(e, Protected(client)) + Delta(e, Available(receiver)) = 0
    BY <1>1, PartyDeltas
  <1> HIDE DEF e
  <1>4. \A a \in PartyAccounts : /\ Delta(e, a) \in Int /\ balance[a] \in Int
                                 /\ balance'[a] = balance[a] + Delta(e, a)
                                 /\ a \notin Touched(e) => Delta(e, a) = 0
    BY <1>1, <1>2, DeltaType DEF Applied
  <1>5. \A a \in PartyAccounts : balance'[a] >= 0
    BY <1>1, <1>4, PartyAccountsAre DEF Covered, AllIsAccountedFor
  <1>6. {Available(client), Protected(client), Available(receiver)} \subseteq PartyAccounts
    BY DEF PartyAccounts
  <1>7. Funds \in Int
    BY NumbersAssumption
  <1>8. balance'[Available(client)] + balance'[Protected(client)] + balance'[Available(receiver)] = Funds
    BY <1>3, <1>4, <1>6, <1>7 DEF AllIsAccountedFor
  <1> QED BY <1>5, <1>8 DEF AllIsAccountedFor

(* Escrow makes no money and loses none: at every moment, between whatever *)
(* fundings, releases, refunds, splits and replays, the two parties'       *)
(* accounts hold exactly what the client brought in, and none of them has  *)
(* been overdrawn, with any keys.                                          *)
THEOREM MoneyIsKept == Spec => []AllIsAccountedFor
  <1>1. Init => AllIsAccountedFor
    <2>1. Funds \in Nat
      BY NumbersAssumption
    <2>2. Available(client) # External /\ Available(receiver) # External
      BY DEF Available, External
    <2> QED BY <2>1, <2>2, AccountsThere, PartyAccountsAre DEF Init, AllIsAccountedFor, PartyAccounts
  <1>2. IInv /\ AllIsAccountedFor /\ [Next]_vars => AllIsAccountedFor'
    <2> SUFFICES ASSUME IInv, AllIsAccountedFor, [Next]_vars PROVE AllIsAccountedFor'
      OBVIOUS
    <2>1. ASSUME balance' = balance PROVE AllIsAccountedFor'
      BY <2>1 DEF AllIsAccountedFor
    <2> QED BY <2>1, MovesKeepTheMoney, StepsAre DEF NoMoneyMoves, HandedBack
  <1> QED BY <1>1, <1>2, Invariance, PTL DEF Spec

(* What a request posts is balanced, a split's three lines included.       *)
LEMMA EntryIsBalanced ==
  ASSUME NEW r, r.m \in Milestones, Posts(r.op),
         r.op = "SPLIT" => Share \in 1 .. (Amount[r.m] - 1)
  PROVE  Balanced(EntryOf(r))
  <1> DEFINE n == Amount[r.m]
  <1>1. n \in Nat /\ n > 0
    BY AmountAssumption
  <1>2. {External, Available(client), Protected(client), Available(receiver)} \subseteq Accounts
    BY AccountsThere
  <1>3. 0 \in 0 .. n
    BY <1>1
  <1> HIDE DEF n
  <1>4. /\ Balanced(MilestoneFunding(client, n)) /\ Balanced(PaymentRelease(client, receiver, n))
        /\ Balanced(Refund(client, n))
    BY <1>1, <1>2, <1>3, MovementsAreBalanced
  <1>5. CASE r.op # "SPLIT"
    BY <1>4, <1>5, Entries, PostingOps DEF n
  <1>6. CASE r.op = "SPLIT"
    <2>1. Share \in 0 .. n
      BY <1>1, <1>6 DEF n
    <2>2. Balanced(SplitSettlement(client, receiver, n, Share))
      BY <1>1, <1>2, <2>1, MovementsAreBalanced
    <2> QED BY <1>6, <2>2, Entries DEF n
  <1> QED BY <1>5, <1>6

(* Every movement the handlers record has equal sides: post() would have   *)
(* raised on none of them, so a handler that checked the money and the key *)
(* can count on being let in.                                              *)
THEOREM MovementsAreAcceptable == Spec => []MovementsBalance
  <1>1. Init => MovementsBalance
    BY DEF Init, MovementsBalance
  <1>2. IInv /\ MovementsBalance /\ [Next]_vars => MovementsBalance'
    <2> SUFFICES ASSUME IInv, MovementsBalance, [Next]_vars, NEW i \in DOMAIN txns'
                 PROVE  Balanced(txns'[i].entry)
      BY DEF MovementsBalance
    <2>1. CASE i \in DOMAIN txns /\ txns'[i] = txns[i]
      BY <2>1 DEF MovementsBalance
    <2>2. ASSUME NEW s \in Sessions, pc[s] = "settled", Posts(req[s].op),
                 txns'[i] = [entry |-> EntryOf(req[s]), key |-> req[s].key, m |-> req[s].m]
          PROVE  Balanced(txns'[i].entry)
      <3>1. Permitted(req[s]) /\ req[s].m \in Milestones
        BY <2>2 DEF IInv, TypeOK, Stands, Holds, Requests
      <3>2. req[s].op = "SPLIT" => Share \in 1 .. (Amount[req[s].m] - 1)
        BY <3>1 DEF Permitted
      <3> QED BY <2>2, <3>1, <3>2, EntryIsBalanced
    <2> QED BY <2>1, <2>2, PostedIsAsked
  <1> QED BY <1>1, <1>2, Invariance, PTL DEF Spec

-----------------------------------------------------------------------------
(* Disputes.  Nothing about a dispute is repeated under a lock: whether    *)
(* there is one already, whether a message or a resolution still finds it  *)
(* open, whether a cancellation is decided meanwhile.  Four races follow,  *)
(* and no fifth: where none of them happens a dispute freezes its          *)
(* milestone.                                                              *)

IsOpen(d) == dispute[d].status \in OpenStatuses

(* Of one milestone only one dispute is being raised.                      *)
RaisedAlone ==
  \A s, t \in Sessions :
    /\ UnderWay(s, "raise_dispute") /\ UnderWay(t, "raise_dispute")
    /\ req[s].m = req[t].m
    => s = t

(* A message is written while its dispute is open.                         *)
MessagesInTime == \A s \in Sessions : UnderWay(s, "add_message") => IsOpen(req[s].n)

(* A resolution is committed while its dispute is open.                    *)
ResolvedWhileOpen ==
  \A s \in Sessions : pc[s] = "settled" /\ req[s].op \in Resolutions => IsOpen(req[s].n)

(* A cancellation is decided while its milestone is not disputed.          *)
DecidedWhileThawed ==
  \A s \in Sessions :
    pc[s] = "settled" /\ req[s].op \in Deciding => Status(req[s].m) # "DISPUTED"

(* Whoever raises a dispute has found none, and will find none.            *)
RaisersFindNone ==
  \A s \in Sessions : UnderWay(s, "raise_dispute") =>
    \A d \in DOMAIN dispute : IsOpen(d) => dispute[d].m # req[s].m

OpenApart ==
  \A d, e \in DOMAIN dispute : IsOpen(d) /\ IsOpen(e) /\ dispute[d].m = dispute[e].m => d = e

Frozen == \A d \in DOMAIN dispute : IsOpen(d) => Status(dispute[d].m) = "DISPUTED"

NoneOpens ==
  /\ DOMAIN dispute' = DOMAIN dispute
  /\ \A d \in DOMAIN dispute : dispute'[d].m = dispute[d].m /\ (IsOpen(d)' => IsOpen(d))

(* A session goes on with what it does, or begins and finds no dispute.    *)
GoesOn(s) ==
  pc'[s] # "idle" =>
    \/ pc[s] # "idle" /\ req'[s] = req[s]
    \/ dispute' = dispute /\ (req'[s].op = "raise_dispute" => OpenDisputes(req'[s].m) = {})

(* Writing a status opens no dispute but the one it is written to.         *)
LEMMA StatusOfDispute ==
  ASSUME TypeOK, NEW d \in DOMAIN dispute, NEW status \in OpenStatuses \cup {"RESOLVED"},
         dispute' = [dispute EXCEPT ![d].status = status],
         IsOpen(d) \/ status = "RESOLVED"
  PROVE  NoneOpens /\ dispute'[d].status = status
  <1>1. DOMAIN dispute' = DOMAIN dispute /\ \A x \in DOMAIN dispute : dispute'[x].m = dispute[x].m
    BY DisputeWritten
  <1>2. dispute \in Seq(DisputeRows) /\ dispute[d] \in DisputeRows
    BY DEF TypeOK
  <1>3. dispute'[d].status = status /\ \A x \in DOMAIN dispute \ {d} : dispute'[x] = dispute[x]
    <2> DEFINE row == [dispute[d] EXCEPT !.status = status]
    <2>1. row.status = status
      BY <1>2 DEF DisputeRows
    <2>2. dispute' = [dispute EXCEPT ![d] = row]
      OBVIOUS
    <2> HIDE DEF row
    <2> QED BY <1>2, <2>1, <2>2
  <1>4. "RESOLVED" \notin OpenStatuses
    BY DEF OpenStatuses
  <1> QED BY <1>1, <1>3, <1>4 DEF NoneOpens, IsOpen

(* What a step does to disputes: it opens none, or raises one.             *)
LEMMA DisputeSteps ==
  ASSUME IInv, MessagesInTime, Next
  PROVE  \E s \in Sessions :
           /\ \A t \in Sessions \ {s} : pc'[t] = pc[t] /\ req'[t] = req[t]
           /\ (NoneOpens /\ GoesOn(s)) \/ RaiseDispute(s)
  <1>1. PICK s \in Sessions : Asks(s) \/ Runs(s) \/ SpendCode(s) \/ Rollback(s)
    BY DEF Next
  <1>2. pc \in [Sessions -> {"idle", "asked", "found", "coded", "locked", "settled"}]
        /\ req \in [Sessions -> Requests] /\ TypeOK
    BY DEF IInv, TypeOK
  <1>3. ASSUME dispute' = dispute PROVE NoneOpens
    BY <1>3 DEF NoneOpens, IsOpen
  <1>4. ASSUME End(s)
        PROVE  GoesOn(s) /\ \A t \in Sessions \ {s} : pc'[t] = pc[t] /\ req'[t] = req[t]
    BY <1>2, <1>4 DEF End, GoesOn
  <1>5. CASE Asks(s)
    <2>1. ASSUME NEW op, NEW m, NEW k, AskAboutMilestone(s, op, m, k)
          PROVE  /\ Begin(s, req'[s], {}) /\ dispute' = dispute
                 /\ req'[s].op = "raise_dispute" => OpenDisputes(req'[s].m) = {}
      <3> DEFINE r == [op |-> op, m |-> m, n |-> 0, key |-> k]
      <3>1. Begin(s, r, {}) /\ (op = "raise_dispute" => OpenDisputes(m) = {})
        BY <2>1 DEF AskAboutMilestone
      <3>2. req'[s] = r /\ r.op = op /\ r.m = m
        BY <1>2, <3>1 DEF Begin
      <3> HIDE DEF r
      <3> QED BY <3>1, <3>2 DEF Begin, Rows
    <2>2. ASSUME NEW op \in Resolutions \cup CancellationOps \cup {"add_message"}, NEW n,
                 AskAboutDispute(s, op, n) \/ AskAboutCancellation(s, op, n)
          PROVE  /\ \E codes : Begin(s, req'[s], codes)
                 /\ dispute' = dispute /\ req'[s].op # "raise_dispute"
      <3>1. PICK m, codes : Begin(s, [op |-> op, m |-> m, n |-> n, key |-> NoKey], codes)
        BY <2>2 DEF AskAboutDispute, AskAboutCancellation
      <3> DEFINE r == [op |-> op, m |-> m, n |-> n, key |-> NoKey]
      <3>2. Begin(s, r, codes) /\ r.op = op
        BY <3>1
      <3> HIDE DEF r
      <3>3. req'[s] = r
        BY <1>2, <3>2 DEF Begin
      <3> QED BY <3>2, <3>3 DEF Begin, Rows, Resolutions, Deciding, CancellationOps
    <2>3. /\ \E codes : Begin(s, req'[s], codes)
          /\ dispute' = dispute
          /\ req'[s].op = "raise_dispute" => OpenDisputes(req'[s].m) = {}
      BY <1>5, <2>1, <2>2 DEF Asks, Deciding, CancellationOps
    <2>4. \A t \in Sessions \ {s} : pc'[t] = pc[t] /\ req'[t] = req[t]
      BY <1>2, <2>3 DEF Begin
    <2> QED BY <1>3, <2>3, <2>4 DEF GoesOn
  <1>6. CASE SpendCode(s) \/ ResendCode(s) \/ Rollback(s)
    BY <1>3, <1>4, <1>6 DEF SpendCode, ResendCode, Rollback, Rows
  <1>7. CASE Refuse(s) \/ NoCode(s) \/ CannotSettle(s) \/ LoseRelease(s)
    BY <1>3, <1>4, <1>7 DEF Refuse, NoCode, CannotSettle, LoseRelease, Rows
  <1>8. CASE FindCode(s) \/ LockCode(s) \/ Lock(s) \/ SettleNew(s) \/ SettleReplayed(s)
    <2>1. pc[s] # "idle" /\ req' = req /\ dispute' = dispute /\ \E stage : pc' = [pc EXCEPT ![s] = stage]
      BY <1>8 DEF FindCode, LockCode, Lock, SettleNew, SettleReplayed, Reaches, Stages, Goes, Rows
    <2> QED BY <1>2, <1>3, <2>1 DEF GoesOn
  <1>9. CASE StartWork(s) \/ SubmitMilestone(s) \/ RequestChanges(s) \/ RequestCancellation(s)
    BY <1>3, <1>4, <1>9 DEF StartWork, SubmitMilestone, RequestChanges, RequestCancellation, Acts
  <1>10. CASE RaiseDispute(s)
    BY <1>4, <1>10 DEF RaiseDispute, Acts
  <1>11. CASE AddMessage(s)
    <2>1. /\ End(s) /\ UnderWay(s, "add_message")
          /\ dispute' = [dispute EXCEPT ![req[s].n].status = "AWAITING_RESPONSE"]
      BY <1>11 DEF AddMessage, UnderWay
    <2>2. req[s].n \in DOMAIN dispute /\ IsOpen(req[s].n)
      BY <2>1 DEF IInv, Stands, Refers, UnderWay, MessagesInTime
    <2>3. NoneOpens
      BY <1>2, <2>1, <2>2, StatusOfDispute DEF OpenStatuses
    <2> QED BY <1>4, <2>1, <2>3
  <1>12. CASE CommitFunding(s) \/ CommitRelease(s) \/ CommitCancellation(s) \/ CommitDecline(s)
    BY <1>3, <1>4, <1>12 DEF CommitFunding, CommitRelease, CommitCancellation, CommitDecline, Commits
  <1>13. CASE CommitResolution(s)
    <2>1. /\ Commits(s, Resolutions)
          /\ dispute' = [dispute EXCEPT ![req[s].n].status = "RESOLVED"]
      BY <1>13 DEF CommitResolution
    <2>2. End(s) /\ req[s].n \in DOMAIN dispute
      BY <2>1, CommittingFinds DEF Refers
    <2>3. NoneOpens
      BY <1>2, <2>1, <2>2, StatusOfDispute
    <2> QED BY <1>4, <2>2, <2>3
  <1> QED BY <1>1, <1>5, <1>6, <1>7, <1>8, <1>9, <1>10, <1>11, <1>12, <1>13 DEF Runs

(* A dispute that is raised comes last, and freezes its milestone.         *)
LEMMA DisputeRaised ==
  ASSUME IInv, NEW s \in Sessions, RaiseDispute(s)
  PROVE  /\ UnderWay(s, "raise_dispute") /\ pc'[s] = "idle" /\ req[s].m \in Milestones
         /\ DOMAIN dispute' = DOMAIN dispute \cup {Len(dispute) + 1}
         /\ Len(dispute) + 1 \notin DOMAIN dispute
         /\ dispute'[Len(dispute) + 1].m = req[s].m
         /\ \A d \in DOMAIN dispute : dispute'[d] = dispute[d]
         /\ milestone'[req[s].m].status = "DISPUTED"
  <1> DEFINE new == [m |-> req[s].m, status |-> "OPEN"]
  <1>1. /\ Acts(s, "raise_dispute") /\ milestone' = WithStatus(req[s].m, "DISPUTED")
        /\ dispute' = Append(dispute, new)
    BY DEF RaiseDispute
  <1>2. new.m = req[s].m
    OBVIOUS
  <1>3. dispute \in Seq(DisputeRows) /\ TypeOK
    BY DEF IInv, TypeOK
  <1> HIDE DEF new
  <1>4. /\ DOMAIN dispute' = DOMAIN dispute \cup {Len(dispute) + 1}
        /\ Len(dispute) + 1 \notin DOMAIN dispute
        /\ dispute'[Len(dispute) + 1] = new
        /\ \A d \in DOMAIN dispute : dispute'[d] = dispute[d]
    BY <1>1, <1>3
  <1>5. req[s].m \in Milestones
    BY <1>1, ActingFinds DEF ActOps
  <1>6. milestone'[req[s].m].status = "DISPUTED"
    BY <1>1, <1>3, <1>5, StatusIsNew DEF NewStatus
  <1>7. UnderWay(s, "raise_dispute") /\ pc'[s] = "idle"
    BY <1>1, <1>3 DEF Acts, Reaches, End, UnderWay, TypeOK
  <1> QED BY <1>2, <1>4, <1>5, <1>6, <1>7

(* One dispute at a time stays so.                                         *)
LEMMA ApartPreserved ==
  ASSUME IInv, RaisedAlone, MessagesInTime, OpenApart, RaisersFindNone, [Next]_vars
  PROVE  OpenApart' /\ RaisersFindNone'
  <1>1. CASE UNCHANGED vars
    BY <1>1 DEF vars, OpenApart, RaisersFindNone, UnderWay, IsOpen
  <1>2. CASE Next
    <2>1. PICK s \in Sessions :
            /\ \A t \in Sessions \ {s} : pc'[t] = pc[t] /\ req'[t] = req[t]
            /\ (NoneOpens /\ GoesOn(s)) \/ RaiseDispute(s)
      BY <1>2, DisputeSteps
    <2>2. CASE NoneOpens /\ GoesOn(s)
      <3>1. OpenApart'
        BY <2>2 DEF OpenApart, NoneOpens
      <3>2. ASSUME NEW t \in Sessions, UnderWay(t, "raise_dispute")',
                   NEW d \in DOMAIN dispute', IsOpen(d)'
            PROVE  dispute'[d].m # req'[t].m
        <4>1. d \in DOMAIN dispute /\ IsOpen(d) /\ dispute'[d].m = dispute[d].m
          BY <2>2, <3>2 DEF NoneOpens
        <4>2. CASE UnderWay(t, "raise_dispute") /\ req'[t] = req[t]
          BY <4>1, <4>2 DEF RaisersFindNone
        <4>3. CASE t = s /\ OpenDisputes(req'[s].m) = {}
          BY <4>1, <4>3 DEF OpenDisputes, IsOpen
        <4>4. CASE t # s
          BY <2>1, <3>2, <4>2, <4>4 DEF UnderWay
        <4>5. CASE t = s
          BY <2>2, <3>2, <4>2, <4>3, <4>5 DEF GoesOn, UnderWay
        <4> QED BY <4>4, <4>5
      <3> QED BY <3>1, <3>2 DEF RaisersFindNone
    <2>3. CASE RaiseDispute(s)
      <3> DEFINE last == Len(dispute) + 1
      <3>1. /\ UnderWay(s, "raise_dispute") /\ pc'[s] = "idle"
            /\ DOMAIN dispute' = DOMAIN dispute \cup {last} /\ last \notin DOMAIN dispute
            /\ dispute'[last].m = req[s].m
            /\ \A d \in DOMAIN dispute : dispute'[d] = dispute[d]
        BY <2>3, DisputeRaised
      <3> HIDE DEF last
      <3>2. \A d \in DOMAIN dispute : IsOpen(d)' <=> IsOpen(d)
        BY <3>1 DEF IsOpen
      <3>3. \A d \in DOMAIN dispute : IsOpen(d) => dispute[d].m # req[s].m
        BY <3>1 DEF RaisersFindNone
      <3>4. OpenApart'
        BY <3>1, <3>2, <3>3 DEF OpenApart
      <3>5. ASSUME NEW t \in Sessions, UnderWay(t, "raise_dispute")',
                   NEW d \in DOMAIN dispute', IsOpen(d)'
            PROVE  dispute'[d].m # req'[t].m
        <4>1. t # s /\ UnderWay(t, "raise_dispute") /\ req'[t] = req[t]
          BY <2>1, <3>1, <3>5 DEF UnderWay
        <4>2. CASE d \in DOMAIN dispute
          BY <3>1, <3>2, <3>5, <4>1, <4>2 DEF RaisersFindNone
        <4>3. CASE d = last
          BY <3>1, <4>1, <4>3 DEF RaisedAlone
        <4> QED BY <3>1, <4>2, <4>3
      <3> QED BY <3>4, <3>5 DEF RaisersFindNone
    <2> QED BY <2>1, <2>2, <2>3
  <1> QED BY <1>1, <1>2

(* Who takes a milestone out of a dispute or out of a cancellation: the    *)
(* table and the guards leave the decisions about these, and disputes      *)
(* raised during a cancellation.                                           *)
LEMMA Thaws ==
  ASSUME IInv, [Next]_vars, NEW x \in Milestones,
         NEW from \in {"DISPUTED", "CANCELLATION_REQUESTED"}, Status(x) = from,
         milestone'[x].status # from
  PROVE  \E s \in Sessions :
           /\ \/ CommitCancellation(s) \/ CommitDecline(s) \/ CommitResolution(s)
              \/ RaiseDispute(s) /\ from = "CANCELLATION_REQUESTED"
           /\ req[s].m = x
  <1>1. milestone' # milestone
    BY DEF Status
  <1>2. PICK s \in Sessions : Asks(s) \/ Runs(s) \/ SpendCode(s) \/ Rollback(s)
    BY <1>1 DEF Next, vars
  <1> DEFINE m == req[s].m
  <1>3. TypeOK
    BY DEF IInv
  <1>4. ASSUME NEW status, NewStatus(m, status) PROVE m = x
    BY <1>4 DEF NewStatus, Status
  <1>5. ~Asks(s)
    BY <1>1 DEF Asks, AskAboutMilestone, AskAboutDispute, AskAboutCancellation, Begin, Rows
  <1>6. ~(SpendCode(s) \/ ResendCode(s) \/ Rollback(s) \/ AddMessage(s) \/ Refuse(s) \/ NoCode(s)
          \/ CannotSettle(s) \/ LoseRelease(s))
    BY <1>1 DEF SpendCode, ResendCode, Rollback, AddMessage, Refuse, NoCode, CannotSettle, LoseRelease, Rows
  <1>7. ~(FindCode(s) \/ LockCode(s) \/ Lock(s) \/ SettleNew(s) \/ SettleReplayed(s))
    BY <1>1 DEF FindCode, LockCode, Lock, SettleNew, SettleReplayed, Stages, Goes, Rows
  <1>8. ~(StartWork(s) \/ SubmitMilestone(s) \/ RequestChanges(s) \/ RequestCancellation(s))
        /\ (RaiseDispute(s) => from = "CANCELLATION_REQUESTED" /\ m = x)
    <2> SUFFICES ASSUME \/ StartWork(s) \/ SubmitMilestone(s) \/ RequestChanges(s)
                        \/ RequestCancellation(s) \/ RaiseDispute(s)
                 PROVE  from = "CANCELLATION_REQUESTED" /\ m = x /\ req[s].op = "raise_dispute"
      BY DEF StartWork, SubmitMilestone, RequestChanges, RequestCancellation, Acts
    <2>1. PICK op \in ActOps, status \in ProtectedStatuses :
            /\ Acts(s, op) /\ NewStatus(m, status)
            /\ op = "raise_dispute" => status = "DISPUTED"
      BY ActsWrite
    <2>2. m = x
      BY <1>4, <2>1
    <2>3. op = "raise_dispute" => from = "CANCELLATION_REQUESTED"
      BY <2>1, <2>2 DEF NewStatus
    <2>4. req[s].op = op /\ (op # "raise_dispute" => May(from, Via[op]))
      BY <2>1, <2>2 DEF Acts, Permitted, Status
    <2>5. op = "raise_dispute"
      BY <2>4 DEF May, Via, AllowedTransitions, ActOps
    <2> QED BY <2>2, <2>3, <2>4, <2>5
  <1>9. ~CommitFunding(s)
    <2> SUFFICES ASSUME CommitFunding(s) PROVE FALSE
      OBVIOUS
    <2>1. /\ Commits(s, {"fund_milestone"})
          /\ \E y : milestone' = [WithStatus(m, "FUNDED") EXCEPT ![m].funding = y]
      BY DEF CommitFunding
    <2>2. m \in Milestones /\ Status(m) = "PENDING_FUNDING"
      BY <2>1, CommittingFinds
    <2>3. NewStatus(m, "FUNDED")
      BY <1>3, <2>1, <2>2, StatusIsNew
    <2> QED BY <1>4, <2>2, <2>3
  <1>10. ~CommitRelease(s)
    <2> SUFFICES ASSUME CommitRelease(s) PROVE FALSE
      OBVIOUS
    <2>1. /\ Commits(s, {"approve_and_release"})
          /\ \E y : milestone' = [WithStatus(m, "PAYMENT_RELEASED") EXCEPT ![m].release = y]
      BY DEF CommitRelease
    <2>2. m \in Milestones /\ req[s].op = "approve_and_release" /\ Permitted(req[s])
      BY <2>1, CommittingFinds
    <2>3. NewStatus(m, "PAYMENT_RELEASED")
      BY <1>3, <2>1, <2>2, StatusIsNew
    <2>4. Status(m) \notin {"DISPUTED", "CANCELLATION_REQUESTED"}
      <3>1. Status(m) # "DISPUTED" /\ May(Status(m), "APPROVED")
        BY <2>2, OpsAre DEF Permitted, PartyMoves, Status
      <3> QED BY <3>1 DEF May, AllowedTransitions
    <2> QED BY <1>4, <2>3, <2>4
  <1>11. RaiseDispute(s) \/ CommitCancellation(s) \/ CommitDecline(s) \/ CommitResolution(s)
    BY <1>2, <1>5, <1>6, <1>7, <1>8, <1>9, <1>10 DEF Runs
  <1>12. ASSUME ~RaiseDispute(s) PROVE m = x
    <2>1. PICK ops, status : Commits(s, ops) /\ milestone' = WithStatus(m, status)
      BY <1>11, <1>12 DEF CommitCancellation, CommitDecline, CommitResolution
    <2>2. NewStatus(m, status)
      BY <1>3, <2>1, CommittingFinds, StatusIsNew
    <2> QED BY <1>4, <2>2
  <1> QED BY <1>8, <1>11, <1>12

(* raise_dispute() looks for an open dispute before it locks anything, and *)
(* add_message() writes a status that it read without a lock.  If no two   *)
(* requests raise disputes about one milestone at once and no message      *)
(* comes after the resolution, a milestone has at most one open dispute.   *)
THEOREM OneDisputeAtATime == Spec /\ [](RaisedAlone /\ MessagesInTime) => []OneOpenDispute
  <1> DEFINE H == RaisedAlone /\ MessagesInTime
  <1> DEFINE I == OpenApart /\ RaisersFindNone
  <1>1. Init => I
    BY DEF Init, OpenApart, RaisersFindNone
  <1>2. IInv /\ H /\ I /\ [Next]_vars => I'
    BY ApartPreserved
  <1>3. IInv /\ I => OneOpenDispute
    <2> SUFFICES ASSUME OpenApart, NEW m \in Milestones
                 PROVE  Cardinality(OpenDisputes(m)) <= 1
      BY DEF OneOpenDispute
    <2>1. CASE OpenDisputes(m) = {}
      BY <2>1, FS_EmptySet
    <2>2. CASE \E d : OpenDisputes(m) = {d}
      BY <2>2, FS_Singleton
    <2> QED BY <2>1, <2>2 DEF OpenApart, OpenDisputes, IsOpen
  <1> HIDE DEF H, I
  <1>4. Spec /\ []H => []OneOpenDispute
    BY <1>1, <1>2, <1>3, Invariance, PTL DEF Spec
  <1> QED BY <1>4 DEF H

(* "The milestone freezes: no release, no cancellation, until this         *)
(* resolves": so it is unless one of four races happens.  Two requests     *)
(* raise a dispute, a message or a second resolution comes after the       *)
(* resolution, or a cancellation pending since before is decided.          *)
THEOREM DisputesFreeze ==
  Spec /\ [](RaisedAlone /\ MessagesInTime /\ ResolvedWhileOpen /\ DecidedWhileThawed)
    => []DisputeFreezes
  <1> DEFINE H == RaisedAlone /\ MessagesInTime /\ ResolvedWhileOpen /\ DecidedWhileThawed
  <1> DEFINE I == OpenApart /\ RaisersFindNone /\ Frozen
  <1>1. Init => I
    BY DEF Init, OpenApart, RaisersFindNone, Frozen
  <1>2. IInv /\ H /\ I /\ [Next]_vars => I'
    <2> SUFFICES ASSUME IInv, H, I, [Next]_vars PROVE Frozen'
      BY ApartPreserved
    <2> SUFFICES ASSUME NEW d \in DOMAIN dispute', IsOpen(d)'
                 PROVE  milestone'[dispute'[d].m].status = "DISPUTED"
      BY DEF Frozen, Status
    <2>1. CASE /\ d \in DOMAIN dispute /\ IsOpen(d) /\ dispute'[d].m = dispute[d].m
      <3> DEFINE x == dispute[d].m
      <3> SUFFICES ASSUME milestone'[x].status # "DISPUTED" PROVE FALSE
        BY <2>1
      <3>1. x \in Milestones /\ Status(x) = "DISPUTED"
        BY <2>1, AboutMilestones DEF Frozen, IInv
      <3>2. PICK s \in Sessions :
              /\ CommitCancellation(s) \/ CommitDecline(s) \/ CommitResolution(s)
              /\ req[s].m = x
        BY <3>1, Thaws
      <3>3. CASE CommitCancellation(s) \/ CommitDecline(s)
        BY <3>1, <3>2, <3>3 DEF CommitCancellation, CommitDecline, Commits, DecidedWhileThawed,
           Deciding
      <3>4. CASE CommitResolution(s)
        <4>1. /\ Commits(s, Resolutions) /\ pc[s] = "settled" /\ req[s].op \in Resolutions
              /\ dispute' = [dispute EXCEPT ![req[s].n].status = "RESOLVED"]
          BY <3>4 DEF CommitResolution, Commits
        <4>2. req[s].n \in DOMAIN dispute /\ dispute[req[s].n].m = x
          BY <3>2, <4>1, CommittingFinds DEF Refers
        <4>3. d = req[s].n
          BY <2>1, <4>1, <4>2 DEF ResolvedWhileOpen, OpenApart
        <4>4. dispute'[d].status = "RESOLVED"
          BY <4>1, <4>2, <4>3, StatusOfDispute DEF IInv
        <4> QED BY <4>4 DEF IsOpen, OpenStatuses
      <3> QED BY <3>2, <3>3, <3>4
    <2>2. ASSUME NEW s \in Sessions, RaiseDispute(s), d \notin DOMAIN dispute
          PROVE  milestone'[dispute'[d].m].status = "DISPUTED"
      BY <2>2, DisputeRaised
    <2>3. CASE UNCHANGED vars
      BY <2>1, <2>3 DEF vars, IsOpen
    <2>4. CASE Next
      <3>1. PICK s \in Sessions : NoneOpens \/ RaiseDispute(s)
        BY <2>4, DisputeSteps
      <3>2. CASE NoneOpens
        BY <2>1, <3>2 DEF NoneOpens
      <3>3. CASE RaiseDispute(s) /\ d \in DOMAIN dispute
        <4>1. dispute'[d] = dispute[d]
          BY <3>3, DisputeRaised
        <4> QED BY <2>1, <3>3, <4>1 DEF IsOpen
      <3> QED BY <2>2, <3>1, <3>2, <3>3
    <2> QED BY <2>3, <2>4
  <1>3. IInv /\ I => DisputeFreezes
    BY DEF Frozen, DisputeFreezes, OpenDisputes, IsOpen, Status
  <1> HIDE DEF H, I
  <1>4. Spec /\ []H => []DisputeFreezes
    BY <1>1, <1>2, <1>3, Invariance, PTL DEF Spec
  <1> QED BY <1>4 DEF H

(* "This dispute has already been resolved": only a message that was asked *)
(* for before can write over a resolution.                                 *)
THEOREM OnlyLateMessagesReopen == Spec /\ []MessagesInTime => ResolutionStands
  <1> DEFINE Kept ==
        \A d \in DOMAIN dispute :
          dispute[d].status = "RESOLVED" => dispute'[d].status = "RESOLVED"
  <1>1. IInv /\ MessagesInTime /\ IInv' /\ [Next]_vars => [Kept]_dispute
    <2> SUFFICES ASSUME IInv, MessagesInTime, IInv', Next, NEW d \in DOMAIN dispute,
                        dispute[d].status = "RESOLVED"
                 PROVE  dispute'[d].status = "RESOLVED"
      BY DEF vars
    <2>1. PICK s \in Sessions : NoneOpens \/ RaiseDispute(s)
      BY DisputeSteps
    <2>2. CASE NoneOpens
      <3>1. dispute' \in Seq(DisputeRows) /\ d \in DOMAIN dispute' /\ ~IsOpen(d)'
        BY <2>2 DEF IInv, TypeOK, NoneOpens, IsOpen, OpenStatuses
      <3>2. dispute'[d] \in DisputeRows
        BY <3>1
      <3> QED BY <3>1, <3>2 DEF IsOpen, DisputeRows
    <2>3. CASE RaiseDispute(s)
      BY <2>3, DisputeRaised
    <2> QED BY <2>1, <2>2, <2>3
  <1>2. Spec /\ []MessagesInTime => [][Kept]_dispute
    <2> HIDE DEF Kept
    <2> QED BY <1>1, Invariance, PTL DEF Spec
  <1> QED BY <1>2 DEF ResolutionStands

-----------------------------------------------------------------------------
(* Cancellations that wait for the receiver.                               *)

Awaits(c) == cancellation[c].status = "AWAITING_RECEIVER"

(* Nobody raises a dispute while a cancellation waits.                     *)
DisputedWhenDecided ==
  \A s \in Sessions : UnderWay(s, "raise_dispute") =>
    \A c \in DOMAIN cancellation : Awaits(c) => cancellation[c].m # req[s].m

(* A decision is committed while its cancellation waits.                   *)
DecidedInTime ==
  \A s \in Sessions : pc[s] = "settled" /\ req[s].op \in Deciding => Awaits(req[s].n)

(* A resolution is committed while its milestone is disputed.              *)
ResolvedWhileDisputed ==
  \A s \in Sessions :
    pc[s] = "settled" /\ req[s].op \in Resolutions => Status(req[s].m) = "DISPUTED"

WaitingHolds ==
  /\ \A c \in DOMAIN cancellation :
       Awaits(c) => Status(cancellation[c].m) = "CANCELLATION_REQUESTED"
  /\ \A c, d \in DOMAIN cancellation :
       Awaits(c) /\ Awaits(d) /\ cancellation[c].m = cancellation[d].m => c = d

(* What a step does to cancellations: it adds one, or makes none wait.     *)
LEMMA CancellationSteps ==
  ASSUME IInv, Next
  PROVE  \/ \E s \in Sessions : RequestCancellation(s)
         \/ /\ DOMAIN cancellation' = DOMAIN cancellation
            /\ \A c \in DOMAIN cancellation :
                 cancellation'[c].m = cancellation[c].m /\ (Awaits(c)' => Awaits(c))
  <1>1. CASE UNCHANGED cancellation
    BY <1>1 DEF Awaits
  <1>2. ASSUME NEW s \in Sessions,
               SpendCode(s) \/ ResendCode(s) \/ CommitCancellation(s) \/ CommitDecline(s)
        PROVE  /\ DOMAIN cancellation' = DOMAIN cancellation
               /\ \A c \in DOMAIN cancellation :
                    cancellation'[c].m = cancellation[c].m /\ (Awaits(c)' => Awaits(c))
    <2>1. PICK x : x = req[s].n
      OBVIOUS
    <2>2. Refers(s) /\ TypeOK
      BY <1>2 DEF SpendCode, ResendCode, CommitCancellation, CommitDecline, Commits, IInv, Stands
    <2>3. /\ OthersUntouched(x)
          /\ cancellation'[x].status \in {cancellation[x].status, "CONFIRMED", "DECLINED"}
      BY <1>2, <2>1, <2>2, CodesWritten DEF RequestBecomes
    <2> QED BY <2>3 DEF OthersUntouched, Awaits
  <1> QED BY <1>1, <1>2, RequestSteps

(* A cancellation is requested of a milestone that none waits for.         *)
LEMMA RequestWaits ==
  ASSUME IInv, WaitingHolds, NEW s \in Sessions, RequestCancellation(s)
  PROVE  WaitingHolds'
  <1> DEFINE m == req[s].m
  <1>1. /\ Acts(s, "request_cancellation") /\ milestone' = WithStatus(m, "CANCELLATION_REQUESTED")
    BY DEF RequestCancellation
  <1>2. PICK last : last = Len(cancellation) + 1
    OBVIOUS
  <1>3. TypeOK
    BY DEF IInv
  <1>4. /\ DOMAIN cancellation' = DOMAIN cancellation \cup {last}
        /\ cancellation'[last].m = m
        /\ \A c \in DOMAIN cancellation : cancellation'[c] = cancellation[c]
    BY <1>2, RequestAdded
  <1>5. m \in Milestones /\ NewStatus(m, "CANCELLATION_REQUESTED")
    BY <1>1, <1>3, ActingFinds, StatusIsNew DEF ActOps
  <1>6. Status(m) # "CANCELLATION_REQUESTED"
    BY <1>1 DEF Acts, Permitted, May, Via, AllowedTransitions, Status
  <1>7. \A c \in DOMAIN cancellation :
          Awaits(c) => cancellation[c].m # m /\ cancellation[c].m \in Milestones
    BY <1>3, <1>6, AboutMilestones DEF WaitingHolds
  <1>8. \A c \in DOMAIN cancellation : Awaits(c)' <=> Awaits(c)
    BY <1>4 DEF Awaits
  <1>9. \A c \in DOMAIN cancellation' :
          Awaits(c)' => milestone'[cancellation'[c].m].status = "CANCELLATION_REQUESTED"
    BY <1>4, <1>5, <1>7, <1>8 DEF WaitingHolds, NewStatus, Status
  <1>10. \A c, d \in DOMAIN cancellation' :
           Awaits(c)' /\ Awaits(d)' /\ cancellation'[c].m = cancellation'[d].m => c = d
    BY <1>4, <1>7, <1>8 DEF WaitingHolds
  <1> QED BY <1>9, <1>10 DEF WaitingHolds, Status

(* A decision decides the only cancellation that waits.                    *)
LEMMA DecisionEndsWaiting ==
  ASSUME IInv, WaitingHolds, DecidedInTime, NEW s \in Sessions,
         CommitCancellation(s) \/ CommitDecline(s)
  PROVE  \A c \in DOMAIN cancellation :
           Awaits(c) /\ cancellation[c].m = req[s].m => ~Awaits(c)'
  <1>1. PICK x : x = req[s].n
    OBVIOUS
  <1>2. /\ Refers(s) /\ TypeOK /\ x \in DOMAIN cancellation /\ cancellation[x].m = req[s].m
        /\ pc[s] = "settled" /\ req[s].op \in Deciding
    BY <1>1, DecidersFind
  <1>3. Awaits(x)
    BY <1>1, <1>2 DEF DecidedInTime
  <1>4. ~Awaits(x)'
    BY <1>1, <1>2, CodesWritten DEF RequestBecomes, Awaits
  <1> QED BY <1>2, <1>3, <1>4 DEF WaitingHolds

(* "The funds stay protected while this is open - they are neither         *)
(* released nor refunded until the receiver decides": so it is unless a    *)
(* dispute is raised while a cancellation waits, a decision about a        *)
(* request that no longer waits is written over a second one's milestone,  *)
(* or a resolution comes after the milestone has gone on.                  *)
THEOREM WaitingFundsAreHeld ==
  Spec /\ [](DisputedWhenDecided /\ DecidedInTime /\ ResolvedWhileDisputed)
    => []CancellationHoldsFunds
  <1> DEFINE H == DisputedWhenDecided /\ DecidedInTime /\ ResolvedWhileDisputed
  <1>1. Init => WaitingHolds
    BY DEF Init, WaitingHolds
  <1>2. IInv /\ H /\ WaitingHolds /\ [Next]_vars => WaitingHolds'
    <2> SUFFICES ASSUME IInv, H, WaitingHolds, [Next]_vars PROVE WaitingHolds'
      OBVIOUS
    <2>1. CASE UNCHANGED vars
      BY <2>1 DEF vars, WaitingHolds, Awaits, Status
    <2>2. CASE \E s \in Sessions : RequestCancellation(s)
      BY <2>2, RequestWaits
    <2>3. CASE /\ DOMAIN cancellation' = DOMAIN cancellation
               /\ \A c \in DOMAIN cancellation :
                    cancellation'[c].m = cancellation[c].m /\ (Awaits(c)' => Awaits(c))
      <3>1. ASSUME NEW c \in DOMAIN cancellation, Awaits(c)'
            PROVE  milestone'[cancellation[c].m].status = "CANCELLATION_REQUESTED"
        <4> DEFINE x == cancellation[c].m
        <4>1. x \in Milestones /\ Awaits(c) /\ Status(x) = "CANCELLATION_REQUESTED"
          BY <2>3, <3>1, AboutMilestones DEF WaitingHolds, IInv
        <4> SUFFICES ASSUME milestone'[x].status # "CANCELLATION_REQUESTED" PROVE FALSE
          OBVIOUS
        <4>2. PICK s \in Sessions :
                /\ \/ CommitCancellation(s) \/ CommitDecline(s) \/ CommitResolution(s)
                   \/ RaiseDispute(s)
                /\ req[s].m = x
          BY <4>1, Thaws
        <4>3. ~RaiseDispute(s)
          BY <4>1, <4>2, DisputeRaised DEF DisputedWhenDecided
        <4>4. ~CommitResolution(s)
          BY <4>1, <4>2 DEF CommitResolution, Commits, ResolvedWhileDisputed
        <4>5. ~(CommitCancellation(s) \/ CommitDecline(s))
          BY <3>1, <4>1, <4>2, DecisionEndsWaiting
        <4> QED BY <4>2, <4>3, <4>4, <4>5
      <3> QED BY <2>3, <3>1 DEF WaitingHolds, Status
    <2> QED BY <2>1, <2>2, <2>3, CancellationSteps
  <1>3. WaitingHolds => CancellationHoldsFunds
    BY DEF WaitingHolds, CancellationHoldsFunds, Awaits, Status, ProtectedStatuses
  <1> HIDE DEF H
  <1>4. Spec /\ []H => []CancellationHoldsFunds
    BY <1>1, <1>2, <1>3, Invariance, PTL DEF Spec
  <1> QED BY <1>4 DEF H
=============================================================================
