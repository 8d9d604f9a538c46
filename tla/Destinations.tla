---------------------------- MODULE Destinations ----------------------------
(***************************************************************************)
(* Where one user's money may be paid out: the bank accounts and UPI ids   *)
(* that the user adds, what the provider says of their owner, which of     *)
(* them is the default, and payouts to them up to the day's limit.         *)
(*                                                                         *)
(* The handlers are coroutines of a process's event loop.  They give it up *)
(* only while they await the provider, and what they have read before is   *)
(* not read again after; nothing is locked.  Another process, while a      *)
(* deployment overlaps two, interleaves at any statement.                  *)
(***************************************************************************)
EXTENDS Integers, Sequences, FiniteSets, Functions, TLC

CONSTANTS
  Tasks,         \* requests being served
  LoopOf,        \* the event loop each is served by
  Destinations,  \* bank accounts and UPI ids
  KindOf,        \* which of the two each is
  Words,         \* what names are made of
  Noise,         \* the words _tokens() drops: _NOISE, and single letters
  Abbreviates,   \* the pairs of words of which one begins with the other
  Names,         \* the names a profile may have, sequences of words
  Holders,       \* the names that users give destinations' owners
  Registered,    \* the registered_name of each in the provider's answers, <<>> for none
  Username,      \* the user part of each UPI id's address
  MaxPayouts,    \* bound on the payouts asked for
  PayoutsPerDay  \* settings.PAYOUT_DAILY_LIMIT, in payouts

ASSUME LoopsAssumption == DOMAIN LoopOf = Tasks
ASSUME KindsAssumption == KindOf \in [Destinations -> {"bank", "upi"}]
ASSUME DestinationsAssumption == Destinations # {}
ASSUME WordsAssumption ==
  /\ Noise \subseteq Words /\ Abbreviates \subseteq Words \X Words
  /\ Names \subseteq Seq(Words) /\ Holders \subseteq Seq(Words) /\ Holders # {}
  /\ {Registered, Username} \subseteq [Destinations -> Seq(Words)]
ASSUME LimitsAssumption == {MaxPayouts, PayoutsPerDay} \subseteq Nat

VARIABLES
  profile,   \* the user's full name
  rows,      \* the destinations that have been added
  payouts,   \* the payouts asked for
  task       \* what each request is in the middle of

destinationVars == <<profile, rows, payouts, task>>

-----------------------------------------------------------------------------
(* Comparing names.                                                        *)

TokensOf(name) == SelectSeq(name, LAMBDA word : word \notin Noise)

Shorter(left, right) == IF Len(left) <= Len(right) THEN left ELSE right
Longer(left, right) == IF Len(left) <= Len(right) THEN right ELSE left

Alike(word, others) == \E w \in others : {<<word, w>>, <<w, word>>} \cap Abbreviates # {}

(* A word that is there counts four quarters, one that is shortened three. *)
Quarters(short, long) ==
  LET whole == {i \in DOMAIN short : short[i] \in Range(long)}
      cut == {i \in DOMAIN short \ whole : Alike(short[i], Range(long))}
  IN 4 * Cardinality(whole) + 3 * Cardinality(cut)

(* match_names(): a score of at least 0.6.                                 *)
Matches(one, other) ==
  LET left == TokensOf(one)
      right == TokensOf(other)
  IN /\ left # <<>> /\ right # <<>>
     /\ 10 * Quarters(Shorter(left, right), Longer(left, right))
          >= 24 * Len(Shorter(left, right))

-----------------------------------------------------------------------------
(* State.                                                                  *)

AccountStatuses == {"ABSENT", "PENDING", "VERIFIED", "REJECTED"}

(* name: the profile's name that was compared.  holder: holder_name, what  *)
(* the user says the owner is called.                                      *)
AccountRows ==
  [status : AccountStatuses, is_default : BOOLEAN, name : Names, holder : Holders]

(* known: provider_payout_id.  returned: the ledger's entry putting it back. *)
PayoutRequests ==
  [to : Destinations, status : {"REQUESTED", "PROCESSING", "PROCESSED", "FAILED"},
   known : BOOLEAN, returned : BOOLEAN]

(* at: "lookup" waits for the register of branches, "awaiting" and "sent"  *)
(* for the provider; the loop is free.                                     *)
Waiting == {"idle", "lookup", "awaiting", "sent"}
Steps == Waiting \cup {"choose", "add", "debit"}
TaskStates ==
  [at : Steps, to : Destinations, name : Names, holder : Holders, status : AccountStatuses,
   is_default : BOOLEAN, payout : Nat]

DestinationsTypeOK ==
  /\ profile \in Names
  /\ rows \in [Destinations -> AccountRows]
  /\ payouts \in Seq(PayoutRequests)
  /\ task \in [Tasks -> TaskStates]
  /\ \A t \in Tasks : task[t].at = "sent" => task[t].payout \in DOMAIN payouts

AnyName == CHOOSE n \in Names : TRUE
AnyHolder == CHOOSE n \in Holders : TRUE

NoTask ==
  [at |-> "idle", to |-> CHOOSE d \in Destinations : TRUE, name |-> AnyName,
   holder |-> AnyHolder, status |-> "ABSENT", is_default |-> FALSE, payout |-> 0]

DestinationsInit ==
  /\ profile \in Names
  /\ rows = [d \in Destinations |->
       [status |-> "ABSENT", is_default |-> FALSE, name |-> AnyName, holder |-> AnyHolder]]
  /\ payouts = << >>
  /\ task = [t \in Tasks |-> NoTask]

-----------------------------------------------------------------------------
(* Bug: a coroutine gives its loop up between what it reads and commits.   *)
BugLoopFree(t) == TRUE

LoopFree(t) ==
  \A u \in Tasks \ {t} :
    LoopOf[u] = LoopOf[t] => task[u].at \in Waiting

SomeLoopFree ==
  \E loop \in Range(LoopOf) :
    \A t \in Tasks : LoopOf[t] = loop => task[t].at \in Waiting

Goes(t, state) == task' = [task EXCEPT ![t] = state]

(* update_profile(), in a thread: no destination is looked at again.       *)
Rename(name) ==
  /\ profile' = name
  /\ UNCHANGED <<rows, payouts, task>>

-----------------------------------------------------------------------------
(* Adding a destination.                                                   *)

(* The name given must look like the profile's; the row must not be there. *)
MayAdd(d, name, holder) == Matches(name, holder) /\ rows[d].status = "ABSENT"

(* add_bank_account() looks its branch up before it checks anything ...    *)
AskBank(t, d, holder) ==
  /\ task[t].at = "idle" /\ LoopFree(t) /\ KindOf[d] = "bank"
  /\ Goes(t, [NoTask EXCEPT !.at = "lookup", !.to = d, !.name = profile, !.holder = holder])
  /\ UNCHANGED <<profile, rows, payouts>>

FindBranch(t) ==
  /\ task[t].at = "lookup" /\ LoopFree(t)
  /\ MayAdd(task[t].to, task[t].name, task[t].holder)
  /\ Goes(t, [task[t] EXCEPT !.at = "awaiting"])
  /\ UNCHANGED <<profile, rows, payouts>>

(* ... add_upi_account() has nothing to look up.                           *)
AskUpi(t, d, holder) ==
  /\ task[t].at = "idle" /\ LoopFree(t) /\ KindOf[d] = "upi"
  /\ MayAdd(d, profile, holder)
  /\ Goes(t, [NoTask EXCEPT !.at = "awaiting", !.to = d, !.name = profile, !.holder = holder])
  /\ UNCHANGED <<profile, rows, payouts>>

(* Without a registered name the answer's own account or address is read:  *)
(* the name the account was asked about with, or the address's user part.  *)
Fallback(d, holder) == IF KindOf[d] = "bank" THEN holder ELSE Username[d]

Owner(d, holder) == IF Registered[d] = <<>> THEN Fallback(d, holder) ELSE Registered[d]

(* The fallback may be missing too.                                        *)
Answers(d, holder) == {Owner(d, holder)} \cup (IF Registered[d] = <<>> THEN {<<>>} ELSE {})

(* A UPI id without a name may be payable and is not proven to be theirs;  *)
(* a bank account without one is in nobody's name.                         *)
Verdict(d, name, owner) ==
  IF owner # <<>> /\ Matches(name, owner) THEN "VERIFIED"
  ELSE IF owner = <<>> /\ KindOf[d] = "upi" THEN "PENDING" ELSE "REJECTED"

(* The penny drop's or the directory's answer.                             *)
Learn(t) ==
  /\ task[t].at = "awaiting" /\ LoopFree(t)
  /\ \E owner \in Answers(task[t].to, task[t].holder) :
       Goes(t, [task[t] EXCEPT !.at = "choose",
                               !.status = Verdict(task[t].to, task[t].name, owner)])
  /\ UNCHANGED <<profile, rows, payouts>>

(* No answer, or payouts are not configured and none is asked for.         *)
LearnNothing(t) ==
  /\ task[t].at = "awaiting" /\ LoopFree(t)
  /\ Goes(t, [task[t] EXCEPT !.at = "choose", !.status = "PENDING"])
  /\ UNCHANGED <<profile, rows, payouts>>

(* The branch is not known or not found out, the account may not be added, *)
(* or the provider's answer has another shape: the handler raises.         *)
GivesUp(t) ==
  /\ task[t].at \in {"lookup", "awaiting"} /\ LoopFree(t)
  /\ Goes(t, NoTask)
  /\ UNCHANGED <<profile, rows, payouts>>

Defaults(kind) == {d \in Destinations : KindOf[d] = kind /\ rows[d].is_default}

ChooseDefault(t) ==
  /\ task[t].at = "choose"
  /\ Goes(t, [task[t] EXCEPT !.at = "add", !.is_default = Defaults(KindOf[task[t].to]) = {}])
  /\ UNCHANGED <<profile, rows, payouts>>

(* uq_bank_account_per_user and uq_upi_account_per_user refuse a second.   *)
CommitAdd(t) ==
  /\ task[t].at = "add"
  /\ rows' =
       IF rows[task[t].to].status = "ABSENT"
       THEN [rows EXCEPT ![task[t].to] =
              [status |-> task[t].status, is_default |-> task[t].is_default,
               name |-> task[t].name, holder |-> task[t].holder]]
       ELSE rows
  /\ Goes(t, NoTask)
  /\ UNCHANGED <<profile, payouts>>

-----------------------------------------------------------------------------
(* Paying out.                                                             *)

(* Bug: only payouts the provider has taken count.                         *)
BugCounted == Cardinality({p \in DOMAIN payouts : payouts[p].status = "PROCESSING"})

Counted == Cardinality({p \in DOMAIN payouts : payouts[p].status # "FAILED"})

(* Bug: a destination is paid before its owner has been proven.            *)
BugAskPayout(t, d) ==
  /\ task[t].at = "idle" /\ LoopFree(t)
  /\ rows[d].status \in {"PENDING", "VERIFIED"}
  /\ Counted + 1 <= PayoutsPerDay
  /\ Goes(t, [NoTask EXCEPT !.at = "debit", !.to = d])
  /\ UNCHANGED <<profile, rows, payouts>>

AskPayout(t, d) ==
  /\ task[t].at = "idle" /\ LoopFree(t)
  /\ rows[d].status = "VERIFIED"
  /\ Counted + 1 <= PayoutsPerDay
  /\ Goes(t, [NoTask EXCEPT !.at = "debit", !.to = d])
  /\ UNCHANGED <<profile, rows, payouts>>

(* The request is committed with its debit ...                             *)
CommitDebit(t) ==
  /\ task[t].at = "debit"
  /\ Len(payouts) < MaxPayouts
  /\ payouts' = Append(payouts,
       [to |-> task[t].to, status |-> "REQUESTED", known |-> FALSE, returned |-> FALSE])
  /\ Goes(t, [task[t] EXCEPT !.at = "sent", !.payout = Len(payouts) + 1])
  /\ UNCHANGED <<profile, rows>>

(* ... or refused: the wallet is frozen, or has too little money.          *)
RefuseDebit(t) ==
  /\ task[t].at = "debit"
  /\ Goes(t, NoTask)
  /\ UNCHANGED <<profile, rows, payouts>>

(* reverse_payout(): the entry is posted once, whatever the status was.    *)
Reversed(p) == [p EXCEPT !.status = "FAILED", !.returned = TRUE]

(* The provider takes it, or the debit is put back.                        *)
Conclude(t, taken) ==
  /\ task[t].at = "sent" /\ LoopFree(t)
  /\ payouts' = [payouts EXCEPT ![task[t].payout] =
       IF taken THEN [@ EXCEPT !.status = "PROCESSING", !.known = TRUE] ELSE Reversed(@)]
  /\ Goes(t, NoTask)
  /\ UNCHANGED <<profile, rows>>

(* The provider's webhooks, repeated and in any order, for a payout whose  *)
(* id is on record.                                                        *)
SettlePayout(p) ==
  /\ payouts[p].known
  /\ SomeLoopFree
  /\ payouts' = [payouts EXCEPT ![p].status = "PROCESSED"]
  /\ UNCHANGED <<profile, rows, task>>

ReversePayout(p) ==
  /\ payouts[p].known
  /\ SomeLoopFree
  /\ payouts' = [payouts EXCEPT ![p] = Reversed(@)]
  /\ UNCHANGED <<profile, rows, task>>

(* A process dies with all it serves.                                      *)
ProcessDies(loop) ==
  /\ \E t \in Tasks : LoopOf[t] = loop /\ task[t].at # "idle"
  /\ task' = [t \in Tasks |-> IF LoopOf[t] = loop THEN NoTask ELSE task[t]]
  /\ UNCHANGED <<profile, rows, payouts>>

DestinationsNext ==
  \/ \E name \in Names : Rename(name)
  \/ \E t \in Tasks :
       \/ \E d \in Destinations, holder \in Holders : AskBank(t, d, holder) \/ AskUpi(t, d, holder)
       \/ \E d \in Destinations : AskPayout(t, d)
       \/ FindBranch(t) \/ Learn(t) \/ LearnNothing(t) \/ GivesUp(t)
       \/ ChooseDefault(t) \/ CommitAdd(t)
       \/ CommitDebit(t) \/ RefuseDebit(t)
       \/ \E taken \in BOOLEAN : Conclude(t, taken)
  \/ \E p \in DOMAIN payouts : SettlePayout(p) \/ ReversePayout(p)
  \/ \E loop \in Range(LoopOf) : ProcessDies(loop)

DestinationsSpec == DestinationsInit /\ [][DestinationsNext]_destinationVars

-----------------------------------------------------------------------------
(* However additions overlap in the process, as soon as a user has         *)
(* destinations of a kind exactly one of them is the default.              *)
OneDefaultEach ==
  \A kind \in {"bank", "upi"} :
    (\E d \in Destinations : KindOf[d] = kind /\ rows[d].status # "ABSENT")
      => Cardinality(Defaults(kind)) = 1

(* However payouts and webhooks overlap in the process, a day's payouts    *)
(* whose money has not come back stay within the limit.                    *)
WithinDailyLimit ==
  Cardinality({p \in DOMAIN payouts : ~payouts[p].returned}) <= PayoutsPerDay

(* A payout goes only where the name in the provider's answer matched a    *)
(* name of the user's: the registered name if it gives one, and otherwise  *)
(* what stands in for it.                                                  *)
PaidToTheirOwn ==
  \A p \in DOMAIN payouts :
    LET d == payouts[p].to
    IN rows[d].status = "VERIFIED" /\ Matches(rows[d].name, Owner(d, rows[d].holder))

(* "Ownership is only ever established by a penny drop": money goes only   *)
(* where the bank says whose name a destination is in.                     *)
PaidToRegistered ==
  \A p \in DOMAIN payouts : Registered[payouts[p].to] # <<>>

(* match_names(): "the rule is: every token of the shorter name must       *)
(* appear in the longer one, either whole or as an initial."  Initials are *)
(* among the words that are dropped.                                       *)
EveryWordAppears ==
  \A d \in Destinations : rows[d].status = "VERIFIED" =>
    LET left == TokensOf(rows[d].name)
        right == TokensOf(Owner(d, rows[d].holder))
    IN Range(Shorter(left, right)) \subseteq Range(Longer(left, right))
=============================================================================
