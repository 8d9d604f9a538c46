------------------------------ MODULE Payments ------------------------------
(***************************************************************************)
(* One user's payments: money in by UPI, credited when the provider's      *)
(* webhook confirms it, and money out to a bank, debited before the        *)
(* provider is asked.                                                      *)
(*                                                                         *)
(* The handlers are coroutines of an event loop, which they give up only   *)
(* while they await the provider.  Between two commits a process can die,  *)
(* and the loop of another process (a deployment overlaps two) can act.    *)
(* The provider repeats a webhook until it is acknowledged, and webhooks   *)
(* overtake each other.                                                    *)
(***************************************************************************)
EXTENDS Integers, FiniteSets, FiniteSetsExt

CONSTANTS
  Intents,      \* payments in
  Payouts,      \* payments out
  Amount,       \* what each payment out debits, in paise
  Sums,         \* what users ask to add, in tenths of a paisa
  Offers,       \* what may be paid against an order, in paise
  MinTopUp,     \* MIN_TOP_UP, in paise
  Loops,        \* event loops, one per server process
  Funds,        \* the user's available balance to begin with
  DailyLimit    \* settings.PAYOUT_DAILY_LIMIT

ASSUME AmountAssumption == Amount \in [Payouts -> Nat \ {0}]
ASSUME NumbersAssumption ==
  /\ {Funds, DailyLimit, MinTopUp} \subseteq Nat
  /\ Sums \subseteq Nat /\ Offers \subseteq Nat
ASSUME NamesAssumption == Intents \cap Payouts = {} /\ Intents \cup Payouts # {}

VARIABLES
  intent,      \* the payment intents
  payout,      \* the payout requests
  posted,      \* how often the ledger has recorded each idempotency key
  available,   \* the user's available balance
  frozen,      \* whether wallets.frozen_at is set
  paid,        \* the amounts that were paid against each intent's order
  transfer,    \* what the provider has done about each payout
  reply,       \* what it answered to the request for it
  mail,        \* the webhooks it has not seen acknowledged
  job,         \* what each loop is in the middle of
  awaiting     \* the payouts whose handler waits for the provider, with its loop

vars ==
  <<intent, payout, posted, available, frozen, paid, transfer, reply, mail, job, awaiting>>
world == <<frozen, paid, transfer, reply>>

-----------------------------------------------------------------------------
(* State.                                                                  *)

IntentStatuses == {"ABSENT", "PENDING", "SUCCEEDED", "FAILED"}
PayoutStatuses == {"ABSENT", "REQUESTED", "PROCESSING", "PROCESSED", "FAILED"}

(* NUMERIC(18, 2), and to_money(), round halves of a paisa up.             *)
Stored(sum) == (sum + 5) \div 10

(* to_paise() rounds them to the even neighbour.                           *)
ToPaise(sum) ==
  IF sum % 10 = 5 /\ Stored(sum) % 2 = 1 THEN Stored(sum) - 1 ELSE Stored(sum)

(* marked: ledger_transaction_id is set.  known: provider_payout_id is.    *)
(* order: the paise that the provider was told to collect.                 *)
IntentRows == [status : IntentStatuses, marked : BOOLEAN, order : Nat, amount : Nat]
PayoutRows == [status : PayoutStatuses, marked : BOOLEAN, known : BOOLEAN]

Keys ==
  ({"topup"} \X Intents) \cup ({"payout", "payout-reversal"} \X Payouts)

(* payment.captured, with what was paid; payment.failed; payout.processed; *)
(* payout.failed or payout.reversed.                                       *)
Events ==
  ({"captured"} \X Intents \X Offers) \cup
  ({"failed"} \X Intents) \cup
  ({"processed", "returned"} \X Payouts)

(* A request of the user's, which no event caused.                         *)
NoEvent == <<"none">>

Jobs ==
  [kind : {"idle", "mark", "fail", "settle", "debit", "book", "close"},
   id : Intents \cup Payouts, was : IntentStatuses, event : Events \cup {NoEvent}]

Idle ==
  [kind |-> "idle", id |-> CHOOSE x \in Intents \cup Payouts : TRUE, was |-> "ABSENT",
   event |-> NoEvent]

TypeOK ==
  /\ intent \in [Intents -> IntentRows]
  /\ payout \in [Payouts -> PayoutRows]
  /\ posted \in [Keys -> Nat]
  /\ available \in Nat
  /\ frozen \in BOOLEAN
  /\ paid \in [Intents -> SUBSET Offers]
  /\ transfer \in
       [Payouts -> {"none", "asked", "accepted", "refused", "processed", "returned"}]
  /\ reply \in [Payouts -> {"none", "id", "error"}]
  /\ mail \subseteq Events
  /\ job \in [Loops -> Jobs]
  /\ awaiting \subseteq Loops \X Payouts

Init ==
  /\ intent = [i \in Intents |-> [status |-> "ABSENT", marked |-> FALSE, order |-> 0, amount |-> 0]]
  /\ payout = [p \in Payouts |-> [status |-> "ABSENT", marked |-> FALSE, known |-> FALSE]]
  /\ posted = [k \in Keys |-> 0]
  /\ available = Funds
  /\ frozen = FALSE
  /\ paid = [i \in Intents |-> {}]
  /\ transfer = [p \in Payouts |-> "none"]
  /\ reply = [p \in Payouts |-> "none"]
  /\ mail = {}
  /\ job = [l \in Loops |-> Idle]
  /\ awaiting = {}

-----------------------------------------------------------------------------
(* The ledger, as wallet.top_up() and wallet.withdraw() use it: each call  *)
(* commits by itself, and a frozen wallet refuses both.                    *)

(* Bug: the balance may be overdrawn.                                      *)
BugOverdraws(key, sum) ==
  /\ ~frozen
  /\ IF posted[key] > 0 THEN UNCHANGED <<posted, available>>
     ELSE /\ posted' = [posted EXCEPT ![key] = @ + 1]
          /\ available' = available + sum

(* Bug: a movement without an idempotency key.                             *)
BugMoves(key, sum) ==
  /\ ~frozen
  /\ available + sum >= 0
  /\ posted' = [posted EXCEPT ![key] = @ + 1]
  /\ available' = available + sum

(* A key that is on record is answered with what is recorded.              *)
Moves(key, sum) ==
  /\ ~frozen
  /\ IF posted[key] > 0 THEN UNCHANGED <<posted, available>>
     ELSE /\ available + sum >= 0
          /\ posted' = [posted EXCEPT ![key] = @ + 1]
          /\ available' = available + sum

NothingMoves == UNCHANGED <<posted, available>>

-----------------------------------------------------------------------------
(* The loops.                                                              *)

Busy(l, kind) == job[l].kind = kind

Continues(l, kind, id, was, e) ==
  job' = [job EXCEPT ![l] = [kind |-> kind, id |-> id, was |-> was, event |-> e]]

Rests(l) == job' = [job EXCEPT ![l] = Idle]

(* 200, which the provider may fail to receive.  A webhook whose handler   *)
(* raises is not acknowledged, and changes nothing.                        *)
Acknowledged(e) == mail' = mail \/ mail' = mail \ {e}

Finishes(l) == Rests(l) /\ Acknowledged(job[l].event)

-----------------------------------------------------------------------------
(* Money coming in.                                                        *)

(* The row is committed with its order, or not at all.                     *)
StartTopUp(l, i, sum) ==
  /\ Busy(l, "idle") /\ intent[i].status = "ABSENT"
  /\ intent' = [intent EXCEPT ![i] =
                  [status |-> "PENDING", marked |-> FALSE,
                   order |-> ToPaise(sum), amount |-> Stored(sum)]]
  /\ NothingMoves
  /\ UNCHANGED <<payout, mail, job, awaiting, world>>

(* "Already credited.  Providers retry".                                   *)
AlreadyCredited(l, i, n) ==
  /\ Busy(l, "idle") /\ <<"captured", i, n>> \in mail /\ intent[i].marked
  /\ Acknowledged(<<"captured", i, n>>) /\ NothingMoves
  /\ UNCHANGED <<intent, payout, job, awaiting, world>>

(* Anything but the stored amount is not credited, also when it is what    *)
(* the order asked for.                                                    *)
Mismatch(l, i, n) ==
  /\ Busy(l, "idle") /\ <<"captured", i, n>> \in mail /\ ~intent[i].marked
  /\ n # intent[i].amount
  /\ intent' = [intent EXCEPT ![i].status = "FAILED"]
  /\ Acknowledged(<<"captured", i, n>>) /\ NothingMoves
  /\ UNCHANGED <<payout, job, awaiting, world>>

(* The first transaction of confirm_top_up(): wallet.top_up() commits, and *)
(* with that gives up the intent's row lock.  An amount below its minimum  *)
(* raises.  (Nobody deletes users, and their intents would go with them.)  *)
Credit(l, i, n) ==
  /\ Busy(l, "idle") /\ <<"captured", i, n>> \in mail /\ ~intent[i].marked
  /\ n = intent[i].amount /\ n >= MinTopUp
  /\ Moves(<<"topup", i>>, n)
  /\ Continues(l, "mark", i, intent[i].status, <<"captured", i, n>>)
  /\ UNCHANGED <<intent, payout, mail, awaiting, world>>

(* Bug: the intent is not marked as credited.                              *)
BugMark(l) ==
  /\ Busy(l, "mark")
  /\ intent' = [intent EXCEPT ![job[l].id].status = "SUCCEEDED"]
  /\ Finishes(l) /\ NothingMoves
  /\ UNCHANGED <<payout, awaiting, world>>

Mark(l) ==
  /\ Busy(l, "mark")
  /\ intent' = [intent EXCEPT ![job[l].id].status = "SUCCEEDED", ![job[l].id].marked = TRUE]
  /\ Finishes(l) /\ NothingMoves
  /\ UNCHANGED <<payout, awaiting, world>>

(* fail_top_up() reads without a lock ...                                  *)
HearFailure(l, i) ==
  /\ Busy(l, "idle") /\ <<"failed", i>> \in mail
  /\ IF intent[i].marked
     THEN Acknowledged(<<"failed", i>>) /\ UNCHANGED job
     ELSE Continues(l, "fail", i, intent[i].status, <<"failed", i>>) /\ UNCHANGED mail
  /\ NothingMoves
  /\ UNCHANGED <<intent, payout, awaiting, world>>

(* ... and writes the status if it differs from the one it read.           *)
Fail(l) ==
  /\ Busy(l, "fail")
  /\ intent' = IF job[l].was = "FAILED" THEN intent
               ELSE [intent EXCEPT ![job[l].id].status = "FAILED"]
  /\ Finishes(l) /\ NothingMoves
  /\ UNCHANGED <<payout, awaiting, world>>

-----------------------------------------------------------------------------
(* Money going out.                                                        *)

Spent ==
  MapThenSumSet(LAMBDA p : Amount[p],
                {p \in Payouts : payout[p].status \notin {"ABSENT", "FAILED"}})

RequestPayout(l, p) ==
  /\ Busy(l, "idle") /\ payout[p].status = "ABSENT"
  /\ Spent + Amount[p] <= DailyLimit
  /\ \A k \in Loops : job[k].kind = "debit" => job[k].id # p
  /\ Continues(l, "debit", p, "ABSENT", NoEvent)
  /\ NothingMoves
  /\ UNCHANGED <<intent, payout, mail, awaiting, world>>

(* Bug: the balance is not checked.                                        *)
BugDebit(l) ==
  /\ Busy(l, "debit")
  /\ payout' = [payout EXCEPT ![job[l].id].status = "REQUESTED"]
  /\ IF available >= Amount[job[l].id]
     THEN Moves(<<"payout", job[l].id>>, -Amount[job[l].id])
     ELSE NothingMoves
  /\ Continues(l, "book", job[l].id, "ABSENT", NoEvent)
  /\ UNCHANGED <<intent, mail, awaiting, world>>

(* wallet.withdraw() commits the request with its debit.                   *)
Debit(l) ==
  /\ Busy(l, "debit")
  /\ payout' = [payout EXCEPT ![job[l].id].status = "REQUESTED"]
  /\ Moves(<<"payout", job[l].id>>, -Amount[job[l].id])
  /\ Continues(l, "book", job[l].id, "ABSENT", NoEvent)
  /\ UNCHANGED <<intent, mail, awaiting, world>>

CannotDebit(l) ==
  /\ Busy(l, "debit") /\ (frozen \/ available < Amount[job[l].id])
  /\ Rests(l) /\ NothingMoves
  /\ UNCHANGED <<intent, payout, mail, awaiting, world>>

(* The debit is noted on the request, and the provider is asked.           *)
Book(l) ==
  /\ Busy(l, "book")
  /\ payout' = [payout EXCEPT ![job[l].id].marked = TRUE]
  /\ transfer' = [transfer EXCEPT ![job[l].id] = "asked"]
  /\ awaiting' = awaiting \cup {<<l, job[l].id>>}
  /\ Rests(l) /\ NothingMoves
  /\ UNCHANGED <<intent, mail, frozen, paid, reply>>

(* Bug: a payout that was accepted is taken for one that has landed.       *)
BugAnswered(l, p) ==
  /\ Busy(l, "idle") /\ <<l, p>> \in awaiting /\ reply[p] = "id"
  /\ payout' = [payout EXCEPT ![p].status = "PROCESSED", ![p].known = TRUE]
  /\ awaiting' = awaiting \ {<<l, p>>}
  /\ NothingMoves
  /\ UNCHANGED <<intent, mail, job, world>>

Answered(l, p) ==
  /\ Busy(l, "idle") /\ <<l, p>> \in awaiting /\ reply[p] = "id"
  /\ payout' = [payout EXCEPT ![p].status = "PROCESSING", ![p].known = TRUE]
  /\ awaiting' = awaiting \ {<<l, p>>}
  /\ NothingMoves
  /\ UNCHANGED <<intent, mail, job, world>>

(* Any error, also a timeout, is taken for a refusal: reverse_payout(),    *)
(* whose first transaction is wallet.top_up()'s.                           *)
Errored(l, p) ==
  /\ Busy(l, "idle") /\ <<l, p>> \in awaiting /\ reply[p] = "error"
  /\ Moves(<<"payout-reversal", p>>, Amount[p])
  /\ Continues(l, "close", p, "ABSENT", NoEvent)
  /\ awaiting' = awaiting \ {<<l, p>>}
  /\ UNCHANGED <<intent, payout, mail, world>>

(* The wallet was frozen meanwhile: reverse_payout() raises, and nobody    *)
(* asks again.                                                             *)
CannotReturn(l, p) ==
  /\ Busy(l, "idle") /\ <<l, p>> \in awaiting /\ reply[p] = "error" /\ frozen
  /\ awaiting' = awaiting \ {<<l, p>>}
  /\ NothingMoves
  /\ UNCHANGED <<intent, payout, mail, job, world>>

(* The payout is found by the provider's id, or the webhook is dropped.    *)
HearReturn(l, p) ==
  /\ Busy(l, "idle") /\ <<"returned", p>> \in mail
  /\ IF payout[p].known /\ payout[p].status # "FAILED"
     THEN /\ Moves(<<"payout-reversal", p>>, Amount[p])
          /\ Continues(l, "close", p, "ABSENT", <<"returned", p>>)
          /\ UNCHANGED mail
     ELSE NothingMoves /\ Acknowledged(<<"returned", p>>) /\ UNCHANGED job
  /\ UNCHANGED <<intent, payout, awaiting, world>>

Close(l) ==
  /\ Busy(l, "close")
  /\ payout' = [payout EXCEPT ![job[l].id].status = "FAILED"]
  /\ Finishes(l) /\ NothingMoves
  /\ UNCHANGED <<intent, awaiting, world>>

HearProcessed(l, p) ==
  /\ Busy(l, "idle") /\ <<"processed", p>> \in mail
  /\ IF payout[p].known /\ payout[p].status # "PROCESSED"
     THEN Continues(l, "settle", p, "ABSENT", <<"processed", p>>) /\ UNCHANGED mail
     ELSE Acknowledged(<<"processed", p>>) /\ UNCHANGED job
  /\ NothingMoves
  /\ UNCHANGED <<intent, payout, awaiting, world>>

Settle(l) ==
  /\ Busy(l, "settle")
  /\ payout' = [payout EXCEPT ![job[l].id].status = "PROCESSED"]
  /\ Finishes(l) /\ NothingMoves
  /\ UNCHANGED <<intent, awaiting, world>>

-----------------------------------------------------------------------------
(* The process dies: its loop's job and the handlers that wait are gone.   *)
Crash(l) ==
  /\ job[l] # Idle \/ \E p \in Payouts : <<l, p>> \in awaiting
  /\ Rests(l)
  /\ awaiting' = {w \in awaiting : w[1] # l}
  /\ NothingMoves
  /\ UNCHANGED <<intent, payout, mail, world>>

(* An administrator freezes the wallet in the database, or thaws it: the   *)
(* application only reads the column.                                      *)
Freeze ==
  /\ frozen' = ~frozen
  /\ NothingMoves
  /\ UNCHANGED <<intent, payout, paid, transfer, reply, mail, job, awaiting>>

(* The user pays an order: what it asks for or, in some apps, another      *)
(* amount, each of them once.                                              *)
Pay(i, n) ==
  /\ intent[i].status # "ABSENT" /\ n \notin paid[i]
  /\ paid' = [paid EXCEPT ![i] = @ \cup {n}]
  /\ mail' = mail \cup {<<"captured", i, n>>}
  /\ NothingMoves
  /\ UNCHANGED <<intent, payout, frozen, transfer, reply, job, awaiting>>

PaymentFails(i) ==
  /\ intent[i].status # "ABSENT"
  /\ mail' = mail \cup {<<"failed", i>>}
  /\ NothingMoves
  /\ UNCHANGED <<intent, payout, job, awaiting, world>>

Sends(p, from, to) ==
  /\ transfer[p] \in from
  /\ transfer' = [transfer EXCEPT ![p] = to]
  /\ NothingMoves
  /\ UNCHANGED <<intent, payout, frozen, paid, job, awaiting>>

(* The provider accepts or refuses; its answer to an acceptance may be     *)
(* late or lost.                                                           *)
Accept(p, answer) ==
  /\ Sends(p, {"asked"}, "accepted")
  /\ reply' = [reply EXCEPT ![p] = answer]
  /\ UNCHANGED mail

Refuse(p) ==
  /\ Sends(p, {"asked"}, "refused")
  /\ reply' = [reply EXCEPT ![p] = "error"]
  /\ UNCHANGED mail

Process(p) ==
  /\ Sends(p, {"accepted"}, "processed")
  /\ mail' = mail \cup {<<"processed", p>>}
  /\ UNCHANGED reply

Return(p) ==
  /\ Sends(p, {"accepted", "processed"}, "returned")
  /\ mail' = mail \cup {<<"returned", p>>}
  /\ UNCHANGED reply

-----------------------------------------------------------------------------

Starts(l) ==
  \/ \E i \in Intents, sum \in Sums : StartTopUp(l, i, sum)
  \/ \E i \in Intents, n \in Offers :
       AlreadyCredited(l, i, n) \/ Mismatch(l, i, n) \/ Credit(l, i, n)
  \/ \E i \in Intents : HearFailure(l, i)
  \/ \E p \in Payouts :
       RequestPayout(l, p) \/ Answered(l, p) \/ Errored(l, p) \/ CannotReturn(l, p)
       \/ HearReturn(l, p) \/ HearProcessed(l, p)

Runs(l) ==
  Mark(l) \/ Fail(l) \/ Debit(l) \/ CannotDebit(l) \/ Book(l) \/ Close(l) \/ Settle(l)

Provider ==
  \/ \E i \in Intents, n \in Offers : Pay(i, n)
  \/ \E i \in Intents : PaymentFails(i)
  \/ \E p \in Payouts :
       Accept(p, "id") \/ Accept(p, "error") \/ Refuse(p) \/ Process(p) \/ Return(p)

Next == (\E l \in Loops : Starts(l) \/ Runs(l) \/ Crash(l)) \/ Provider \/ Freeze

Spec == Init /\ [][Next]_vars

(* The provider repeats a webhook until it is acknowledged, and a process  *)
(* that keeps dying in the middle of a handler is one that is repaired.    *)
Fairness ==
  \A l \in Loops :
    /\ WF_vars(Runs(l)) /\ SF_vars(Mark(l))
    /\ \A i \in Intents : SF_vars(\E n \in Offers : Credit(l, i, n))

FairSpec == Spec /\ Fairness

-----------------------------------------------------------------------------
(* Properties.                                                             *)

(* "A credit posts at most once", and only against a payment of exactly    *)
(* what is credited, however often the provider repeats itself and         *)
(* wherever the process dies.                                              *)
CreditedOnceIfPaid ==
  \A i \in Intents :
    posted[<<"topup", i>>] <= IF intent[i].amount \in paid[i] THEN 1 ELSE 0

(* "Holding the balance until the bank confirms would let someone withdraw *)
(* the same money twice": nothing is asked of the bank that the user has   *)
(* not been debited for.                                                   *)
DebitedBeforeSent ==
  \A p \in Payouts : transfer[p] # "none" => posted[<<"payout", p>>] = 1

(* A debit is put back at most once, and only for a payout that the        *)
(* provider returned or whose request failed.                              *)
RefundedOnceIfFailed ==
  \A p \in Payouts :
    posted[<<"payout-reversal", p>>] <=
      IF transfer[p] \in {"refused", "returned"} \/ reply[p] = "error"
      THEN posted[<<"payout", p>>] ELSE 0

(* A payout is shown as landed only when the bank has processed it.        *)
ProcessedIsProcessed ==
  \A p \in Payouts :
    payout[p].status = "PROCESSED" => transfer[p] \in {"processed", "returned"}

(* confirm_top_up(): whatever dies, the payment of an order is credited    *)
(* and marked, if the order asked for what is stored (no half of a paisa   *)
(* was rounded apart), that is enough for top_up(), and the wallet does    *)
(* not stay frozen.                                                        *)
CaptureIsCredited ==
  <>[]~frozen =>
    \A i \in Intents :
      (/\ intent[i].order \in paid[i]
       /\ intent[i].order = intent[i].amount /\ intent[i].amount >= MinTopUp)
      ~> intent[i].marked /\ posted[<<"topup", i>>] = 1

(* to_paise(): "Rounding here, once, on purpose."  Whoever pays what their *)
(* order asks for is credited.                                             *)
PaidOrdersAreCredited ==
  <>[]~frozen =>
    \A i \in Intents :
      intent[i].order \in paid[i] ~> intent[i].marked /\ posted[<<"topup", i>>] = 1

(* "If the payout is rejected the debit is reversed": money is not both    *)
(* put back and paid out.                                                  *)
NotPaidAndRefunded ==
  \A p \in Payouts :
    posted[<<"payout-reversal", p>>] > 0 => transfer[p] # "processed"
=============================================================================
