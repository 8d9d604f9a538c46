---------------------------- MODULE PaymentsProofs ----------------------------
(***************************************************************************)
(* Machine-checked safety of payments, for any number of them, of server   *)
(* processes and of webhooks, and of the destinations they are paid to.    *)
(***************************************************************************)
EXTENDS Payments, Destinations, FiniteSetTheorems, TLAPS

-----------------------------------------------------------------------------
(* The strengthening.                                                      *)

(* A job is about what it should be about.                                 *)
JobsMakeSense ==
  \A l \in Loops :
    /\ job[l].kind \in {"mark", "fail"} => job[l].id \in Intents
    /\ job[l].kind \in {"debit", "book", "close", "settle"} => job[l].id \in Payouts

PostedOnce == \A k \in Keys : posted[k] <= 1

(* The provider says that an amount was paid only if it was, and what is   *)
(* credited was paid.                                                      *)
CapturesAreTrue ==
  /\ \A i \in Intents, n \in Offers : <<"captured", i, n>> \in mail =>
       n \in paid[i] /\ intent[i].status # "ABSENT"
  /\ \A i \in Intents : posted[<<"topup", i>>] > 0 =>
       intent[i].amount \in paid[i] /\ intent[i].status # "ABSENT"

(* A request is handled by one loop, whose debit is its first commit.      *)
OneHandlerEach ==
  /\ \A l, k \in Loops :
       /\ job[l].kind \in {"debit", "book"} /\ job[k].kind \in {"debit", "book"}
       /\ job[l].id = job[k].id
       => l = k
  /\ \A l \in Loops : job[l].kind = "debit" => payout[job[l].id].status = "ABSENT"
  /\ \A l \in Loops : job[l].kind = "book" =>
       /\ payout[job[l].id].status # "ABSENT"
       /\ transfer[job[l].id] = "none"
       /\ posted[<<"payout", job[l].id>>] = 1

(* What the provider knows of was debited, and asked for once.             *)
SentIsDebited ==
  /\ \A p \in Payouts : transfer[p] # "none" =>
       payout[p].status # "ABSENT" /\ posted[<<"payout", p>>] = 1
  /\ \A l \in Loops, p \in Payouts : <<l, p>> \in awaiting => transfer[p] # "none"
  /\ \A p \in Payouts : reply[p] # "none" => transfer[p] \notin {"none", "asked"}
  /\ \A l \in Loops : job[l].kind = "close" => transfer[job[l].id] # "none"

(* The provider's webhooks tell what happened, and the jobs they start     *)
(* believe it.                                                             *)
WebhooksAreTrue ==
  \A p \in Payouts :
    /\ <<"returned", p>> \in mail => transfer[p] = "returned"
    /\ \/ <<"processed", p>> \in mail
       \/ \E l \in Loops : job[l].kind = "settle" /\ job[l].id = p
       \/ payout[p].status = "PROCESSED"
       => transfer[p] \in {"processed", "returned"}

RefundsHaveAReason ==
  \A p \in Payouts : posted[<<"payout-reversal", p>>] > 0 =>
    /\ posted[<<"payout", p>>] = 1
    /\ transfer[p] \in {"refused", "returned"} \/ reply[p] = "error"

IInv ==
  /\ TypeOK
  /\ JobsMakeSense
  /\ PostedOnce
  /\ CapturesAreTrue
  /\ OneHandlerEach
  /\ SentIsDebited
  /\ WebhooksAreTrue
  /\ RefundsHaveAReason

-----------------------------------------------------------------------------
JobKinds == {"idle", "mark", "fail", "settle", "debit", "book", "close"}

LEMMA IdleIsAJob == Idle \in Jobs
  BY NamesAssumption DEF Idle, Jobs, NoEvent, IntentStatuses

LEMMA KeysOfPayments ==
  /\ \A i \in Intents : <<"topup", i>> \in Keys
  /\ \A p \in Payouts : <<"payout", p>> \in Keys /\ <<"payout-reversal", p>> \in Keys
  BY DEF Keys

LEMMA InitIInv == Init => IInv
  <1> SUFFICES ASSUME Init PROVE IInv
    OBVIOUS
  <1>1. TypeOK
    BY IdleIsAJob, NumbersAssumption
    DEF Init, TypeOK, IntentRows, PayoutRows, IntentStatuses, PayoutStatuses
  <1>2. JobsMakeSense /\ OneHandlerEach
    BY DEF Init, JobsMakeSense, OneHandlerEach, Idle
  <1>3. PostedOnce /\ CapturesAreTrue /\ RefundsHaveAReason
    <2>1. \A k \in Keys : posted[k] = 0
      BY DEF Init
    <2>2. mail = {}
      BY DEF Init
    <2> QED BY <2>1, <2>2, KeysOfPayments DEF PostedOnce, CapturesAreTrue, RefundsHaveAReason
  <1>4. SentIsDebited
    BY DEF Init, SentIsDebited, Idle
  <1>5. WebhooksAreTrue
    BY DEF Init, WebhooksAreTrue, Idle
  <1> QED BY <1>1, <1>2, <1>3, <1>4, <1>5 DEF IInv

(* A movement is on record afterwards, once, and nothing else is.          *)
LEMMA MovesPosts ==
  ASSUME TypeOK, PostedOnce, NEW key \in Keys, NEW sum \in Int, Moves(key, sum)
  PROVE  /\ posted' \in [Keys -> Nat]
         /\ available' \in Nat
         /\ PostedOnce'
         /\ posted'[key] = 1
         /\ \A k \in Keys \ {key} : posted'[k] = posted[k]
  BY DEF TypeOK, PostedOnce, Moves

(* What a loop goes on to, and that the others go on as they were.         *)
LEMMA ContinuesType ==
  ASSUME TypeOK, NEW l \in Loops, NEW kind \in JobKinds, NEW id \in Intents \cup Payouts,
         NEW was \in IntentStatuses, NEW e \in Events \cup {NoEvent},
         Continues(l, kind, id, was, e)
  PROVE  /\ job' \in [Loops -> Jobs]
         /\ job'[l].kind = kind /\ job'[l].id = id
         /\ \A k \in Loops \ {l} : job'[k] = job[k]
  BY DEF TypeOK, Jobs, JobKinds, Continues

LEMMA EventsOfPayments ==
  /\ \A i \in Intents, n \in Offers : <<"captured", i, n>> \in Events
  /\ \A i \in Intents : <<"failed", i>> \in Events
  /\ \A p \in Payouts : <<"processed", p>> \in Events /\ <<"returned", p>> \in Events
  BY DEF Events

LEMMA SumsAreConverted ==
  ASSUME NEW sum \in Sums
  PROVE  Stored(sum) \in Nat /\ ToPaise(sum) \in Nat
  <1>1. sum \in Nat
    BY NumbersAssumption
  <1>2. Stored(sum) \in Nat
    BY <1>1 DEF Stored
  <1>3. Stored(sum) % 2 = 1 => Stored(sum) - 1 \in Nat
    BY <1>2
  <1> HIDE DEF Stored
  <1> QED BY <1>2, <1>3 DEF ToPaise

(* An order's amount stays as it was recorded, and nobody unmakes one.     *)
LEMMA CapturesStayTrue ==
  ASSUME CapturesAreTrue, UNCHANGED <<posted, paid>>, mail' \subseteq mail,
         \A i \in Intents : intent'[i].amount = intent[i].amount,
         \A i \in Intents : intent[i].status # "ABSENT" => intent'[i].status # "ABSENT"
  PROVE  CapturesAreTrue'
  BY DEF CapturesAreTrue

(* One lemma per action: what it leaves of each conjunct.                  *)

LEMMA AlreadyCreditedPreserves ==
  ASSUME IInv, NEW l \in Loops, NEW i \in Intents, NEW n \in Offers, AlreadyCredited(l, i, n)
  PROVE  IInv'
  BY DEF IInv, AlreadyCredited, Acknowledged, NothingMoves, world, TypeOK, JobsMakeSense,
      PostedOnce, CapturesAreTrue, OneHandlerEach, SentIsDebited, WebhooksAreTrue,
      RefundsHaveAReason

LEMMA CreditPreserves ==
  ASSUME IInv, NEW l \in Loops, NEW i \in Intents, NEW n \in Offers, Credit(l, i, n)
  PROVE  IInv'
  <1> USE DEF IInv
  <1> DEFINE key == <<"topup", i>>
  <1>1. /\ posted' \in [Keys -> Nat] /\ available' \in Nat /\ PostedOnce'
        /\ \A k \in Keys \ {key} : posted'[k] = posted[k]
    BY KeysOfPayments, NumbersAssumption, MovesPosts DEF Credit
  <1>2. /\ \A j \in Intents \ {i} : posted'[<<"topup", j>>] = posted[<<"topup", j>>]
        /\ \A p \in Payouts : /\ posted'[<<"payout", p>>] = posted[<<"payout", p>>]
                           /\ posted'[<<"payout-reversal", p>>] = posted[<<"payout-reversal", p>>]
    BY <1>1, KeysOfPayments
  <1>3. intent[i].status \in IntentStatuses
    BY DEF TypeOK, IntentRows
  <1>4. Continues(l, "mark", i, intent[i].status, <<"captured", i, n>>)
    BY DEF Credit
  <1>5. /\ job' \in [Loops -> Jobs]
        /\ job'[l].kind = "mark" /\ job'[l].id = i
        /\ \A k \in Loops \ {l} : job'[k] = job[k]
    BY <1>4, <1>3, ContinuesType, EventsOfPayments DEF JobKinds
  <1>6. TypeOK'
    BY <1>1, <1>5 DEF Credit, world, TypeOK
  <1>7. JobsMakeSense'
    BY <1>5 DEF JobsMakeSense
  <1>8. UNCHANGED <<intent, payout, mail, awaiting, world>>
    BY DEF Credit
  <1>9. OneHandlerEach'
    <2>1. \A k \in Loops :
            job'[k].kind \in {"debit", "book"} => job'[k] = job[k] /\ job[k].id \in Payouts
      BY <1>5 DEF JobsMakeSense
    <2>2. \A k \in Loops : job[k].kind = "book" =>
            posted'[<<"payout", job[k].id>>] = posted[<<"payout", job[k].id>>]
      BY <1>2 DEF JobsMakeSense
    <2>3. payout' = payout /\ transfer' = transfer
      BY <1>8 DEF world
    <2>4. \A k \in Loops : job'[k].kind = "book" => job[k].kind = "book" /\ job'[k] = job[k]
      BY <2>1
    <2>5. \A j, k \in Loops :
            /\ job'[j].kind \in {"debit", "book"} /\ job'[k].kind \in {"debit", "book"}
            /\ job'[j].id = job'[k].id
            => j = k
      <3> TAKE j, k \in Loops
      <3> HAVE /\ job'[j].kind \in {"debit", "book"} /\ job'[k].kind \in {"debit", "book"}
               /\ job'[j].id = job'[k].id
      <3>1. job'[j] = job[j] /\ job'[k] = job[k]
        BY <2>1
      <3> QED BY <3>1 DEF OneHandlerEach
    <2>6. \A k \in Loops : job'[k].kind = "debit" => payout'[job'[k].id].status = "ABSENT"
      BY <2>1, <2>3 DEF OneHandlerEach
    <2>7. \A k \in Loops : job'[k].kind = "book" =>
            /\ payout'[job'[k].id].status # "ABSENT"
            /\ transfer'[job'[k].id] = "none"
            /\ posted'[<<"payout", job'[k].id>>] = 1
      BY <2>2, <2>3, <2>4 DEF OneHandlerEach
    <2> QED BY <2>5, <2>6, <2>7 DEF OneHandlerEach
  <1>10. CapturesAreTrue'
    <2>1. /\ <<"captured", i, n>> \in mail /\ n = intent[i].amount
          /\ mail' = mail /\ paid' = paid /\ intent' = intent
      BY <1>8 DEF Credit, world
    <2> QED BY <1>2, <2>1 DEF CapturesAreTrue
  <1>11. \A k \in Loops : job'[k].kind = "close" => job'[k] = job[k]
    BY <1>5
  <1>12. SentIsDebited' /\ RefundsHaveAReason'
    <2>1. SentIsDebited'
      BY <1>2, <1>11, <1>8 DEF world, SentIsDebited
    <2>2. RefundsHaveAReason'
      BY <1>2, <1>8 DEF world, RefundsHaveAReason
    <2> QED BY <2>1, <2>2
  <1>13. WebhooksAreTrue'
    BY <1>5 DEF Credit, world, TypeOK, WebhooksAreTrue
  <1> QED BY <1>1, <1>6, <1>7, <1>9, <1>10, <1>12, <1>13

LEMMA StartTopUpPreserves ==
  ASSUME IInv, NEW l \in Loops, NEW i \in Intents, NEW sum \in Sums,
         StartTopUp(l, i, sum)
  PROVE  IInv'
  <1> USE DEF IInv, StartTopUp, NothingMoves, world, Busy, Idle
  <1>1. TypeOK'
    BY SumsAreConverted DEF TypeOK, IntentRows, IntentStatuses
  <1>2. JobsMakeSense'
    BY DEF TypeOK, JobsMakeSense
  <1>3. PostedOnce' /\ CapturesAreTrue'
    <2>1. \A j \in Intents \ {i} : intent'[j] = intent[j]
      BY DEF TypeOK
    <2>2. /\ \A n \in Offers : <<"captured", i, n>> \notin mail
          /\ ~(posted[<<"topup", i>>] > 0)
      BY DEF CapturesAreTrue
    <2>3. /\ UNCHANGED <<posted, mail, paid>>
          /\ PostedOnce
      OBVIOUS
    <2>4. PostedOnce'
      BY <2>3 DEF PostedOnce
    <2>5. CapturesAreTrue'
      BY <2>1, <2>2, <2>3 DEF CapturesAreTrue
    <2> QED BY <2>4, <2>5
  <1>4. OneHandlerEach'
    BY DEF TypeOK, JobsMakeSense, OneHandlerEach, SentIsDebited
  <1>5. SentIsDebited'
    BY DEF TypeOK, JobsMakeSense, SentIsDebited, OneHandlerEach
  <1>6. WebhooksAreTrue'
    BY DEF TypeOK, JobsMakeSense, WebhooksAreTrue, OneHandlerEach
  <1>7. RefundsHaveAReason'
    BY DEF TypeOK, RefundsHaveAReason, OneHandlerEach
  <1> QED BY <1>1, <1>2, <1>3, <1>4, <1>5, <1>6, <1>7

LEMMA MarkPreserves ==
  ASSUME IInv, NEW l \in Loops, Mark(l)
  PROVE  IInv'
  <1> USE DEF IInv, Mark, NothingMoves, world, Busy, Idle, Rests, Finishes, Acknowledged
  <1>1. TypeOK'
    <2>1. intent' \in [Intents -> IntentRows]
      BY DEF TypeOK, JobsMakeSense, IntentRows, IntentStatuses
    <2>2. job' \in [Loops -> Jobs]
      BY IdleIsAJob DEF TypeOK
    <2>3. mail' \subseteq Events
      BY DEF TypeOK
    <2> QED BY <2>1, <2>2, <2>3 DEF TypeOK
  <1>2. JobsMakeSense'
    BY DEF TypeOK, JobsMakeSense
  <1>3. PostedOnce' /\ CapturesAreTrue'
    <2>1. /\ \A j \in Intents : intent'[j].amount = intent[j].amount
          /\ \A j \in Intents :
               intent[j].status # "ABSENT" => intent'[j].status # "ABSENT"
      BY DEF TypeOK, JobsMakeSense, IntentRows
    <2> QED BY <2>1, CapturesStayTrue DEF PostedOnce
  <1>4. OneHandlerEach'
    BY DEF TypeOK, JobsMakeSense, OneHandlerEach, SentIsDebited
  <1>5. SentIsDebited'
    BY DEF TypeOK, JobsMakeSense, SentIsDebited, OneHandlerEach
  <1>6. WebhooksAreTrue'
    BY DEF TypeOK, JobsMakeSense, WebhooksAreTrue, OneHandlerEach
  <1>7. RefundsHaveAReason'
    BY DEF TypeOK, RefundsHaveAReason, OneHandlerEach
  <1> QED BY <1>1, <1>2, <1>3, <1>4, <1>5, <1>6, <1>7

LEMMA MismatchPreserves ==
  ASSUME IInv, NEW l \in Loops, NEW i \in Intents, NEW n \in Offers, Mismatch(l, i, n)
  PROVE  IInv'
  <1> USE DEF IInv, Mismatch, NothingMoves, world, Busy, Idle, Acknowledged
  <1>1. TypeOK'
    <2>1. intent' \in [Intents -> IntentRows]
      BY DEF TypeOK, JobsMakeSense, IntentRows, IntentStatuses
    <2>2. job' \in [Loops -> Jobs]
      BY IdleIsAJob DEF TypeOK
    <2>3. mail' \subseteq Events
      BY DEF TypeOK
    <2> QED BY <2>1, <2>2, <2>3 DEF TypeOK
  <1>2. JobsMakeSense'
    BY DEF TypeOK, JobsMakeSense
  <1>3. PostedOnce' /\ CapturesAreTrue'
    <2>1. /\ \A j \in Intents : intent'[j].amount = intent[j].amount
          /\ \A j \in Intents :
               intent[j].status # "ABSENT" => intent'[j].status # "ABSENT"
      BY DEF TypeOK, JobsMakeSense, IntentRows
    <2> QED BY <2>1, CapturesStayTrue DEF PostedOnce
  <1>4. OneHandlerEach'
    BY DEF TypeOK, JobsMakeSense, OneHandlerEach, SentIsDebited
  <1>5. SentIsDebited'
    BY DEF TypeOK, JobsMakeSense, SentIsDebited, OneHandlerEach
  <1>6. WebhooksAreTrue'
    BY DEF TypeOK, JobsMakeSense, WebhooksAreTrue, OneHandlerEach
  <1>7. RefundsHaveAReason'
    BY DEF TypeOK, RefundsHaveAReason, OneHandlerEach
  <1> QED BY <1>1, <1>2, <1>3, <1>4, <1>5, <1>6, <1>7

LEMMA HearFailurePreserves ==
  ASSUME IInv, NEW l \in Loops, NEW i \in Intents, HearFailure(l, i)
  PROVE  IInv'
  <1> USE DEF IInv, HearFailure, NothingMoves, world, Busy, Idle, Continues, Acknowledged
  <1>1. TypeOK'
    <2>1. intent[i].status \in IntentStatuses
      BY DEF TypeOK, IntentRows
    <2>2. job' \in [Loops -> Jobs]
      <3>1. CASE intent[i].marked
        BY <3>1 DEF TypeOK
      <3>2. CASE ~intent[i].marked
        <4>1. Continues(l, "fail", i, intent[i].status, <<"failed", i>>)
          BY <3>2
        <4> QED BY <4>1, <2>1, ContinuesType, EventsOfPayments DEF JobKinds
      <3> QED BY <3>1, <3>2
    <2> QED BY <2>2 DEF TypeOK
  <1>2. JobsMakeSense'
    BY DEF TypeOK, JobsMakeSense
  <1>3. PostedOnce' /\ CapturesAreTrue'
    BY DEF PostedOnce, CapturesAreTrue
  <1>4. OneHandlerEach'
    BY DEF TypeOK, JobsMakeSense, OneHandlerEach, SentIsDebited
  <1>5. SentIsDebited'
    BY DEF TypeOK, JobsMakeSense, SentIsDebited, OneHandlerEach
  <1>6. WebhooksAreTrue'
    <2>1. \A k \in Loops : job'[k].kind = "settle" => job'[k] = job[k]
      BY DEF TypeOK
    <2>2. mail' \subseteq mail /\ transfer' = transfer /\ payout' = payout
      OBVIOUS
    <2> QED BY <2>1, <2>2 DEF WebhooksAreTrue
  <1>7. RefundsHaveAReason'
    BY DEF TypeOK, RefundsHaveAReason, OneHandlerEach
  <1> QED BY <1>1, <1>2, <1>3, <1>4, <1>5, <1>6, <1>7

LEMMA FailPreserves ==
  ASSUME IInv, NEW l \in Loops, Fail(l)
  PROVE  IInv'
  <1> USE DEF IInv, Fail, NothingMoves, world, Busy, Idle, Rests, Finishes, Acknowledged
  <1>1. TypeOK'
    <2>1. intent' \in [Intents -> IntentRows]
      BY DEF TypeOK, JobsMakeSense, IntentRows, IntentStatuses
    <2>2. job' \in [Loops -> Jobs]
      BY IdleIsAJob DEF TypeOK
    <2>3. mail' \subseteq Events
      BY DEF TypeOK
    <2> QED BY <2>1, <2>2, <2>3 DEF TypeOK
  <1>2. JobsMakeSense'
    BY DEF TypeOK, JobsMakeSense
  <1>3. PostedOnce' /\ CapturesAreTrue'
    <2>1. /\ \A j \in Intents : intent'[j].amount = intent[j].amount
          /\ \A j \in Intents :
               intent[j].status # "ABSENT" => intent'[j].status # "ABSENT"
      BY DEF TypeOK, JobsMakeSense, IntentRows
    <2> QED BY <2>1, CapturesStayTrue DEF PostedOnce
  <1>4. OneHandlerEach'
    BY DEF TypeOK, JobsMakeSense, OneHandlerEach, SentIsDebited
  <1>5. SentIsDebited'
    BY DEF TypeOK, JobsMakeSense, SentIsDebited, OneHandlerEach
  <1>6. WebhooksAreTrue'
    BY DEF TypeOK, JobsMakeSense, WebhooksAreTrue, OneHandlerEach
  <1>7. RefundsHaveAReason'
    BY DEF TypeOK, RefundsHaveAReason, OneHandlerEach
  <1> QED BY <1>1, <1>2, <1>3, <1>4, <1>5, <1>6, <1>7

LEMMA RequestPayoutPreserves ==
  ASSUME IInv, NEW l \in Loops, NEW p \in Payouts, RequestPayout(l, p)
  PROVE  IInv'
  <1> USE DEF IInv, RequestPayout, NothingMoves, world, Busy, Idle, Continues
  <1>1. TypeOK'
    BY IdleIsAJob, EventsOfPayments DEF TypeOK, JobsMakeSense, Jobs, IntentStatuses, NoEvent
  <1>2. JobsMakeSense'
    BY DEF TypeOK, JobsMakeSense
  <1>3. PostedOnce' /\ CapturesAreTrue'
    BY DEF PostedOnce, CapturesAreTrue
  <1>4. OneHandlerEach'
    <2>1. \A k \in Loops : job[k].kind \in {"debit", "book"} => job[k].id # p
      BY DEF OneHandlerEach
    <2>2. /\ job'[l].kind = "debit" /\ job'[l].id = p
          /\ \A k \in Loops \ {l} : job'[k] = job[k]
      BY DEF TypeOK
    <2>3. payout' = payout /\ posted' = posted /\ transfer' = transfer
      OBVIOUS
    <2> QED BY <2>1, <2>2, <2>3 DEF OneHandlerEach
  <1>5. SentIsDebited'
    BY DEF TypeOK, JobsMakeSense, SentIsDebited, OneHandlerEach
  <1>6. WebhooksAreTrue'
    BY DEF TypeOK, JobsMakeSense, WebhooksAreTrue, OneHandlerEach
  <1>7. RefundsHaveAReason'
    BY DEF TypeOK, RefundsHaveAReason, OneHandlerEach
  <1> QED BY <1>1, <1>2, <1>3, <1>4, <1>5, <1>6, <1>7

LEMMA CannotDebitPreserves ==
  ASSUME IInv, NEW l \in Loops, CannotDebit(l)
  PROVE  IInv'
  <1> USE DEF IInv, CannotDebit, NothingMoves, world, Busy, Idle, Rests
  <1>1. TypeOK'
    BY IdleIsAJob, EventsOfPayments DEF TypeOK, JobsMakeSense, Jobs, NoEvent
  <1>2. JobsMakeSense'
    BY DEF TypeOK, JobsMakeSense
  <1>3. PostedOnce' /\ CapturesAreTrue'
    BY DEF PostedOnce, CapturesAreTrue
  <1>4. OneHandlerEach'
    BY DEF TypeOK, JobsMakeSense, OneHandlerEach, SentIsDebited
  <1>5. SentIsDebited'
    BY DEF TypeOK, JobsMakeSense, SentIsDebited, OneHandlerEach
  <1>6. WebhooksAreTrue'
    BY DEF TypeOK, JobsMakeSense, WebhooksAreTrue, OneHandlerEach
  <1>7. RefundsHaveAReason'
    BY DEF TypeOK, RefundsHaveAReason, OneHandlerEach
  <1> QED BY <1>1, <1>2, <1>3, <1>4, <1>5, <1>6, <1>7

LEMMA BookPreserves ==
  ASSUME IInv, NEW l \in Loops, Book(l)
  PROVE  IInv'
  <1> USE DEF IInv, Book, NothingMoves, world, Busy, Idle, Rests
  <1>0. /\ job[l].id \in Payouts
        /\ payout[job[l].id].status # "ABSENT"
        /\ transfer[job[l].id] = "none"
        /\ posted[<<"payout", job[l].id>>] = 1
    BY DEF JobsMakeSense, OneHandlerEach
  <1>1. TypeOK'
    <2>1. payout' \in [Payouts -> PayoutRows]
      BY <1>0 DEF TypeOK, PayoutRows
    <2>2. job' \in [Loops -> Jobs]
      BY IdleIsAJob DEF TypeOK
    <2>3. awaiting' \subseteq Loops \X Payouts
      BY <1>0 DEF TypeOK
    <2>4. transfer' \in
            [Payouts -> {"none", "asked", "accepted", "refused", "processed", "returned"}]
      BY <1>0 DEF TypeOK
    <2> QED BY <2>1, <2>2, <2>3, <2>4 DEF TypeOK
  <1>2. JobsMakeSense'
    BY DEF TypeOK, JobsMakeSense
  <1>3. PostedOnce' /\ CapturesAreTrue'
    BY DEF PostedOnce, CapturesAreTrue
  <1>4. OneHandlerEach'
    BY DEF TypeOK, JobsMakeSense, OneHandlerEach, SentIsDebited
  <1>5. SentIsDebited'
    <2>1. /\ \A p \in Payouts : payout'[p].status = payout[p].status
          /\ \A p \in Payouts : transfer'[p] = IF p = job[l].id THEN "asked" ELSE transfer[p]
          /\ posted' = posted /\ reply' = reply
          /\ awaiting' = awaiting \cup {<<l, job[l].id>>}
      BY DEF TypeOK, PayoutRows
    <2>2. \A k \in Loops : job'[k].kind = "close" => job'[k] = job[k]
      BY DEF TypeOK
    <2>3. \A k \in Loops : job'[k].kind = "close" => transfer'[job'[k].id] # "none"
      BY <2>1, <2>2 DEF JobsMakeSense, SentIsDebited
    <2>4. /\ \A p \in Payouts : transfer'[p] # "none" =>
               payout'[p].status # "ABSENT" /\ posted'[<<"payout", p>>] = 1
          /\ \A p \in Payouts : reply'[p] # "none" => transfer'[p] \notin {"none", "asked"}
      BY <1>0, <2>1 DEF SentIsDebited
    <2>5. \A k \in Loops, p \in Payouts : <<k, p>> \in awaiting' => transfer'[p] # "none"
      BY <1>0, <2>1 DEF SentIsDebited
    <2> QED BY <2>3, <2>4, <2>5 DEF SentIsDebited
  <1>6. WebhooksAreTrue'
    <2>1. \A k \in Loops : job'[k].kind = "settle" => job'[k] = job[k]
      BY DEF TypeOK
    <2>2. /\ \A p \in Payouts : payout'[p].status = payout[p].status
          /\ \A p \in Payouts : transfer'[p] = transfer[p] \/ transfer[p] = "none"
          /\ mail' = mail
      BY <1>0 DEF TypeOK, PayoutRows
    <2> QED BY <2>1, <2>2 DEF WebhooksAreTrue
  <1>7. RefundsHaveAReason'
    BY DEF TypeOK, RefundsHaveAReason, OneHandlerEach
  <1> QED BY <1>1, <1>2, <1>3, <1>4, <1>5, <1>6, <1>7

LEMMA AnsweredPreserves ==
  ASSUME IInv, NEW l \in Loops, NEW p \in Payouts, Answered(l, p)
  PROVE  IInv'
  <1> USE DEF IInv, Answered, NothingMoves, world, Busy, Idle
  <1>1. TypeOK'
    <2>1. payout' \in [Payouts -> PayoutRows]
      BY DEF TypeOK, PayoutRows, PayoutStatuses
    <2> QED BY <2>1 DEF TypeOK
  <1>2. JobsMakeSense'
    BY DEF TypeOK, JobsMakeSense
  <1>3. PostedOnce' /\ CapturesAreTrue'
    BY DEF PostedOnce, CapturesAreTrue
  <1>4. OneHandlerEach'
    <2>1. payout[p].status # "ABSENT"
      BY DEF TypeOK, SentIsDebited
    <2>2. /\ \A q \in Payouts : (payout'[q].status = "ABSENT") <=> (payout[q].status = "ABSENT")
          /\ job' = job /\ posted' = posted /\ transfer' = transfer
      BY <2>1 DEF TypeOK, PayoutRows
    <2> QED BY <2>2 DEF JobsMakeSense, OneHandlerEach
  <1>5. SentIsDebited'
    BY DEF TypeOK, JobsMakeSense, SentIsDebited, OneHandlerEach
  <1>6. WebhooksAreTrue'
    <2>1. \A q \in Payouts : payout'[q].status = "PROCESSED" => payout[q].status = "PROCESSED"
      BY DEF TypeOK, PayoutRows
    <2>2. job' = job /\ mail' = mail /\ transfer' = transfer
      OBVIOUS
    <2> QED BY <2>1, <2>2 DEF WebhooksAreTrue
  <1>7. RefundsHaveAReason'
    BY DEF TypeOK, RefundsHaveAReason, OneHandlerEach
  <1> QED BY <1>1, <1>2, <1>3, <1>4, <1>5, <1>6, <1>7

LEMMA ClosePreserves ==
  ASSUME IInv, NEW l \in Loops, Close(l)
  PROVE  IInv'
  <1> USE DEF IInv, Close, NothingMoves, world, Busy, Idle, Rests, Finishes, Acknowledged
  <1>1. TypeOK'
    BY IdleIsAJob, EventsOfPayments DEF TypeOK, JobsMakeSense, Jobs, PayoutRows,
      PayoutStatuses, NoEvent
  <1>2. JobsMakeSense'
    BY DEF TypeOK, JobsMakeSense
  <1>3. PostedOnce' /\ CapturesAreTrue'
    BY DEF PostedOnce, CapturesAreTrue
  <1>4. OneHandlerEach'
    <2>1. job[l].id \in Payouts /\ payout[job[l].id].status # "ABSENT"
      BY DEF JobsMakeSense, SentIsDebited
    <2>2. \A k \in Loops : job'[k].kind \in {"debit", "book"} => job'[k] = job[k]
      BY DEF TypeOK
    <2>3. /\ \A q \in Payouts : (payout'[q].status = "ABSENT") <=> (payout[q].status = "ABSENT")
          /\ posted' = posted /\ transfer' = transfer
      BY <2>1 DEF TypeOK, PayoutRows
    <2> QED BY <2>2, <2>3 DEF JobsMakeSense, OneHandlerEach
  <1>5. SentIsDebited'
    BY DEF TypeOK, JobsMakeSense, SentIsDebited, OneHandlerEach
  <1>6. WebhooksAreTrue'
    <2>1. \A k \in Loops : job'[k].kind = "settle" => job'[k] = job[k]
      BY DEF TypeOK
    <2>2. \A p \in Payouts : payout'[p].status = "PROCESSED" => payout[p].status = "PROCESSED"
      BY DEF TypeOK, PayoutRows
    <2>3. mail' \subseteq mail /\ transfer' = transfer
      OBVIOUS
    <2> QED BY <2>1, <2>2, <2>3 DEF WebhooksAreTrue
  <1>7. RefundsHaveAReason'
    BY DEF TypeOK, RefundsHaveAReason, OneHandlerEach
  <1> QED BY <1>1, <1>2, <1>3, <1>4, <1>5, <1>6, <1>7

LEMMA HearProcessedPreserves ==
  ASSUME IInv, NEW l \in Loops, NEW p \in Payouts, HearProcessed(l, p)
  PROVE  IInv'
  <1> USE DEF IInv, HearProcessed, NothingMoves, world, Busy, Idle, Continues, Acknowledged
  <1>1. TypeOK'
    BY IdleIsAJob, EventsOfPayments DEF TypeOK, JobsMakeSense, Jobs, IntentStatuses, NoEvent
  <1>2. JobsMakeSense'
    BY DEF TypeOK, JobsMakeSense
  <1>3. PostedOnce' /\ CapturesAreTrue'
    BY DEF PostedOnce, CapturesAreTrue
  <1>4. OneHandlerEach'
    BY DEF TypeOK, JobsMakeSense, OneHandlerEach, SentIsDebited
  <1>5. SentIsDebited'
    BY DEF TypeOK, JobsMakeSense, SentIsDebited, OneHandlerEach
  <1>6. WebhooksAreTrue'
    <2>1. \A k \in Loops : job'[k].kind = "settle" => job'[k] = job[k] \/ job'[k].id = p
      BY DEF TypeOK
    <2>2. /\ mail' \subseteq mail /\ transfer' = transfer /\ payout' = payout
          /\ <<"processed", p>> \in mail
      OBVIOUS
    <2> QED BY <2>1, <2>2 DEF WebhooksAreTrue
  <1>7. RefundsHaveAReason'
    BY DEF TypeOK, RefundsHaveAReason, OneHandlerEach
  <1> QED BY <1>1, <1>2, <1>3, <1>4, <1>5, <1>6, <1>7

LEMMA SettlePreserves ==
  ASSUME IInv, NEW l \in Loops, Settle(l)
  PROVE  IInv'
  <1> USE DEF IInv, Settle, NothingMoves, world, Busy, Idle, Rests, Finishes, Acknowledged
  <1>1. TypeOK'
    BY IdleIsAJob, EventsOfPayments DEF TypeOK, JobsMakeSense, Jobs, PayoutRows,
      PayoutStatuses, NoEvent
  <1>2. JobsMakeSense'
    BY DEF TypeOK, JobsMakeSense
  <1>3. PostedOnce' /\ CapturesAreTrue'
    BY DEF PostedOnce, CapturesAreTrue
  <1>4. OneHandlerEach'
    <2>1. job[l].id \in Payouts /\ payout[job[l].id].status # "ABSENT"
      BY DEF JobsMakeSense, SentIsDebited, WebhooksAreTrue
    <2>2. \A k \in Loops : job'[k].kind \in {"debit", "book"} => job'[k] = job[k]
      BY DEF TypeOK
    <2>3. /\ \A q \in Payouts : (payout'[q].status = "ABSENT") <=> (payout[q].status = "ABSENT")
          /\ posted' = posted /\ transfer' = transfer
      BY <2>1 DEF TypeOK, PayoutRows
    <2> QED BY <2>2, <2>3 DEF JobsMakeSense, OneHandlerEach
  <1>5. SentIsDebited'
    BY DEF TypeOK, JobsMakeSense, SentIsDebited, OneHandlerEach
  <1>6. WebhooksAreTrue'
    BY DEF TypeOK, JobsMakeSense, WebhooksAreTrue, OneHandlerEach
  <1>7. RefundsHaveAReason'
    BY DEF TypeOK, RefundsHaveAReason, OneHandlerEach
  <1> QED BY <1>1, <1>2, <1>3, <1>4, <1>5, <1>6, <1>7

LEMMA CrashPreserves ==
  ASSUME IInv, NEW l \in Loops, Crash(l)
  PROVE  IInv'
  <1> USE DEF IInv, Crash, NothingMoves, world, Busy, Idle, Rests
  <1>1. TypeOK'
    BY IdleIsAJob, EventsOfPayments DEF TypeOK, JobsMakeSense, Jobs, NoEvent
  <1>2. JobsMakeSense'
    BY DEF TypeOK, JobsMakeSense
  <1>3. PostedOnce' /\ CapturesAreTrue'
    BY DEF PostedOnce, CapturesAreTrue
  <1>4. OneHandlerEach'
    BY DEF TypeOK, JobsMakeSense, OneHandlerEach, SentIsDebited
  <1>5. SentIsDebited'
    BY DEF TypeOK, JobsMakeSense, SentIsDebited, OneHandlerEach
  <1>6. WebhooksAreTrue'
    BY DEF TypeOK, JobsMakeSense, WebhooksAreTrue, OneHandlerEach
  <1>7. RefundsHaveAReason'
    BY DEF TypeOK, RefundsHaveAReason, OneHandlerEach
  <1> QED BY <1>1, <1>2, <1>3, <1>4, <1>5, <1>6, <1>7

LEMMA DebitPreserves ==
  ASSUME IInv, NEW l \in Loops, Debit(l)
  PROVE  IInv'
  <1> DEFINE p == job[l].id
  <1> DEFINE key == <<"payout", p>>
  <1> USE DEF IInv
  <1>1. p \in Payouts /\ payout[p].status = "ABSENT" /\ job[l].kind = "debit"
    BY DEF Debit, Busy, JobsMakeSense, OneHandlerEach
  <1>2. transfer[p] = "none"
    BY <1>1 DEF SentIsDebited
  <1>3. /\ posted' \in [Keys -> Nat] /\ available' \in Nat /\ PostedOnce'
        /\ posted'[key] = 1
        /\ \A k \in Keys \ {key} : posted'[k] = posted[k]
    <2>1. Amount[p] \in Nat
      BY <1>1, AmountAssumption
    <2>2. -Amount[p] \in Int
      BY <2>1
    <2>3. key \in Keys
      BY <1>1, KeysOfPayments
    <2>4. Moves(key, -Amount[p])
      BY DEF Debit
    <2> QED BY <2>2, <2>3, <2>4, MovesPosts
  <1>4. /\ \A i \in Intents : posted'[<<"topup", i>>] = posted[<<"topup", i>>]
        /\ \A q \in Payouts :
             /\ posted'[<<"payout", q>>] = IF q = p THEN 1 ELSE posted[<<"payout", q>>]
             /\ posted'[<<"payout-reversal", q>>] = posted[<<"payout-reversal", q>>]
    BY <1>3, KeysOfPayments
  <1>5. /\ job' \in [Loops -> Jobs]
        /\ job'[l].kind = "book" /\ job'[l].id = p
        /\ \A k \in Loops \ {l} : job'[k] = job[k]
    <2>1. Continues(l, "book", p, "ABSENT", NoEvent)
      BY DEF Debit
    <2> QED BY <1>1, <2>1, ContinuesType DEF JobKinds, IntentStatuses
  <1>6. UNCHANGED <<intent, mail, awaiting, frozen, paid, transfer, reply>>
    BY DEF Debit, world
  <1>7. /\ payout' \in [Payouts -> PayoutRows]
        /\ payout'[p].status = "REQUESTED"
        /\ \A q \in Payouts \ {p} : payout'[q] = payout[q]
    BY <1>1 DEF Debit, TypeOK, PayoutRows, PayoutStatuses
  <1>8. TypeOK'
    BY <1>3, <1>5, <1>6, <1>7 DEF TypeOK
  <1>9. JobsMakeSense'
    BY <1>1, <1>5 DEF JobsMakeSense
  <1>10. CapturesAreTrue'
    BY <1>4, <1>6 DEF CapturesAreTrue
  <1>11. OneHandlerEach'
    <2>1. \A k \in Loops \ {l} : job[k].kind \in {"debit", "book"} => job[k].id # p
      BY <1>1 DEF OneHandlerEach
    <2>2. \A k \in Loops \ {l} : job[k].kind \in {"debit", "book"} => job[k].id \in Payouts
      BY DEF JobsMakeSense
    <2>3. \A j, k \in Loops :
            /\ job'[j].kind \in {"debit", "book"} /\ job'[k].kind \in {"debit", "book"}
            /\ job'[j].id = job'[k].id
            => j = k
      BY <1>5, <2>1 DEF OneHandlerEach
    <2>4. \A k \in Loops : job'[k].kind = "debit" => payout'[job'[k].id].status = "ABSENT"
      BY <1>5, <1>7, <2>1, <2>2 DEF OneHandlerEach
    <2>5. \A k \in Loops : job'[k].kind = "book" =>
            /\ payout'[job'[k].id].status # "ABSENT"
            /\ transfer'[job'[k].id] = "none"
            /\ posted'[<<"payout", job'[k].id>>] = 1
      <3> SUFFICES ASSUME NEW k \in Loops, job'[k].kind = "book"
                   PROVE  /\ payout'[job'[k].id].status # "ABSENT"
                          /\ transfer'[job'[k].id] = "none"
                          /\ posted'[<<"payout", job'[k].id>>] = 1
        OBVIOUS
      <3>1. CASE k = l
        BY <3>1, <1>1, <1>2, <1>4, <1>5, <1>6, <1>7
      <3>2. CASE k # l
        <4>1. job'[k] = job[k] /\ job[k].kind = "book"
          BY <3>2, <1>5
        <4>2. job[k].id \in Payouts /\ job[k].id # p
          BY <3>2, <4>1, <2>1, <2>2
        <4>3. /\ payout[job[k].id].status # "ABSENT"
              /\ transfer[job[k].id] = "none"
              /\ posted[<<"payout", job[k].id>>] = 1
          BY <4>1 DEF OneHandlerEach
        <4>4. posted'[<<"payout", job[k].id>>] = 1
          BY <4>2, <4>3, <1>4
        <4>5. payout'[job[k].id] = payout[job[k].id] /\ transfer' = transfer
          BY <4>2, <1>6, <1>7
        <4> QED BY <4>1, <4>3, <4>4, <4>5
      <3> QED BY <3>1, <3>2
    <2> QED BY <2>3, <2>4, <2>5 DEF OneHandlerEach
  <1>12. SentIsDebited'
    <2>1. \A q \in Payouts : transfer'[q] # "none" =>
            payout'[q].status # "ABSENT" /\ posted'[<<"payout", q>>] = 1
      BY <1>2, <1>4, <1>6, <1>7 DEF SentIsDebited
    <2>2. \A k \in Loops : job'[k].kind = "close" => job'[k] = job[k]
      BY <1>5
    <2> QED BY <2>1, <2>2, <1>6 DEF SentIsDebited
  <1>13. WebhooksAreTrue'
    <2>1. \A k \in Loops : job'[k].kind = "settle" => job'[k] = job[k]
      BY <1>5
    <2>2. \A q \in Payouts : payout'[q].status = "PROCESSED" => payout[q].status = "PROCESSED"
      BY <1>7
    <2> QED BY <2>1, <2>2, <1>6 DEF WebhooksAreTrue
  <1>14. RefundsHaveAReason'
    BY <1>4, <1>6 DEF RefundsHaveAReason
  <1> QED BY <1>3, <1>8, <1>9, <1>10, <1>11, <1>12, <1>13, <1>14

(* What putting a debit back keeps true: Errored and the webhook's handler *)
(* differ only in what made them do it.                                    *)
LEMMA RefundPreserves ==
  ASSUME IInv, NEW l \in Loops, NEW p \in Payouts, NEW e \in Events \cup {NoEvent},
         Moves(<<"payout-reversal", p>>, Amount[p]),
         Continues(l, "close", p, "ABSENT", e),
         UNCHANGED <<intent, payout, mail, world>>,
         awaiting' \subseteq awaiting,
         transfer[p] \in {"refused", "returned"} \/ reply[p] = "error",
         transfer[p] # "none"
  PROVE  IInv'
  <1> DEFINE key == <<"payout-reversal", p>>
  <1> USE DEF IInv
  <1>1. /\ posted' \in [Keys -> Nat] /\ available' \in Nat /\ PostedOnce'
        /\ \A k \in Keys \ {key} : posted'[k] = posted[k]
    <2>1. key \in Keys
      BY KeysOfPayments
    <2>2. Amount[p] \in Int
      BY AmountAssumption
    <2> QED BY <2>1, <2>2, MovesPosts
  <1>2. /\ \A i \in Intents : posted'[<<"topup", i>>] = posted[<<"topup", i>>]
        /\ \A q \in Payouts : posted'[<<"payout", q>>] = posted[<<"payout", q>>]
        /\ \A q \in Payouts \ {p} :
             posted'[<<"payout-reversal", q>>] = posted[<<"payout-reversal", q>>]
    BY <1>1, KeysOfPayments
  <1>3. /\ job' \in [Loops -> Jobs]
        /\ job'[l].kind = "close" /\ job'[l].id = p
        /\ \A k \in Loops \ {l} : job'[k] = job[k]
    BY ContinuesType DEF JobKinds, IntentStatuses
  <1>4. UNCHANGED <<intent, payout, mail, frozen, paid, transfer, reply>>
    BY DEF world
  <1>5. TypeOK'
    BY <1>1, <1>3, <1>4 DEF TypeOK
  <1>6. JobsMakeSense'
    BY <1>3 DEF JobsMakeSense
  <1>7. CapturesAreTrue'
    BY <1>2, <1>4 DEF CapturesAreTrue
  <1>8. OneHandlerEach'
    <2>1. \A k \in Loops :
            job'[k].kind \in {"debit", "book"} => job'[k] = job[k] /\ job[k].id \in Payouts
      BY <1>3 DEF JobsMakeSense
    <2>2. \A j, k \in Loops :
            /\ job'[j].kind \in {"debit", "book"} /\ job'[k].kind \in {"debit", "book"}
            /\ job'[j].id = job'[k].id
            => j = k
      BY <2>1 DEF OneHandlerEach
    <2>3. \A k \in Loops : job'[k].kind = "debit" => payout'[job'[k].id].status = "ABSENT"
      BY <2>1, <1>4 DEF OneHandlerEach
    <2>4. \A k \in Loops : job'[k].kind = "book" =>
            /\ payout'[job'[k].id].status # "ABSENT"
            /\ transfer'[job'[k].id] = "none"
            /\ posted'[<<"payout", job'[k].id>>] = 1
      BY <2>1, <1>2, <1>4 DEF OneHandlerEach
    <2> QED BY <2>2, <2>3, <2>4 DEF OneHandlerEach
  <1>9. SentIsDebited'
    <2>1. \A k \in Loops : job'[k].kind = "close" => transfer'[job'[k].id] # "none"
      BY <1>3, <1>4 DEF SentIsDebited
    <2> QED BY <2>1, <1>2, <1>4 DEF SentIsDebited
  <1>10. WebhooksAreTrue'
    <2>1. \A k \in Loops : job'[k].kind = "settle" => job'[k] = job[k]
      BY <1>3
    <2> QED BY <2>1, <1>4 DEF WebhooksAreTrue
  <1>11. RefundsHaveAReason'
    <2>1. posted'[<<"payout", p>>] = 1
      BY <1>2 DEF SentIsDebited
    <2> QED BY <2>1, <1>2, <1>4 DEF RefundsHaveAReason
  <1> QED BY <1>1, <1>5, <1>6, <1>7, <1>8, <1>9, <1>10, <1>11

LEMMA ErroredPreserves ==
  ASSUME IInv, NEW l \in Loops, NEW p \in Payouts, Errored(l, p)
  PROVE  IInv'
  <1>1. transfer[p] # "none"
    BY DEF IInv, SentIsDebited, Errored
  <1>2. /\ Moves(<<"payout-reversal", p>>, Amount[p])
        /\ Continues(l, "close", p, "ABSENT", NoEvent)
        /\ UNCHANGED <<intent, payout, mail, world>>
        /\ awaiting' \subseteq awaiting
        /\ reply[p] = "error"
    BY DEF Errored
  <1> QED BY <1>1, <1>2, RefundPreserves

LEMMA HearReturnPreserves ==
  ASSUME IInv, NEW l \in Loops, NEW p \in Payouts, HearReturn(l, p)
  PROVE  IInv'
  <1>1. CASE payout[p].known /\ payout[p].status # "FAILED"
    <2>1. transfer[p] = "returned"
      BY DEF IInv, WebhooksAreTrue, HearReturn
    <2>2. /\ Moves(<<"payout-reversal", p>>, Amount[p])
          /\ Continues(l, "close", p, "ABSENT", <<"returned", p>>)
          /\ UNCHANGED <<intent, payout, mail, world>>
          /\ awaiting' \subseteq awaiting
      BY <1>1 DEF HearReturn
    <2> QED BY <2>1, <2>2, RefundPreserves, EventsOfPayments
  <1>2. CASE ~(payout[p].known /\ payout[p].status # "FAILED")
    <2>1. /\ mail' \subseteq mail
          /\ UNCHANGED <<intent, payout, posted, available, frozen, paid, transfer, reply, job,
                      awaiting>>
      BY <1>2 DEF HearReturn, Acknowledged, NothingMoves, world
    <2> QED BY <2>1 DEF IInv, TypeOK, JobsMakeSense, PostedOnce, CapturesAreTrue, OneHandlerEach,
              SentIsDebited, WebhooksAreTrue, RefundsHaveAReason
  <1> QED BY <1>1, <1>2

LEMMA CannotReturnPreserves ==
  ASSUME IInv, NEW l \in Loops, NEW p \in Payouts, CannotReturn(l, p)
  PROVE  IInv'
  <1>1. /\ UNCHANGED <<intent, payout, posted, available, mail, job, world>>
        /\ awaiting' \subseteq awaiting
    BY DEF CannotReturn, NothingMoves
  <1> QED BY <1>1 DEF IInv, world, TypeOK, JobsMakeSense, PostedOnce, CapturesAreTrue,
            OneHandlerEach, SentIsDebited, WebhooksAreTrue, RefundsHaveAReason

LEMMA FreezePreserves ==
  ASSUME IInv, Freeze
  PROVE  IInv'
  BY DEF IInv, Freeze, NothingMoves, TypeOK, JobsMakeSense, PostedOnce, CapturesAreTrue,
      OneHandlerEach, SentIsDebited, WebhooksAreTrue, RefundsHaveAReason

(* What the provider and the user do: the loops and the ledger stay as     *)
(* they are.                                                               *)
LEMMA PayPreserves ==
  ASSUME IInv, NEW i \in Intents, NEW n \in Offers, Pay(i, n)
  PROVE  IInv'
  <1> USE DEF IInv, Pay, NothingMoves
  <1>1. <<"captured", i, n>> \in Events
    BY EventsOfPayments
  <1>2. TypeOK'
    BY <1>1 DEF TypeOK
  <1>3. CapturesAreTrue'
    <2>1. \A j \in Intents : paid[j] \subseteq paid'[j]
      BY DEF TypeOK
    <2>2. n \in paid'[i] /\ intent[i].status # "ABSENT"
      BY DEF TypeOK
    <2>3. /\ UNCHANGED <<intent, posted>>
          /\ mail' = mail \cup {<<"captured", i, n>>}
      OBVIOUS
    <2> QED BY <2>1, <2>2, <2>3 DEF CapturesAreTrue
  <1>4. JobsMakeSense' /\ PostedOnce' /\ OneHandlerEach'
    BY DEF JobsMakeSense, PostedOnce, OneHandlerEach
  <1>5. SentIsDebited' /\ RefundsHaveAReason'
    BY DEF SentIsDebited, RefundsHaveAReason
  <1>6. WebhooksAreTrue'
    BY DEF WebhooksAreTrue
  <1> QED BY <1>2, <1>3, <1>4, <1>5, <1>6

LEMMA PaymentFailsPreserves ==
  ASSUME IInv, NEW i \in Intents, PaymentFails(i)
  PROVE  IInv'
  <1> USE DEF IInv, PaymentFails, NothingMoves, world
  <1>1. <<"failed", i>> \in Events
    BY EventsOfPayments
  <1>2. TypeOK'
    BY <1>1 DEF TypeOK
  <1>3. CapturesAreTrue'
    BY DEF CapturesAreTrue
  <1>4. JobsMakeSense' /\ PostedOnce' /\ OneHandlerEach'
    BY DEF JobsMakeSense, PostedOnce, OneHandlerEach
  <1>5. SentIsDebited' /\ RefundsHaveAReason'
    BY DEF SentIsDebited, RefundsHaveAReason
  <1>6. WebhooksAreTrue'
    BY DEF WebhooksAreTrue
  <1> QED BY <1>2, <1>3, <1>4, <1>5, <1>6

TransferStates == {"none", "asked", "accepted", "refused", "processed", "returned"}

(* A transfer that was asked for moves on, and what is known of it with it.*)
LEMMA TransferPreserves ==
  ASSUME IInv, NEW p \in Payouts, NEW from, NEW to \in TransferStates \ {"none", "asked"},
         "none" \notin from, "returned" \notin from,
         "processed" \in from => to = "returned",
         Sends(p, from, to),
         reply' \in [Payouts -> {"none", "id", "error"}],
         \A q \in Payouts : reply'[q] = reply[q] \/ (q = p /\ reply[p] = "none"),
         mail' = mail \/ (mail' = mail \cup {<<to, p>>} /\ to \in {"processed", "returned"}),
         to = "returned" \/ transfer[p] # "refused"
  PROVE  IInv'
  <1> USE DEF IInv
  <1>1. UNCHANGED <<intent, payout, posted, available, frozen, paid, job, awaiting>>
    BY DEF Sends, NothingMoves
  <1>2. /\ transfer' \in [Payouts -> TransferStates]
        /\ transfer[p] \in from /\ transfer[p] # "none"
        /\ transfer'[p] = to
        /\ \A q \in Payouts \ {p} : transfer'[q] = transfer[q]
    BY DEF Sends, TypeOK, TransferStates
  <1>3. mail' \subseteq Events
    <2>1. mail \subseteq Events
      BY DEF TypeOK
    <2>2. to \in {"processed", "returned"} => <<to, p>> \in Events
      BY EventsOfPayments
    <2> QED BY <2>1, <2>2
  <1>4. TypeOK'
    BY <1>1, <1>2, <1>3 DEF TypeOK, TransferStates
  <1>5. JobsMakeSense' /\ PostedOnce'
    BY <1>1 DEF JobsMakeSense, PostedOnce
  <1>6. CapturesAreTrue'
    BY <1>1 DEF CapturesAreTrue
  <1>7. OneHandlerEach'
    BY <1>1, <1>2 DEF JobsMakeSense, OneHandlerEach
  <1>8. SentIsDebited'
    BY <1>1, <1>2 DEF JobsMakeSense, SentIsDebited
  <1>9. WebhooksAreTrue'
    <2> SUFFICES ASSUME NEW q \in Payouts
                 PROVE  /\ <<"returned", q>> \in mail' => transfer'[q] = "returned"
                        /\ \/ <<"processed", q>> \in mail'
                           \/ \E l \in Loops : job'[l].kind = "settle" /\ job'[l].id = q
                           \/ payout'[q].status = "PROCESSED"
                           => transfer'[q] \in {"processed", "returned"}
      BY DEF WebhooksAreTrue
    <2>1. <<"returned", q>> \in mail => transfer[q] = "returned"
      BY DEF WebhooksAreTrue
    <2>2. \/ <<"processed", q>> \in mail
          \/ \E l \in Loops : job[l].kind = "settle" /\ job[l].id = q
          \/ payout[q].status = "PROCESSED"
          => transfer[q] \in {"processed", "returned"}
      BY DEF WebhooksAreTrue
    <2>3. CASE q # p
      <3>1. <<"returned", q>> \in mail' <=> <<"returned", q>> \in mail
        BY <2>3
      <3>2. <<"processed", q>> \in mail' <=> <<"processed", q>> \in mail
        BY <2>3
      <3> QED BY <2>1, <2>2, <2>3, <3>1, <3>2, <1>1, <1>2
    <2>4. CASE q = p
      <3>1. <<"returned", q>> \in mail' => to = "returned"
        BY <2>1, <2>4, <1>2
      <3>2. <<"processed", q>> \in mail' => <<"processed", q>> \in mail \/ to = "processed"
        BY <2>4
      <3> QED BY <2>2, <2>4, <3>1, <3>2, <1>1, <1>2
    <2> QED BY <2>3, <2>4
  <1>10. RefundsHaveAReason'
    BY <1>1, <1>2 DEF RefundsHaveAReason
  <1> QED BY <1>4, <1>5, <1>6, <1>7, <1>8, <1>9, <1>10

LEMMA ProviderPreserves ==
  ASSUME IInv, Provider
  PROVE  IInv'
  <1>1. ASSUME NEW i \in Intents, \/ \E n \in Offers : Pay(i, n)
                                  \/ PaymentFails(i)
        PROVE  IInv'
    BY <1>1, PayPreserves, PaymentFailsPreserves
  <1>2. ASSUME NEW p \in Payouts, NEW answer \in {"id", "error"}, Accept(p, answer)
        PROVE  IInv'
    <2>1. reply[p] = "none"
      BY <1>2 DEF IInv, TypeOK, SentIsDebited, Accept, Sends
    <2>2. /\ Sends(p, {"asked"}, "accepted") /\ mail' = mail
          /\ transfer[p] = "asked"
      BY <1>2 DEF Accept, Sends
    <2>3. /\ reply' \in [Payouts -> {"none", "id", "error"}]
          /\ \A q \in Payouts : reply'[q] = reply[q] \/ q = p
      BY <1>2 DEF IInv, TypeOK, Accept
    <2>4. /\ "accepted" \in TransferStates \ {"none", "asked"}
          /\ "none" \notin {"asked"} /\ "returned" \notin {"asked"}
          /\ "processed" \in {"asked"} => "accepted" = "returned"
          /\ "accepted" = "returned" \/ transfer[p] # "refused"
      BY <2>2 DEF TransferStates
    <2>5. \A q \in Payouts : reply'[q] = reply[q] \/ (q = p /\ reply[p] = "none")
      BY <2>1, <2>3
    <2>6. \/ mail' = mail
          \/ mail' = mail \cup {<<"accepted", p>>} /\ "accepted" \in {"processed", "returned"}
      BY <2>2
    <2> QED BY <2>2, <2>3, <2>4, <2>5, <2>6, TransferPreserves
  <1>3. ASSUME NEW p \in Payouts, Refuse(p)
        PROVE  IInv'
    <2>1. reply[p] = "none"
      BY <1>3 DEF IInv, TypeOK, SentIsDebited, Refuse, Sends
    <2>2. /\ Sends(p, {"asked"}, "refused") /\ mail' = mail
          /\ transfer[p] = "asked"
      BY <1>3 DEF Refuse, Sends
    <2>3. /\ reply' \in [Payouts -> {"none", "id", "error"}]
          /\ \A q \in Payouts : reply'[q] = reply[q] \/ q = p
      BY <1>3 DEF IInv, TypeOK, Refuse
    <2>4. /\ "refused" \in TransferStates \ {"none", "asked"}
          /\ "none" \notin {"asked"} /\ "returned" \notin {"asked"}
          /\ "processed" \in {"asked"} => "refused" = "returned"
          /\ "refused" = "returned" \/ transfer[p] # "refused"
      BY <2>2 DEF TransferStates
    <2>5. \A q \in Payouts : reply'[q] = reply[q] \/ (q = p /\ reply[p] = "none")
      BY <2>1, <2>3
    <2>6. \/ mail' = mail
          \/ mail' = mail \cup {<<"refused", p>>} /\ "refused" \in {"processed", "returned"}
      BY <2>2
    <2> QED BY <2>2, <2>3, <2>4, <2>5, <2>6, TransferPreserves
  <1>4. ASSUME NEW p \in Payouts, Process(p)
        PROVE  IInv'
    <2>1. /\ Sends(p, {"accepted"}, "processed") /\ mail' = mail \cup {<<"processed", p>>}
          /\ transfer[p] = "accepted" /\ reply' = reply
      BY <1>4 DEF Process, Sends
    <2>2. reply' \in [Payouts -> {"none", "id", "error"}]
      BY <2>1 DEF IInv, TypeOK
    <2>4. /\ "processed" \in TransferStates \ {"none", "asked"}
          /\ "none" \notin {"accepted"} /\ "returned" \notin {"accepted"}
          /\ "processed" \in {"accepted"} => "processed" = "returned"
          /\ "processed" = "returned" \/ transfer[p] # "refused"
      BY <2>1 DEF TransferStates
    <2>5. \A q \in Payouts : reply'[q] = reply[q] \/ (q = p /\ reply[p] = "none")
      BY <2>1
    <2>6. \/ mail' = mail
          \/ mail' = mail \cup {<<"processed", p>>} /\ "processed" \in {"processed", "returned"}
      BY <2>1
    <2> QED BY <2>1, <2>2, <2>4, <2>5, <2>6, TransferPreserves
  <1>5. ASSUME NEW p \in Payouts, Return(p)
        PROVE  IInv'
    <2>1. /\ Sends(p, {"accepted", "processed"}, "returned")
          /\ mail' = mail \cup {<<"returned", p>>} /\ reply' = reply
      BY <1>5 DEF Return
    <2>2. reply' \in [Payouts -> {"none", "id", "error"}]
      BY <2>1 DEF IInv, TypeOK
    <2>4. /\ "returned" \in TransferStates \ {"none", "asked"}
          /\ "none" \notin {"accepted", "processed"} /\ "returned" \notin {"accepted", "processed"}
          /\ "processed" \in {"accepted", "processed"} => "returned" = "returned"
          /\ "returned" = "returned" \/ transfer[p] # "refused"
      BY <2>1 DEF TransferStates
    <2>5. \A q \in Payouts : reply'[q] = reply[q] \/ (q = p /\ reply[p] = "none")
      BY <2>1
    <2>6. \/ mail' = mail
          \/ mail' = mail \cup {<<"returned", p>>} /\ "returned" \in {"processed", "returned"}
      BY <2>1
    <2> QED BY <2>1, <2>2, <2>4, <2>5, <2>6, TransferPreserves
  <1> QED BY <1>1, <1>2, <1>3, <1>4, <1>5 DEF Provider

LEMMA NextPreserves == IInv /\ [Next]_vars => IInv'
  <1> SUFFICES ASSUME IInv, [Next]_vars PROVE IInv'
    OBVIOUS
  <1>1. ASSUME NEW l \in Loops, Starts(l)
        PROVE  IInv'
    BY <1>1, StartTopUpPreserves, AlreadyCreditedPreserves, CreditPreserves,
       MismatchPreserves, HearFailurePreserves, RequestPayoutPreserves, AnsweredPreserves,
       ErroredPreserves, CannotReturnPreserves, HearReturnPreserves, HearProcessedPreserves
    DEF Starts
  <1>2. ASSUME NEW l \in Loops, Runs(l)
        PROVE  IInv'
    BY <1>2, MarkPreserves, FailPreserves, DebitPreserves, CannotDebitPreserves,
       BookPreserves, ClosePreserves, SettlePreserves
    DEF Runs
  <1>3. CASE UNCHANGED vars
    BY <1>3 DEF vars, IInv, TypeOK, JobsMakeSense, PostedOnce, CapturesAreTrue,
      OneHandlerEach, SentIsDebited, WebhooksAreTrue, RefundsHaveAReason
  <1> QED BY <1>1, <1>2, <1>3, CrashPreserves, ProviderPreserves, FreezePreserves DEF Next

LEMMA Invariance == Spec => []IInv
  BY InitIInv, NextPreserves, PTL DEF Spec

-----------------------------------------------------------------------------
(* The state stays well-typed, for any payments and any server processes;  *)
(* in particular the balance never goes below zero.                        *)
THEOREM PaymentsTypeCorrect == Spec => []TypeOK
  <1>1. IInv => TypeOK
    BY DEF IInv
  <1> QED BY <1>1, Invariance, PTL

(* confirm_top_up(): an intent is credited at most once, and only if the   *)
(* amount it records was paid against its order, however often webhooks    *)
(* repeat and processes die.                                               *)
THEOREM CreditsArePaid == Spec => []CreditedOnceIfPaid
  <1>1. IInv => CreditedOnceIfPaid
    <2> SUFFICES ASSUME IInv, NEW i \in Intents
                 PROVE  posted[<<"topup", i>>] <= IF intent[i].amount \in paid[i] THEN 1 ELSE 0
      BY DEF CreditedOnceIfPaid
    <2>1. <<"topup", i>> \in Keys
      BY KeysOfPayments
    <2>2. posted[<<"topup", i>>] \in Nat /\ posted[<<"topup", i>>] <= 1
      BY <2>1 DEF IInv, TypeOK, PostedOnce
    <2>3. posted[<<"topup", i>>] > 0 => intent[i].amount \in paid[i]
      BY DEF IInv, CapturesAreTrue
    <2> QED BY <2>2, <2>3
  <1> QED BY <1>1, Invariance, PTL

(* request_payout(): the provider is asked for nothing that the user has   *)
(* not been debited for, exactly once.                                     *)
THEOREM DebitsComeFirst == Spec => []DebitedBeforeSent
  <1>1. IInv => DebitedBeforeSent
    BY DEF IInv, SentIsDebited, DebitedBeforeSent
  <1> QED BY <1>1, Invariance, PTL

(* reverse_payout(): a debit is put back at most once, and only for a      *)
(* payout that was returned or whose request failed.                       *)
THEOREM RefundsAreDue == Spec => []RefundedOnceIfFailed
  <1>1. IInv => RefundedOnceIfFailed
    <2> SUFFICES ASSUME IInv, NEW p \in Payouts
                 PROVE  posted[<<"payout-reversal", p>>] <=
                          IF transfer[p] \in {"refused", "returned"} \/ reply[p] = "error"
                          THEN posted[<<"payout", p>>] ELSE 0
      BY DEF RefundedOnceIfFailed
    <2>1. <<"payout-reversal", p>> \in Keys /\ <<"payout", p>> \in Keys
      BY KeysOfPayments
    <2>2. /\ posted[<<"payout-reversal", p>>] \in Nat /\ posted[<<"payout-reversal", p>>] <= 1
          /\ posted[<<"payout", p>>] \in Nat
      BY <2>1 DEF IInv, TypeOK, PostedOnce
    <2>3. posted[<<"payout-reversal", p>>] > 0 =>
            /\ posted[<<"payout", p>>] = 1
            /\ transfer[p] \in {"refused", "returned"} \/ reply[p] = "error"
      BY DEF IInv, RefundsHaveAReason
    <2> QED BY <2>2, <2>3
  <1> QED BY <1>1, Invariance, PTL

(* An answer that is an error comes from a provider that did not accept    *)
(* the payout: it is never the accepted payout's answer that got lost.     *)
ErrorsAreRefusals == \A p \in Payouts : reply[p] = "error" => transfer[p] = "refused"

(* request_payout() puts the debit back on any error, and reverse_payout() *)
(* when the bank returns the money.  No payout that the bank processed is  *)
(* put back unless an accepted payout's answer was lost: with every other  *)
(* order of webhooks, repeats and crashes the promise holds.               *)
THEOREM OnlyLostAnswersPayTwice == Spec /\ []ErrorsAreRefusals => []NotPaidAndRefunded
  <1>1. IInv /\ ErrorsAreRefusals => NotPaidAndRefunded
    BY DEF IInv, RefundsHaveAReason, ErrorsAreRefusals, NotPaidAndRefunded
  <1> QED BY <1>1, Invariance, PTL

(* mark_processed(): a payout is shown as landed only when the bank has    *)
(* processed it.                                                           *)
THEOREM LandedIsLanded == Spec => []ProcessedIsProcessed
  <1>1. IInv => ProcessedIsProcessed
    BY DEF IInv, WebhooksAreTrue, ProcessedIsProcessed
  <1> QED BY <1>1, Invariance, PTL

-----------------------------------------------------------------------------
(* Where money may be paid out, for any number of requests, destinations   *)
(* and payouts, any names and any limit.                                   *)
(*                                                                         *)
(* Whose account is paid does not depend on how requests are served: a row *)
(* never changes once it is there.  The single default and the daily limit *)
(* rest on there being one event loop, as in one server process: between   *)
(* what a coroutine reads and what it commits, no other one runs.          *)

(* One server process serves every request.                                *)
OneProcess == \A t, u \in Tasks : LoopOf[t] = LoopOf[u]

(* What a request that has heard from the bank is about to write of the    *)
(* destination, the bank has said of its owner.                            *)
AnswersAreTheBanks ==
  \A t \in Tasks : task[t].at \in {"choose", "add"} =>
    /\ task[t].status # "ABSENT"
    /\ task[t].status = "VERIFIED" =>
         Matches(task[t].name, Owner(task[t].to, task[t].holder))

(* A destination is verified only for an owner whose name matched.         *)
VerifiedMatches ==
  \A d \in Destinations :
    rows[d].status = "VERIFIED" => Matches(rows[d].name, Owner(d, rows[d].holder))

(* Money is only on its way to verified destinations.                      *)
DebitsAreForVerified ==
  \A t \in Tasks : task[t].at = "debit" => rows[task[t].to].status = "VERIFIED"

OwnInv ==
  /\ AnswersAreTheBanks
  /\ VerifiedMatches
  /\ DebitsAreForVerified
  /\ PaidToTheirOwn

(* Past its last await a request runs to its commit before any other does. *)
Running(t) == task[t].at \in {"choose", "add", "debit"}
OneRuns == \A t, u \in Tasks : Running(t) /\ Running(u) => t = u

(* A default is a row that is there.                                       *)
DefaultsExist == \A d \in Destinations : rows[d].is_default => rows[d].status # "ABSENT"

(* Whether there was a default yet is still true when it is acted on.      *)
ChoicesStand ==
  \A t \in Tasks : task[t].at = "add" =>
    (task[t].is_default <=> Defaults(KindOf[task[t].to]) = {})

(* A payout that counts as failed has come back.                           *)
FailedCameBack ==
  \A p \in DOMAIN payouts : payouts[p].status = "FAILED" => payouts[p].returned

(* The payouts whose money is out, and room for the one being debited.     *)
Out == {p \in DOMAIN payouts : ~payouts[p].returned}
RoomForDebit ==
  \A t \in Tasks : task[t].at = "debit" => Cardinality(Out) + 1 <= PayoutsPerDay

LoopInv ==
  /\ OneRuns
  /\ AnswersAreTheBanks
  /\ DefaultsExist
  /\ ChoicesStand
  /\ FailedCameBack
  /\ RoomForDebit
  /\ OneDefaultEach
  /\ WithinDailyLimit

-----------------------------------------------------------------------------
(* Types.                                                                  *)

(* A request that does nothing is in the state of one.                     *)
LEMMA IdleType ==
  ASSUME profile \in Names
  PROVE  /\ AnyName \in Names /\ AnyHolder \in Holders /\ NoTask \in TaskStates
         /\ NoTask.at = "idle" /\ NoTask.payout = 0 /\ NoTask.status = "ABSENT"
  <1>1. AnyName \in Names
    BY DEF AnyName
  <1>2. (CHOOSE d \in Destinations : TRUE) \in Destinations
    BY DestinationsAssumption
  <1>3. AnyHolder \in Holders
    BY WordsAssumption DEF AnyHolder
  <1> QED BY <1>1, <1>2, <1>3 DEF NoTask, TaskStates, Steps, Waiting, AccountStatuses

(* The next state of one request leaves every other's alone.               *)
LEMMA GoesOn ==
  ASSUME task \in [Tasks -> TaskStates], NEW t \in Tasks, NEW st \in TaskStates, Goes(t, st)
  PROVE  /\ task' \in [Tasks -> TaskStates]
         /\ task'[t] = st
         /\ \A u \in Tasks \ {t} : task'[u] = task[u]
  BY DEF Goes

(* Verdicts are statuses; a positive one is for a name that matched.       *)
LEMMA VerdictType ==
  ASSUME NEW d, NEW name, NEW holder, NEW owner \in Answers(d, holder)
  PROVE  /\ Verdict(d, name, owner) \in AccountStatuses \ {"ABSENT"}
         /\ Verdict(d, name, owner) = "VERIFIED" => Matches(name, Owner(d, holder))
  <1>1. Verdict(d, name, owner) \in AccountStatuses \ {"ABSENT"}
    BY DEF Verdict, AccountStatuses
  <1>2. owner # <<>> => owner = Owner(d, holder)
    BY DEF Answers
  <1> QED BY <1>1, <1>2 DEF Verdict

(* A reversed payout is a payout to the same destination.                  *)
LEMMA ReversedType ==
  ASSUME NEW p \in PayoutRequests
  PROVE  /\ Reversed(p) \in PayoutRequests
         /\ Reversed(p).to = p.to /\ Reversed(p).returned
  BY DEF Reversed, PayoutRequests

(* What each step makes of a request is a state of a request.              *)
LEMMA NextStates ==
  ASSUME DestinationsTypeOK, NEW t \in Tasks
  PROVE  /\ \A d \in Destinations : \A name \in Names :
           \A holder \in Holders : \A step \in {"lookup", "awaiting"} :
              [NoTask EXCEPT !.at = step, !.to = d, !.name = name, !.holder = holder]
                \in TaskStates
         /\ [task[t] EXCEPT !.at = "awaiting"] \in TaskStates
         /\ \A d \in Destinations : [NoTask EXCEPT !.at = "debit", !.to = d] \in TaskStates
         /\ \A st \in AccountStatuses :
              [task[t] EXCEPT !.at = "choose", !.status = st] \in TaskStates
         /\ \A b \in BOOLEAN :
              [task[t] EXCEPT !.at = "add", !.is_default = b] \in TaskStates
         /\ \A n \in Nat : [task[t] EXCEPT !.at = "sent", !.payout = n] \in TaskStates
  <1>1. NoTask \in TaskStates /\ task[t] \in TaskStates
    BY IdleType DEF DestinationsTypeOK
  <1> QED BY <1>1 DEF TaskStates, Steps, Waiting

(* Every step keeps the types.                                             *)
LEMMA TypePreserved == DestinationsTypeOK /\ [DestinationsNext]_destinationVars => DestinationsTypeOK'
  <1> SUFFICES ASSUME DestinationsTypeOK, [DestinationsNext]_destinationVars PROVE DestinationsTypeOK'
    OBVIOUS
  <1>0. /\ profile \in Names /\ rows \in [Destinations -> AccountRows]
        /\ payouts \in Seq(PayoutRequests) /\ Len(payouts) \in Nat
        /\ DOMAIN payouts = 1..Len(payouts)
        /\ task \in [Tasks -> TaskStates]
        /\ \A t \in Tasks : task[t].at = "sent" => task[t].payout \in DOMAIN payouts
        /\ NoTask \in TaskStates /\ NoTask.at = "idle"
    BY IdleType DEF DestinationsTypeOK
  <1>1. \A p \in DOMAIN payouts : payouts[p] \in PayoutRequests
    BY <1>0
  \* One request goes on, and no payout is forgotten.
  <1>2. ASSUME NEW t \in Tasks, NEW st \in TaskStates, Goes(t, st), UNCHANGED profile,
               rows' \in [Destinations -> AccountRows], payouts' \in Seq(PayoutRequests),
               DOMAIN payouts \subseteq DOMAIN payouts',
               st.at = "sent" => st.payout \in DOMAIN payouts'
        PROVE  DestinationsTypeOK'
    BY <1>0, <1>2, GoesOn DEF DestinationsTypeOK
  \* One payout changes its status.
  <1>3. ASSUME NEW p \in DOMAIN payouts, NEW row \in PayoutRequests,
               payouts' = [payouts EXCEPT ![p] = row]
        PROVE  payouts' \in Seq(PayoutRequests) /\ DOMAIN payouts' = DOMAIN payouts
    BY <1>0, <1>3
  <1>4. ASSUME NEW name \in Names, Rename(name) PROVE DestinationsTypeOK'
    BY <1>0, <1>4 DEF Rename, DestinationsTypeOK
  <1>5. ASSUME NEW t \in Tasks, NEW d \in Destinations, NEW holder \in Holders,
               AskBank(t, d, holder) \/ AskUpi(t, d, holder)
        PROVE  DestinationsTypeOK'
    <2>1. PICK step \in {"lookup", "awaiting"} :
            /\ Goes(t, [NoTask EXCEPT !.at = step, !.to = d, !.name = profile,
                                      !.holder = holder])
            /\ UNCHANGED <<profile, rows, payouts>>
      BY <1>5 DEF AskBank, AskUpi
    <2> DEFINE st == [NoTask EXCEPT !.at = step, !.to = d, !.name = profile, !.holder = holder]
    <2>2. st \in TaskStates /\ st.at # "sent"
      BY <1>0, NextStates DEF TaskStates
    <2>3. Goes(t, st)
      BY <2>1
    <2> HIDE DEF st
    <2> QED BY <1>0, <1>2, <2>1, <2>2, <2>3
  <1>6. ASSUME NEW t \in Tasks, NEW d \in Destinations, AskPayout(t, d) PROVE DestinationsTypeOK'
    <2> DEFINE st == [NoTask EXCEPT !.at = "debit", !.to = d]
    <2>1. st \in TaskStates /\ st.at = "debit"
      BY <1>0, NextStates DEF TaskStates
    <2>2. Goes(t, st) /\ UNCHANGED <<profile, rows, payouts>>
      BY <1>6 DEF AskPayout
    <2> HIDE DEF st
    <2> QED BY <1>0, <1>2, <2>1, <2>2
  <1>7. ASSUME NEW t \in Tasks, Learn(t) \/ LearnNothing(t) PROVE DestinationsTypeOK'
    <2>1. PICK s \in AccountStatuses :
            /\ Goes(t, [task[t] EXCEPT !.at = "choose", !.status = s])
            /\ UNCHANGED <<profile, rows, payouts>>
      BY <1>7, VerdictType DEF Learn, LearnNothing, AccountStatuses
    <2> DEFINE st == [task[t] EXCEPT !.at = "choose", !.status = s]
    <2>2. st \in TaskStates /\ st.at = "choose"
      BY <1>0, NextStates DEF TaskStates
    <2> HIDE DEF st
    <2> QED BY <1>0, <1>2, <2>1, <2>2 DEF st
  <1>8. ASSUME NEW t \in Tasks, ChooseDefault(t) PROVE DestinationsTypeOK'
    <2> DEFINE st == [task[t] EXCEPT !.at = "add",
                        !.is_default = Defaults(KindOf[task[t].to]) = {}]
    <2>1. st \in TaskStates /\ st.at = "add"
      BY <1>0, NextStates DEF TaskStates
    <2>2. Goes(t, st) /\ UNCHANGED <<profile, rows, payouts>>
      BY <1>8 DEF ChooseDefault
    <2> HIDE DEF st
    <2> QED BY <1>0, <1>2, <2>1, <2>2
  <1>9. ASSUME NEW t \in Tasks, CommitAdd(t) PROVE DestinationsTypeOK'
    <2>1. [status |-> task[t].status, is_default |-> task[t].is_default,
           name |-> task[t].name, holder |-> task[t].holder] \in AccountRows
      BY <1>0 DEF TaskStates, AccountRows
    <2>2. rows' \in [Destinations -> AccountRows]
      BY <1>0, <1>9, <2>1 DEF CommitAdd
    <2>3. Goes(t, NoTask) /\ UNCHANGED <<profile, payouts>>
      BY <1>9 DEF CommitAdd
    <2> QED BY <1>0, <1>2, <2>2, <2>3
  <1>10. ASSUME NEW t \in Tasks, CommitDebit(t) PROVE DestinationsTypeOK'
    <2> DEFINE row == [to |-> task[t].to, status |-> "REQUESTED", known |-> FALSE,
                       returned |-> FALSE]
               st == [task[t] EXCEPT !.at = "sent", !.payout = Len(payouts) + 1]
    <2>1. row \in PayoutRequests
      BY <1>0 DEF TaskStates, PayoutRequests
    <2>2. st \in TaskStates /\ st.payout = Len(payouts) + 1
      <3>1. Len(payouts) + 1 \in Nat
        BY <1>0
      <3>2. st \in TaskStates
        BY <3>1, NextStates
      <3> QED BY <1>0, <3>2 DEF TaskStates
    <2>3. Goes(t, st) /\ payouts' = Append(payouts, row) /\ UNCHANGED <<profile, rows>>
      BY <1>10 DEF CommitDebit
    <2> HIDE DEF row, st
    <2>4. payouts' \in Seq(PayoutRequests) /\ DOMAIN payouts' = 1..(Len(payouts) + 1)
      BY <1>0, <2>1, <2>3
    <2> QED BY <1>0, <1>2, <2>2, <2>3, <2>4
  <1>11. ASSUME NEW t \in Tasks, NEW taken \in BOOLEAN, Conclude(t, taken) PROVE DestinationsTypeOK'
    <2> DEFINE p == task[t].payout
    <2>1. p \in DOMAIN payouts /\ payouts[p] \in PayoutRequests
      BY <1>0, <1>1, <1>11 DEF Conclude
    <2>2. PICK row \in PayoutRequests : payouts' = [payouts EXCEPT ![p] = row]
      <3>1. CASE taken
        <4>1. [payouts[p] EXCEPT !.status = "PROCESSING", !.known = TRUE] \in PayoutRequests
          BY <2>1 DEF PayoutRequests
        <4> QED BY <1>11, <3>1, <4>1 DEF Conclude
      <3>2. CASE ~taken
        BY <1>11, <2>1, <3>2, ReversedType DEF Conclude
      <3> QED BY <3>1, <3>2
    <2>3. Goes(t, NoTask) /\ UNCHANGED <<profile, rows>>
      BY <1>11 DEF Conclude
    <2> HIDE DEF p
    <2> QED BY <1>0, <1>2, <1>3, <2>1, <2>2, <2>3
  <1>12. ASSUME NEW p \in DOMAIN payouts, SettlePayout(p) \/ ReversePayout(p) PROVE DestinationsTypeOK'
    <2>1. PICK row \in PayoutRequests : payouts' = [payouts EXCEPT ![p] = row]
      <3>1. [payouts[p] EXCEPT !.status = "PROCESSED"] \in PayoutRequests
        BY <1>1 DEF PayoutRequests
      <3> QED BY <1>1, <1>12, <3>1, ReversedType DEF SettlePayout, ReversePayout
    <2>2. UNCHANGED <<profile, rows, task>>
      BY <1>12 DEF SettlePayout, ReversePayout
    <2> QED BY <1>0, <1>3, <2>1, <2>2 DEF DestinationsTypeOK
  <1>13. ASSUME NEW loop, ProcessDies(loop) PROVE DestinationsTypeOK'
    <2>1. task' \in [Tasks -> TaskStates]
      BY <1>0, <1>13 DEF ProcessDies
    <2>2. \A t \in Tasks : task'[t].at = "sent" => task'[t].payout \in DOMAIN payouts
      BY <1>0, <1>13 DEF ProcessDies
    <2>3. UNCHANGED <<profile, rows, payouts>>
      BY <1>13 DEF ProcessDies
    <2> QED BY <1>0, <2>1, <2>2, <2>3 DEF DestinationsTypeOK
  <1>14. CASE UNCHANGED destinationVars
    BY <1>14 DEF destinationVars, DestinationsTypeOK
  <1>16. ASSUME NEW t \in Tasks, FindBranch(t) PROVE DestinationsTypeOK'
    <2> DEFINE st == [task[t] EXCEPT !.at = "awaiting"]
    <2>1. st \in TaskStates /\ st.at = "awaiting"
      BY <1>0, NextStates DEF TaskStates
    <2>2. Goes(t, st) /\ UNCHANGED <<profile, rows, payouts>>
      BY <1>16 DEF FindBranch
    <2> HIDE DEF st
    <2> QED BY <1>0, <1>2, <2>1, <2>2
  <1>17. ASSUME NEW t \in Tasks, GivesUp(t) \/ RefuseDebit(t) PROVE DestinationsTypeOK'
    <2>1. Goes(t, NoTask) /\ UNCHANGED <<profile, rows, payouts>>
      BY <1>17 DEF GivesUp, RefuseDebit
    <2> QED BY <1>0, <1>2, <2>1
  <1>15. CASE DestinationsNext
    BY <1>15, <1>4, <1>5, <1>6, <1>7, <1>8, <1>9, <1>10, <1>11, <1>12, <1>13,
       <1>16, <1>17
    DEF DestinationsNext
  <1> QED BY <1>14, <1>15

-----------------------------------------------------------------------------
(* What the steps do, in the words of the strengthening.                   *)

Others(t) == \A u \in Tasks \ {t} : task'[u] = task[u]

(* Payouts go where they went; one that came back stays back, and none     *)
(* fails without coming back.                                              *)
PayoutsStay ==
  /\ DOMAIN payouts' = DOMAIN payouts
  /\ \A p \in DOMAIN payouts :
       /\ payouts'[p].to = payouts[p].to
       /\ payouts[p].returned => payouts'[p].returned
       /\ payouts'[p].status = "FAILED" => payouts[p].status = "FAILED" \/ payouts'[p].returned

(* Requests come, wait and end; nothing is added or debited.               *)
Waits ==
  /\ rows' = rows /\ PayoutsStay
  /\ \A u \in Tasks : task'[u] = task[u] \/ task'[u].at \in Waiting

Hears(t) ==
  /\ LoopFree(t) /\ rows' = rows /\ payouts' = payouts /\ Others(t)
  /\ task'[t].at = "choose"
  /\ task'[t].status # "ABSENT"
  /\ task'[t].status = "VERIFIED" =>
       Matches(task'[t].name, Owner(task'[t].to, task'[t].holder))

Chooses(t) ==
  /\ rows' = rows /\ payouts' = payouts /\ Others(t)
  /\ task[t].at = "choose" /\ task'[t].at = "add"
  /\ task'[t].to = task[t].to /\ task'[t].name = task[t].name /\ task'[t].holder = task[t].holder
  /\ task'[t].status = task[t].status
  /\ task'[t].is_default <=> Defaults(KindOf[task[t].to]) = {}

Adds(t) ==
  /\ task[t].at = "add" /\ payouts' = payouts /\ Others(t) /\ task'[t].at = "idle"
  /\ rows' = IF rows[task[t].to].status = "ABSENT"
             THEN [rows EXCEPT ![task[t].to] =
                    [status |-> task[t].status, is_default |-> task[t].is_default,
                     name |-> task[t].name, holder |-> task[t].holder]]
             ELSE rows

Admits(t) ==
  /\ LoopFree(t) /\ rows' = rows /\ payouts' = payouts /\ Others(t)
  /\ Counted + 1 <= PayoutsPerDay
  /\ task'[t].at = "debit" /\ rows[task'[t].to].status = "VERIFIED"

Debits(t) ==
  /\ rows' = rows /\ Others(t)
  /\ task[t].at = "debit" /\ task'[t].at = "sent"
  /\ DOMAIN payouts' = DOMAIN payouts \cup {Len(payouts) + 1}
  /\ \A p \in DOMAIN payouts : payouts'[p] = payouts[p]
  /\ payouts'[Len(payouts) + 1] =
       [to |-> task[t].to, status |-> "REQUESTED", known |-> FALSE, returned |-> FALSE]

(* Every step is one of these.                                             *)
LEMMA WhatStepsDo ==
  ASSUME DestinationsTypeOK, [DestinationsNext]_destinationVars
  PROVE  \/ Waits
         \/ \E t \in Tasks :
              Hears(t) \/ Chooses(t) \/ Adds(t) \/ Admits(t) \/ Debits(t)
  <1> DEFINE Goal == \/ Waits
                     \/ \E t \in Tasks :
                          Hears(t) \/ Chooses(t) \/ Adds(t) \/ Admits(t) \/ Debits(t)
  <1>0. /\ profile \in Names /\ payouts \in Seq(PayoutRequests) /\ Len(payouts) \in Nat
        /\ DOMAIN payouts = 1..Len(payouts)
        /\ task \in [Tasks -> TaskStates]
        /\ \A t \in Tasks : task[t].at = "sent" => task[t].payout \in DOMAIN payouts
        /\ NoTask \in TaskStates /\ NoTask.at = "idle"
    BY IdleType DEF DestinationsTypeOK
  <1>1. \A p \in DOMAIN payouts : payouts[p] \in PayoutRequests
    BY <1>0
  <1>2. payouts' = payouts => PayoutsStay
    BY DEF PayoutsStay
  <1>3. ASSUME NEW t \in Tasks, NEW st \in TaskStates, Goes(t, st)
        PROVE  task'[t] = st /\ Others(t)
    BY <1>0, <1>3, GoesOn DEF Others
  \* One payout changes its status.
  <1>4. ASSUME NEW p \in DOMAIN payouts, NEW row \in PayoutRequests,
               payouts' = [payouts EXCEPT ![p] = row], row.to = payouts[p].to,
               payouts[p].returned => row.returned,
               row.status = "FAILED" => row.returned
        PROVE  PayoutsStay
    BY <1>0, <1>1, <1>4 DEF PayoutsStay
  <1>5. ASSUME NEW name \in Names, Rename(name) PROVE Goal
    BY <1>2, <1>5 DEF Rename, Waits
  <1>6. ASSUME NEW t \in Tasks, NEW d \in Destinations, NEW holder \in Holders,
               AskBank(t, d, holder) \/ AskUpi(t, d, holder)
        PROVE  Goal
    <2>1. PICK step \in {"lookup", "awaiting"} :
            /\ Goes(t, [NoTask EXCEPT !.at = step, !.to = d, !.name = profile,
                                      !.holder = holder])
            /\ UNCHANGED <<rows, payouts>>
      BY <1>6 DEF AskBank, AskUpi
    <2> DEFINE st == [NoTask EXCEPT !.at = step, !.to = d, !.name = profile, !.holder = holder]
    <2>2. st \in TaskStates /\ st.at \in Waiting
      BY <1>0, NextStates DEF TaskStates, Waiting
    <2>3. Goes(t, st)
      BY <2>1
    <2> HIDE DEF st
    <2> QED BY <1>2, <1>3, <2>1, <2>2, <2>3 DEF Waits, Others
  <1>7. ASSUME NEW t \in Tasks, NEW d \in Destinations, AskPayout(t, d) PROVE Goal
    <2> DEFINE st == [NoTask EXCEPT !.at = "debit", !.to = d]
    <2>1. st \in TaskStates /\ st.at = "debit" /\ st.to = d
      BY <1>0, NextStates DEF TaskStates
    <2>2. /\ Goes(t, st) /\ UNCHANGED <<rows, payouts>>
          /\ LoopFree(t) /\ rows[d].status = "VERIFIED" /\ Counted + 1 <= PayoutsPerDay
      BY <1>7 DEF AskPayout
    <2> HIDE DEF st
    <2> QED BY <1>3, <2>1, <2>2 DEF Admits
  <1>8. ASSUME NEW t \in Tasks, Learn(t) \/ LearnNothing(t) PROVE Goal
    <2>1. PICK s \in AccountStatuses :
            /\ Goes(t, [task[t] EXCEPT !.at = "choose", !.status = s])
            /\ s # "ABSENT"
            /\ s = "VERIFIED" => Matches(task[t].name, Owner(task[t].to, task[t].holder))
            /\ LoopFree(t) /\ UNCHANGED <<rows, payouts>>
      BY <1>8, VerdictType DEF Learn, LearnNothing, AccountStatuses
    <2> DEFINE st == [task[t] EXCEPT !.at = "choose", !.status = s]
    <2>2. /\ st \in TaskStates /\ st.at = "choose" /\ st.status = s
          /\ st.name = task[t].name /\ st.to = task[t].to /\ st.holder = task[t].holder
      BY <1>0, NextStates DEF TaskStates
    <2> HIDE DEF st
    <2>3. task'[t] = st /\ Others(t)
      BY <1>3, <2>1, <2>2 DEF st
    <2> QED BY <2>1, <2>2, <2>3 DEF Hears
  <1>9. ASSUME NEW t \in Tasks, ChooseDefault(t) PROVE Goal
    <2> DEFINE b == Defaults(KindOf[task[t].to]) = {}
               st == [task[t] EXCEPT !.at = "add", !.is_default = b]
    <2>1. /\ st \in TaskStates /\ st.at = "add" /\ (st.is_default <=> b)
          /\ st.name = task[t].name /\ st.to = task[t].to /\ st.status = task[t].status
          /\ st.holder = task[t].holder
      BY <1>0, NextStates DEF TaskStates
    <2>2. Goes(t, st) /\ UNCHANGED <<rows, payouts>> /\ task[t].at = "choose"
      BY <1>9 DEF ChooseDefault
    <2> HIDE DEF st
    <2> QED BY <1>3, <2>1, <2>2 DEF Chooses
  <1>10. ASSUME NEW t \in Tasks, CommitAdd(t) PROVE Goal
    <2>1. task'[t] = NoTask /\ Others(t)
      BY <1>0, <1>3, <1>10 DEF CommitAdd
    <2> QED BY <1>0, <1>10, <2>1 DEF CommitAdd, Adds
  <1>11. ASSUME NEW t \in Tasks, CommitDebit(t) PROVE Goal
    <2> DEFINE row == [to |-> task[t].to, status |-> "REQUESTED", known |-> FALSE,
                       returned |-> FALSE]
               st == [task[t] EXCEPT !.at = "sent", !.payout = Len(payouts) + 1]
    <2>1. row \in PayoutRequests
      BY <1>0 DEF TaskStates, PayoutRequests
    <2>2. st \in TaskStates /\ st.at = "sent"
      <3>1. Len(payouts) + 1 \in Nat
        BY <1>0
      <3>2. st \in TaskStates
        BY <3>1, NextStates
      <3> QED BY <1>0, <3>2 DEF TaskStates
    <2>3. Goes(t, st) /\ payouts' = Append(payouts, row) /\ rows' = rows /\ task[t].at = "debit"
      BY <1>11 DEF CommitDebit
    <2> HIDE DEF row, st
    <2>4. /\ DOMAIN payouts' = DOMAIN payouts \cup {Len(payouts) + 1}
          /\ \A p \in DOMAIN payouts : payouts'[p] = payouts[p]
          /\ payouts'[Len(payouts) + 1] = row
      BY <1>0, <2>1, <2>3
    <2> QED BY <1>3, <2>2, <2>3, <2>4 DEF Debits, row
  <1>12. ASSUME NEW t \in Tasks, NEW taken \in BOOLEAN, Conclude(t, taken) PROVE Goal
    <2> DEFINE p == task[t].payout
    <2>1. p \in DOMAIN payouts /\ payouts[p] \in PayoutRequests
      BY <1>0, <1>1, <1>12 DEF Conclude
    <2>2. PICK row \in PayoutRequests :
            /\ payouts' = [payouts EXCEPT ![p] = row] /\ row.to = payouts[p].to
            /\ payouts[p].returned => row.returned
            /\ row.status = "FAILED" => row.returned
      <3>1. CASE taken
        <4> DEFINE row == [payouts[p] EXCEPT !.status = "PROCESSING", !.known = TRUE]
        <4>1. /\ row \in PayoutRequests /\ row.to = payouts[p].to
              /\ row.returned = payouts[p].returned /\ row.status = "PROCESSING"
          BY <2>1 DEF PayoutRequests
        <4>2. payouts' = [payouts EXCEPT ![p] = row]
          BY <1>12, <3>1 DEF Conclude
        <4> HIDE DEF row
        <4> QED BY <4>1, <4>2
      <3>2. CASE ~taken
        BY <1>12, <2>1, <3>2, ReversedType DEF Conclude
      <3> QED BY <3>1, <3>2
    <2>3. task'[t] = NoTask /\ Others(t) /\ rows' = rows
      BY <1>0, <1>3, <1>12 DEF Conclude
    <2> HIDE DEF p
    <2>4. PayoutsStay
      BY <1>4, <2>1, <2>2
    <2> QED BY <1>0, <2>3, <2>4 DEF Waits, Others, Waiting
  <1>13. ASSUME NEW p \in DOMAIN payouts, SettlePayout(p) \/ ReversePayout(p) PROVE Goal
    <2>1. PICK row \in PayoutRequests :
            /\ payouts' = [payouts EXCEPT ![p] = row] /\ row.to = payouts[p].to
            /\ payouts[p].returned => row.returned
            /\ row.status = "FAILED" => row.returned
      <3> DEFINE row == [payouts[p] EXCEPT !.status = "PROCESSED"]
      <3>1. /\ row \in PayoutRequests /\ row.to = payouts[p].to
            /\ row.returned = payouts[p].returned /\ row.status = "PROCESSED"
        BY <1>1 DEF PayoutRequests
      <3>2. SettlePayout(p) => payouts' = [payouts EXCEPT ![p] = row]
        BY DEF SettlePayout
      <3> HIDE DEF row
      <3> QED BY <1>1, <1>13, <3>1, <3>2, ReversedType DEF ReversePayout
    <2>2. rows' = rows /\ task' = task
      BY <1>13 DEF SettlePayout, ReversePayout
    <2>3. PayoutsStay
      BY <1>4, <2>1
    <2> QED BY <2>2, <2>3 DEF Waits
  <1>14. ASSUME NEW loop, ProcessDies(loop) PROVE Goal
    BY <1>0, <1>2, <1>14 DEF ProcessDies, Waits, Waiting
  <1>17. ASSUME NEW t \in Tasks, FindBranch(t) PROVE Goal
    <2> DEFINE st == [task[t] EXCEPT !.at = "awaiting"]
    <2>1. st \in TaskStates /\ st.at \in Waiting
      BY <1>0, NextStates DEF TaskStates, Waiting
    <2>2. Goes(t, st) /\ UNCHANGED <<rows, payouts>>
      BY <1>17 DEF FindBranch
    <2> HIDE DEF st
    <2> QED BY <1>2, <1>3, <2>1, <2>2 DEF Waits, Others
  <1>18. ASSUME NEW t \in Tasks, GivesUp(t) \/ RefuseDebit(t) PROVE Goal
    <2>1. task'[t] = NoTask /\ Others(t) /\ UNCHANGED <<rows, payouts>>
      BY <1>0, <1>3, <1>18 DEF GivesUp, RefuseDebit
    <2> QED BY <1>0, <1>2, <2>1 DEF Waits, Others, Waiting
  <1>15. CASE UNCHANGED destinationVars
    BY <1>2, <1>15 DEF destinationVars, Waits
  <1> HIDE DEF Goal
  <1>16. ASSUME DestinationsNext PROVE Goal
    BY <1>16, <1>5, <1>6, <1>7, <1>8, <1>9, <1>10, <1>11, <1>12, <1>13, <1>14, <1>17, <1>18
    DEF DestinationsNext
  <1> QED BY <1>15, <1>16 DEF Goal

-----------------------------------------------------------------------------
(* Types, and whose account is paid.                                       *)

(* The first state is well-typed.                                          *)
LEMMA InitTypes == DestinationsInit => DestinationsTypeOK
  <1> SUFFICES ASSUME DestinationsInit PROVE DestinationsTypeOK
    OBVIOUS
  <1>1. /\ profile \in Names /\ NoTask \in TaskStates /\ NoTask.at = "idle"
        /\ AnyName \in Names /\ AnyHolder \in Holders
    BY IdleType DEF DestinationsInit
  <1>2. rows \in [Destinations -> AccountRows]
    BY <1>1 DEF DestinationsInit, AccountRows, AccountStatuses
  <1>3. payouts \in Seq(PayoutRequests) /\ task \in [Tasks -> TaskStates]
    BY <1>1 DEF DestinationsInit
  <1>4. \A t \in Tasks : task[t].at # "sent"
    BY <1>1 DEF DestinationsInit
  <1> QED BY <1>1, <1>2, <1>3, <1>4 DEF DestinationsTypeOK

(* The state of every request, row and payout is of its type.              *)
THEOREM DestinationsTypeCorrect == DestinationsSpec => []DestinationsTypeOK
  BY InitTypes, TypePreserved, PTL DEF DestinationsSpec

(* Nothing has been found out, and nothing paid.                           *)
LEMMA InitOwn == DestinationsInit => OwnInv
  <1> SUFFICES ASSUME DestinationsInit PROVE OwnInv
    OBVIOUS
  <1>1. NoTask.at = "idle"
    BY IdleType DEF DestinationsInit
  <1>2. \A t \in Tasks : task[t].at = "idle"
    BY <1>1 DEF DestinationsInit
  <1>3. \A d \in Destinations : rows[d].status = "ABSENT"
    BY DEF DestinationsInit
  <1>4. DOMAIN payouts = {}
    BY DEF DestinationsInit
  <1> QED BY <1>2, <1>3, <1>4
          DEF OwnInv, AnswersAreTheBanks, VerifiedMatches, DebitsAreForVerified, PaidToTheirOwn

(* A row that is there never changes, so what was found out about it when  *)
(* it was added is still so when money goes there.                         *)
LEMMA OwnPreserved ==
  ASSUME DestinationsTypeOK, OwnInv, [DestinationsNext]_destinationVars
  PROVE  OwnInv'
  <1> USE DEF OwnInv
  <1>0. /\ rows \in [Destinations -> AccountRows]
        /\ payouts \in Seq(PayoutRequests) /\ Len(payouts) \in Nat
        /\ DOMAIN payouts = 1..Len(payouts)
        /\ task \in [Tasks -> TaskStates]
        /\ \A t \in Tasks : task[t].to \in Destinations
    BY DEF DestinationsTypeOK, TaskStates
  <1>1. \A p \in DOMAIN payouts : payouts[p].to \in Destinations
    <2>1. \A p \in DOMAIN payouts : payouts[p] \in PayoutRequests
      BY <1>0
    <2> QED BY <2>1 DEF PayoutRequests
  <1>2. ASSUME rows' = rows, DOMAIN payouts' = DOMAIN payouts,
               \A p \in DOMAIN payouts : payouts'[p].to = payouts[p].to
        PROVE  VerifiedMatches' /\ PaidToTheirOwn'
    BY <1>2 DEF VerifiedMatches, PaidToTheirOwn
  <1>3. CASE Waits
    <2>1. VerifiedMatches' /\ PaidToTheirOwn'
      BY <1>2, <1>3 DEF Waits, PayoutsStay
    <2>2. AnswersAreTheBanks' /\ DebitsAreForVerified'
      BY <1>3 DEF Waits, Waiting, AnswersAreTheBanks, DebitsAreForVerified
    <2> QED BY <2>1, <2>2
  <1>4. ASSUME NEW t \in Tasks, Hears(t) \/ Chooses(t) PROVE OwnInv'
    <2>1. VerifiedMatches' /\ PaidToTheirOwn'
      BY <1>2, <1>4 DEF Hears, Chooses
    <2>2. AnswersAreTheBanks'
      BY <1>4 DEF Hears, Chooses, Others, AnswersAreTheBanks
    <2>3. DebitsAreForVerified'
      BY <1>4 DEF Hears, Chooses, Others, DebitsAreForVerified
    <2> QED BY <2>1, <2>2, <2>3
  <1>5. ASSUME NEW t \in Tasks, Adds(t) PROVE OwnInv'
    <2> DEFINE d == task[t].to
               row == [status |-> task[t].status, is_default |-> task[t].is_default,
                       name |-> task[t].name, holder |-> task[t].holder]
    <2>1. d \in Destinations
      BY <1>0
    <2>2. /\ \A x \in Destinations : rows[x].status # "ABSENT" => rows'[x] = rows[x]
          /\ \A x \in Destinations : rows'[x] = rows[x] \/ (x = d /\ rows'[x] = row)
      BY <1>0, <1>5 DEF Adds
    <2>3. row.status = "VERIFIED" => Matches(row.name, Owner(d, row.holder))
      BY <1>5 DEF Adds, AnswersAreTheBanks
    <2> HIDE DEF d, row
    <2>4. VerifiedMatches'
      BY <2>2, <2>3 DEF VerifiedMatches
    <2>5. PaidToTheirOwn'
      BY <1>1, <1>5, <2>2 DEF Adds, PaidToTheirOwn
    <2>6. AnswersAreTheBanks'
      BY <1>5 DEF Adds, Others, AnswersAreTheBanks
    <2>7. DebitsAreForVerified'
      BY <1>0, <1>5, <2>2 DEF Adds, Others, DebitsAreForVerified
    <2> QED BY <2>4, <2>5, <2>6, <2>7
  <1>6. ASSUME NEW t \in Tasks, Admits(t) PROVE OwnInv'
    <2>1. VerifiedMatches' /\ PaidToTheirOwn'
      BY <1>2, <1>6 DEF Admits
    <2>2. AnswersAreTheBanks' /\ DebitsAreForVerified'
      BY <1>6 DEF Admits, Others, AnswersAreTheBanks, DebitsAreForVerified
    <2> QED BY <2>1, <2>2
  <1>7. ASSUME NEW t \in Tasks, Debits(t) PROVE OwnInv'
    <2>1. VerifiedMatches'
      BY <1>7 DEF Debits, VerifiedMatches
    <2>2. AnswersAreTheBanks' /\ DebitsAreForVerified'
      BY <1>7 DEF Debits, Others, AnswersAreTheBanks, DebitsAreForVerified
    <2>3. /\ rows[task[t].to].status = "VERIFIED"
          /\ Matches(rows[task[t].to].name, Owner(task[t].to, rows[task[t].to].holder))
      BY <1>0, <1>7 DEF Debits, DebitsAreForVerified, VerifiedMatches
    <2>4. payouts'[Len(payouts) + 1].to = task[t].to
      BY <1>7 DEF Debits
    <2>5. PaidToTheirOwn'
      BY <1>7, <2>3, <2>4 DEF Debits, PaidToTheirOwn
    <2> QED BY <2>1, <2>2, <2>5
  <1> QED BY <1>3, <1>4, <1>5, <1>6, <1>7, WhatStepsDo

(* request_payout() pays only destinations that are verified, and these    *)
(* are the ones where match_names() found a name of the user's to match    *)
(* the name in the provider's answer, be it the registered one or the one  *)
(* that stands in for it, however additions, payouts, changes of name and  *)
(* crashes overlap, in one process or in several.                          *)
THEOREM OnlyOwnAccountsArePaid == DestinationsSpec => []PaidToTheirOwn
  <1>1. DestinationsTypeOK /\ OwnInv /\ [DestinationsNext]_destinationVars => OwnInv'
    BY OwnPreserved
  <1>2. OwnInv => PaidToTheirOwn
    BY DEF OwnInv
  <1> QED BY <1>1, <1>2, InitOwn, DestinationsTypeCorrect, PTL DEF DestinationsSpec

-----------------------------------------------------------------------------
(* One default, and the day's limit, in one process.                       *)

(* Nothing runs, and nothing is there.                                     *)
LEMMA InitLoop == DestinationsInit => LoopInv
  <1> SUFFICES ASSUME DestinationsInit PROVE LoopInv
    OBVIOUS
  <1>1. \A t \in Tasks : task[t].at = "idle"
    BY IdleType DEF DestinationsInit
  <1>2. \A d \in Destinations : rows[d].status = "ABSENT" /\ rows[d].is_default = FALSE
    BY DEF DestinationsInit
  <1>3. DOMAIN payouts = {}
    BY DEF DestinationsInit
  <1>4. OneRuns /\ AnswersAreTheBanks /\ ChoicesStand /\ RoomForDebit
    BY <1>1 DEF OneRuns, Running, AnswersAreTheBanks, ChoicesStand, RoomForDebit
  <1>5. DefaultsExist /\ OneDefaultEach
    BY <1>2 DEF DefaultsExist, OneDefaultEach
  <1>6. FailedCameBack
    BY <1>3 DEF FailedCameBack
  <1>7. WithinDailyLimit
    <2>1. {p \in DOMAIN payouts : ~payouts[p].returned} = {}
      BY <1>3
    <2>2. 0 <= PayoutsPerDay
      BY LimitsAssumption
    <2> QED BY <2>1, <2>2, FS_EmptySet DEF WithinDailyLimit
  <1> QED BY <1>4, <1>5, <1>6, <1>7 DEF LoopInv

(* A request that starts to run finds no other running.                    *)
LEMMA LoopIsFree ==
  ASSUME OneProcess, NEW t \in Tasks, LoopFree(t)
  PROVE  \A u \in Tasks \ {t} : ~Running(u)
  BY DEF OneProcess, LoopFree, Running, Waiting

(* The payouts that are out are finitely many, and they all count.         *)
LEMMA OutCounts ==
  ASSUME DestinationsTypeOK, FailedCameBack
  PROVE  /\ IsFiniteSet(Out) /\ Cardinality(Out) \in Nat
         /\ Counted \in Nat /\ Cardinality(Out) <= Counted
  <1> DEFINE D == DOMAIN payouts
             S == {p \in D : payouts[p].status # "FAILED"}
  <1>1. payouts \in Seq(PayoutRequests) /\ Len(payouts) \in Nat /\ D = 1..Len(payouts)
    BY DEF DestinationsTypeOK
  <1>2. IsFiniteSet(D)
    BY <1>1, FS_Interval
  <1>3. S \subseteq D /\ Out \subseteq S
    BY DEF FailedCameBack, Out
  <1>4. Counted = Cardinality(S)
    BY DEF Counted
  <1> HIDE DEF D, S
  <1>5. IsFiniteSet(S)
    BY <1>2, <1>3, FS_Subset
  <1>6. IsFiniteSet(Out) /\ Cardinality(Out) <= Cardinality(S)
    BY <1>3, <1>5, FS_Subset
  <1>7. Cardinality(Out) \in Nat /\ Cardinality(S) \in Nat
    BY <1>5, <1>6, FS_CardinalityType
  <1> QED BY <1>4, <1>6, <1>7

(* Fewer payouts out, less of the limit used.                              *)
LEMMA FewerOut ==
  ASSUME DestinationsTypeOK, FailedCameBack, PayoutsStay
  PROVE  /\ FailedCameBack' /\ Out' \subseteq Out
         /\ Cardinality(Out)' \in Nat /\ Cardinality(Out)' <= Cardinality(Out)
  <1>1. FailedCameBack' /\ Out' \subseteq Out
    BY DEF FailedCameBack, PayoutsStay, Out
  <1>2. IsFiniteSet(Out) /\ Cardinality(Out) \in Nat
    BY OutCounts
  <1>3. IsFiniteSet(Out') /\ Cardinality(Out') <= Cardinality(Out)
    BY <1>1, <1>2, FS_Subset
  <1>4. Cardinality(Out') \in Nat
    BY <1>3, FS_CardinalityType
  <1> QED BY <1>1, <1>3, <1>4

(* A step that adds no destination.                                        *)
LEMMA SameRows ==
  ASSUME rows' = rows, DefaultsExist, OneDefaultEach
  PROVE  DefaultsExist' /\ OneDefaultEach' /\ \A kind : Defaults(kind)' = Defaults(kind)
  BY DEF DefaultsExist, OneDefaultEach, Defaults

(* Requests wait: fewer are running, and no more payouts are out.          *)
LEMMA WaitsKeeps ==
  ASSUME DestinationsTypeOK, LoopInv, Waits
  PROVE  LoopInv'
  <1> USE DEF LoopInv
  <1>1. rows' = rows /\ PayoutsStay
    BY DEF Waits
  <1>2. \A u \in Tasks : task'[u] = task[u] \/ task'[u].at \in Waiting
    BY DEF Waits
  <1>3. DefaultsExist' /\ OneDefaultEach' /\ \A kind : Defaults(kind)' = Defaults(kind)
    BY <1>1, SameRows
  <1>4. OneRuns'
    BY <1>2 DEF OneRuns, Running, Waiting
  <1>5. AnswersAreTheBanks'
    BY <1>2 DEF AnswersAreTheBanks, Waiting
  <1>6. ChoicesStand'
    BY <1>2, <1>3 DEF ChoicesStand, Waiting
  <1>7. FailedCameBack' /\ Cardinality(Out)' \in Nat /\ Cardinality(Out)' <= Cardinality(Out)
    BY <1>1, FewerOut
  <1>8. Cardinality(Out) \in Nat /\ PayoutsPerDay \in Nat
    BY OutCounts, LimitsAssumption
  <1>9. RoomForDebit'
    BY <1>2, <1>7, <1>8 DEF RoomForDebit, Waiting
  <1>10. Cardinality(Out)' <= PayoutsPerDay
    BY <1>7, <1>8 DEF WithinDailyLimit, Out
  <1>11. WithinDailyLimit'
    BY <1>10 DEF WithinDailyLimit, Out
  <1> QED BY <1>3, <1>4, <1>5, <1>6, <1>7, <1>9, <1>11

(* The books of payouts stay as they are.                                  *)
LEMMA SamePayouts ==
  ASSUME payouts' = payouts, FailedCameBack, WithinDailyLimit
  PROVE  FailedCameBack' /\ WithinDailyLimit' /\ Out' = Out
  BY DEF FailedCameBack, WithinDailyLimit, Out

(* The bank has answered, and the loop is this request's.                  *)
LEMMA HearsKeeps ==
  ASSUME OneProcess, LoopInv, NEW t \in Tasks, Hears(t)
  PROVE  LoopInv'
  <1> USE DEF LoopInv
  <1>1. /\ rows' = rows /\ payouts' = payouts
        /\ task'[t].at = "choose" /\ task'[t].status # "ABSENT"
        /\ task'[t].status = "VERIFIED" =>
             Matches(task'[t].name, Owner(task'[t].to, task'[t].holder))
        /\ \A u \in Tasks \ {t} : task'[u] = task[u]
    BY DEF Hears, Others
  <1>2. \A u \in Tasks \ {t} : ~Running(u)
    BY LoopIsFree DEF Hears
  <1>3. DefaultsExist' /\ OneDefaultEach' /\ FailedCameBack' /\ WithinDailyLimit'
    BY <1>1, SameRows, SamePayouts
  <1>4. OneRuns'
    BY <1>1, <1>2 DEF OneRuns, Running
  <1>5. AnswersAreTheBanks'
    BY <1>1 DEF AnswersAreTheBanks
  <1>6. ChoicesStand' /\ RoomForDebit'
    BY <1>1, <1>2 DEF ChoicesStand, RoomForDebit, Running
  <1> QED BY <1>3, <1>4, <1>5, <1>6

(* The request that has looked for a default is the one that runs.         *)
LEMMA ChoosesKeeps ==
  ASSUME LoopInv, NEW t \in Tasks, Chooses(t)
  PROVE  LoopInv'
  <1> USE DEF LoopInv
  <1>1. /\ rows' = rows /\ payouts' = payouts
        /\ task[t].at = "choose" /\ task'[t].at = "add"
        /\ task'[t].to = task[t].to /\ task'[t].name = task[t].name /\ task'[t].holder = task[t].holder
        /\ task'[t].status = task[t].status
        /\ task'[t].is_default <=> Defaults(KindOf[task[t].to]) = {}
        /\ \A u \in Tasks \ {t} : task'[u] = task[u]
    BY DEF Chooses, Others
  <1>2. \A u \in Tasks \ {t} : ~Running(u)
    BY <1>1 DEF OneRuns, Running
  <1>3. /\ DefaultsExist' /\ OneDefaultEach' /\ FailedCameBack' /\ WithinDailyLimit'
        /\ \A kind : Defaults(kind)' = Defaults(kind)
    BY <1>1, SameRows, SamePayouts
  <1>4. OneRuns'
    BY <1>1, <1>2 DEF OneRuns, Running
  <1>5. AnswersAreTheBanks'
    BY <1>1 DEF AnswersAreTheBanks
  <1>6. ChoicesStand'
    BY <1>1, <1>2, <1>3 DEF ChoicesStand, Running
  <1>7. RoomForDebit'
    BY <1>1, <1>2 DEF RoomForDebit, Running
  <1> QED BY <1>3, <1>4, <1>5, <1>6, <1>7

(* A payout is admitted: all that are out count, and one more fits.        *)
LEMMA AdmitsKeeps ==
  ASSUME OneProcess, DestinationsTypeOK, LoopInv, NEW t \in Tasks, Admits(t)
  PROVE  LoopInv'
  <1> USE DEF LoopInv
  <1>1. /\ rows' = rows /\ payouts' = payouts /\ task'[t].at = "debit"
        /\ Counted + 1 <= PayoutsPerDay
        /\ \A u \in Tasks \ {t} : task'[u] = task[u]
    BY DEF Admits, Others
  <1>2. \A u \in Tasks \ {t} : ~Running(u)
    BY LoopIsFree DEF Admits
  <1>3. DefaultsExist' /\ OneDefaultEach' /\ FailedCameBack' /\ WithinDailyLimit' /\ Out' = Out
    BY <1>1, SameRows, SamePayouts
  <1>4. OneRuns'
    BY <1>1, <1>2 DEF OneRuns, Running
  <1>5. AnswersAreTheBanks' /\ ChoicesStand'
    BY <1>1, <1>2 DEF AnswersAreTheBanks, ChoicesStand, Running
  <1>6. Cardinality(Out') + 1 <= PayoutsPerDay
    BY <1>1, <1>3, OutCounts, LimitsAssumption
  <1>7. RoomForDebit'
    BY <1>6 DEF RoomForDebit
  <1> QED BY <1>3, <1>4, <1>5, <1>7

(* The debit takes the room it was admitted to.                            *)
LEMMA DebitsKeeps ==
  ASSUME DestinationsTypeOK, LoopInv, NEW t \in Tasks, Debits(t)
  PROVE  LoopInv'
  <1> USE DEF LoopInv
  <1> DEFINE n == Len(payouts) + 1
  <1>1. /\ rows' = rows /\ task[t].at = "debit" /\ task'[t].at = "sent"
        /\ DOMAIN payouts' = DOMAIN payouts \cup {n}
        /\ \A p \in DOMAIN payouts : payouts'[p] = payouts[p]
        /\ \A u \in Tasks \ {t} : task'[u] = task[u]
    BY DEF Debits, Others
  <1>2. payouts'[n].status = "REQUESTED" /\ payouts'[n].returned = FALSE
    BY DEF Debits
  <1>3. n \notin DOMAIN payouts
    BY DEF DestinationsTypeOK
  <1> HIDE DEF n
  <1>4. \A u \in Tasks \ {t} : ~Running(u)
    BY <1>1 DEF OneRuns, Running
  <1>5. DefaultsExist' /\ OneDefaultEach'
    BY <1>1, SameRows
  <1>6. OneRuns' /\ AnswersAreTheBanks' /\ ChoicesStand' /\ RoomForDebit'
    BY <1>1, <1>4 DEF OneRuns, AnswersAreTheBanks, ChoicesStand, RoomForDebit, Running
  <1>7. FailedCameBack'
    BY <1>1, <1>2 DEF FailedCameBack
  <1>8. Out' = Out \cup {n} /\ n \notin Out
    BY <1>1, <1>2, <1>3 DEF Out
  <1>9. IsFiniteSet(Out)
    BY OutCounts
  <1>10. Cardinality(Out') = Cardinality(Out) + 1
    BY <1>8, <1>9, FS_AddElement
  <1>11. Cardinality(Out') <= PayoutsPerDay
    BY <1>1, <1>10 DEF RoomForDebit
  <1>12. WithinDailyLimit'
    BY <1>11 DEF WithinDailyLimit, Out
  <1> QED BY <1>5, <1>6, <1>7, <1>12

(* A destination is added: as the default if there was none of its kind,   *)
(* and otherwise not.                                                      *)
LEMMA AddsKeeps ==
  ASSUME DestinationsTypeOK, LoopInv, NEW t \in Tasks, Adds(t)
  PROVE  LoopInv'
  <1> USE DEF LoopInv
  <1>0. PICK d \in Destinations : d = task[t].to
    BY DEF DestinationsTypeOK, TaskStates
  <1> DEFINE row == [status |-> task[t].status, is_default |-> task[t].is_default,
                     name |-> task[t].name, holder |-> task[t].holder]
  <1>1. rows \in [Destinations -> AccountRows] /\ task[t].is_default \in BOOLEAN
    BY DEF DestinationsTypeOK, TaskStates
  <1>2. /\ payouts' = payouts /\ task[t].at = "add" /\ task'[t].at = "idle"
        /\ \A u \in Tasks \ {t} : task'[u] = task[u]
        /\ rows' = IF rows[d].status = "ABSENT" THEN [rows EXCEPT ![d] = row] ELSE rows
    BY <1>0 DEF Adds, Others
  <1>3. row.status = task[t].status /\ row.is_default = task[t].is_default
    OBVIOUS
  <1>4. row.status # "ABSENT" /\ (row.is_default <=> Defaults(KindOf[d]) = {})
    BY <1>0, <1>2 DEF AnswersAreTheBanks, ChoicesStand
  <1>5. row.is_default \in BOOLEAN
    BY <1>1
  <1> HIDE DEF row
  <1>6. \A u \in Tasks \ {t} : ~Running(u)
    BY <1>2 DEF OneRuns, Running
  <1>7. OneRuns' /\ AnswersAreTheBanks' /\ ChoicesStand' /\ RoomForDebit'
    BY <1>2, <1>6 DEF OneRuns, AnswersAreTheBanks, ChoicesStand, RoomForDebit, Running
  <1>8. FailedCameBack' /\ WithinDailyLimit'
    BY <1>2, SamePayouts
  <1>9. DefaultsExist' /\ OneDefaultEach'
    <2>1. CASE rows[d].status # "ABSENT"
      BY <1>2, <2>1, SameRows
    <2>2. CASE rows[d].status = "ABSENT"
      <3>1. rows'[d] = row /\ \A x \in Destinations \ {d} : rows'[x] = rows[x]
        BY <1>1, <1>2, <2>2
      <3>2. DefaultsExist'
        BY <1>4, <3>1 DEF DefaultsExist
      <3>3. d \notin Defaults(KindOf[d])
        BY <2>2 DEF DefaultsExist, Defaults
      <3>4. \A kind : kind # KindOf[d] => Defaults(kind)' = Defaults(kind)
        BY <3>1 DEF Defaults
      <3>5. Defaults(KindOf[d])' = IF row.is_default THEN Defaults(KindOf[d]) \cup {d}
                                   ELSE Defaults(KindOf[d])
        BY <1>1, <3>1, <3>3 DEF Defaults
      <3>6. Cardinality(Defaults(KindOf[d])') = 1
        <4>1. CASE row.is_default
          <5>1. Defaults(KindOf[d])' = {d}
            BY <1>4, <3>5, <4>1
          <5> QED BY <5>1, FS_Singleton
        <4>2. CASE ~row.is_default
          <5>1. Defaults(KindOf[d])' = Defaults(KindOf[d]) /\ Defaults(KindOf[d]) # {}
            BY <1>4, <3>5, <4>2
          <5>2. PICK x \in Destinations : KindOf[x] = KindOf[d] /\ rows[x].is_default
            BY <5>1 DEF Defaults
          <5>3. rows[x].status # "ABSENT"
            BY <5>2 DEF DefaultsExist
          <5>4. KindOf[d] \in {"bank", "upi"}
            BY <1>1, KindsAssumption
          <5> QED BY <5>1, <5>2, <5>3, <5>4 DEF OneDefaultEach
        <4> QED BY <4>1, <4>2
      <3>7. ASSUME NEW kind \in {"bank", "upi"},
                   NEW x \in Destinations, KindOf[x] = kind, rows'[x].status # "ABSENT"
            PROVE  Cardinality(Defaults(kind)') = 1
        <4>1. CASE kind = KindOf[d]
          BY <3>6, <4>1
        <4>2. CASE kind # KindOf[d]
          <5>1. rows[x].status # "ABSENT"
            BY <3>1, <3>7, <4>2
          <5>2. Cardinality(Defaults(kind)) = 1
            BY <3>7, <5>1 DEF OneDefaultEach
          <5> QED BY <3>4, <4>2, <5>2
        <4> QED BY <4>1, <4>2
      <3>8. OneDefaultEach'
        BY <3>7 DEF OneDefaultEach
      <3> QED BY <3>2, <3>8
    <2> QED BY <2>1, <2>2
  <1> QED BY <1>7, <1>8, <1>9

(* No step of one process breaks it.                                       *)
LEMMA LoopPreserved ==
  ASSUME OneProcess, DestinationsTypeOK, LoopInv, [DestinationsNext]_destinationVars
  PROVE  LoopInv'
  BY WhatStepsDo, WaitsKeeps, HearsKeeps, ChoosesKeeps, AddsKeeps, AdmitsKeeps, DebitsKeeps

(* So it always holds there.                                               *)
LEMMA LoopInvariance == ASSUME OneProcess PROVE DestinationsSpec => []LoopInv
  <1>1. DestinationsTypeOK /\ LoopInv /\ [DestinationsNext]_destinationVars => LoopInv'
    BY LoopPreserved
  <1> QED BY <1>1, InitLoop, DestinationsTypeCorrect, PTL DEF DestinationsSpec

(* add_bank_account() and add_upi_account() make a destination the default *)
(* if the user has none of its kind: in one process, however many are      *)
(* being added, every kind that has destinations has exactly one default.  *)
THEOREM OneDefaultOfEachKind == ASSUME OneProcess PROVE DestinationsSpec => []OneDefaultEach
  <1>1. LoopInv => OneDefaultEach
    BY DEF LoopInv
  <1> QED BY <1>1, LoopInvariance, PTL

(* request_payout() compares before it writes, and webhooks and errors     *)
(* decide later which payouts count: in one process the payouts that have  *)
(* not come back stay within the day's limit.                              *)
THEOREM TheLimitIsKept == ASSUME OneProcess PROVE DestinationsSpec => []WithinDailyLimit
  <1>1. LoopInv => WithinDailyLimit
    BY DEF LoopInv
  <1> QED BY <1>1, LoopInvariance, PTL
=============================================================================
