-------------------------------- MODULE Codes --------------------------------
(***************************************************************************)
(* The one-time codes by which a receiver confirms that a milestone is     *)
(* cancelled: how often they are sent, how often they are guessed, when    *)
(* they stop working, and what a right answer does.                        *)
(*                                                                         *)
(* Confirming locks the code and then the milestone; declining locks the   *)
(* milestone and writes the codes when it commits; sending a new code      *)
(* locks nothing.  A request's row is never locked: what a handler knows   *)
(* of it is what it read when it began.                                    *)
(***************************************************************************)
EXTENDS Naturals, Sequences, FiniteSets

CONSTANTS
  Threads,      \* the server's threads
  MaxAttempts,  \* OTP_MAX_ATTEMPTS
  MaxSends,     \* OTP_MAX_SENDS_PER_WINDOW
  MaxCodes,     \* bound on the codes ever sent
  None          \* nobody

ASSUME LimitsAssumption == MaxAttempts \in Nat \ {0} /\ {MaxSends, MaxCodes} \subseteq Nat
ASSUME NobodyAssumption == None \notin Threads

VARIABLES
  milestone,  \* the milestone's status
  requests,   \* the cancellation requests, by their statuses
  codes,      \* the one-time codes
  missed,     \* how many wrong answers were given for each code
  session,    \* what each thread is in the middle of
  holder      \* who has locked a row

vars == <<milestone, requests, codes, missed, session, holder>>

-----------------------------------------------------------------------------
(* State.                                                                  *)

(* FUNDED stands for every status a cancellation may be requested from.    *)
MilestoneStatuses == {"FUNDED", "CANCELLATION_REQUESTED", "CANCELLED"}
CancellationStatuses == {"AWAITING_RECEIVER", "CONFIRMED", "DECLINED"}
OtpStatuses == {"ACTIVE", "CONSUMED", "EXPIRED", "INVALIDATED"}

(* 0: within OTP_TTL_MINUTES, 1: past that, 2: past OTP_SEND_WINDOW_MINUTES *)
Ages == 0 .. 2

Code == 1 .. MaxCodes
OtpRows == [request : Nat, status : OtpStatuses, attempts : 0 .. MaxAttempts, age : Ages]

Milestone == 0
Rows == Code \cup {Milestone}

Ops == {"request", "resend", "verify", "decline", "idle"}

(* answer: the code that was sent, 0 for one that was not.                 *)
(* active: the codes a SELECT found ACTIVE.  code: the one to compare.     *)
(* tries: its attempts when it was loaded.                                 *)
Sessions ==
  [op : Ops, at : {"read", "found", "locked", "matched"}, request : Nat,
   answer : Code \cup {0}, active : SUBSET Code, code : Code \cup {0}, tries : 0 .. MaxAttempts]

TypeOK ==
  /\ milestone \in MilestoneStatuses
  /\ requests \in Seq(CancellationStatuses)
  /\ codes \in Seq(OtpRows) /\ Len(codes) <= MaxCodes
  /\ missed \in [Code -> Nat]
  /\ session \in [Threads -> Sessions]
  /\ holder \in [Rows -> Threads \cup {None}]
  /\ \A s \in Threads :
       /\ session[s].active \cup ({session[s].code} \ {0}) \subseteq DOMAIN codes
       /\ session[s].at \in {"locked", "matched"} /\ session[s].op = "verify"
            => session[s].code # 0
       /\ session[s].op \in {"resend", "verify", "decline"}
            => session[s].request \in DOMAIN requests

Idle ==
  [op |-> "idle", at |-> "read", request |-> 0, answer |-> 0, active |-> {}, code |-> 0,
   tries |-> 0]

(* A funded milestone.                                                     *)
Init ==
  /\ milestone = "FUNDED"
  /\ requests = << >>
  /\ codes = << >>
  /\ missed = [k \in Code |-> 0]
  /\ session = [s \in Threads |-> Idle]
  /\ holder = [r \in Rows |-> None]

-----------------------------------------------------------------------------
ActiveCodes(r) == {k \in DOMAIN codes : codes[k].request = r /\ codes[k].status = "ACTIVE"}

(* _assert_send_rate_limit() counts what was sent within the window.       *)
MaySend == Cardinality({k \in DOMAIN codes : codes[k].age < 2}) < MaxSends

NewCode(r) == [request |-> r, status |-> "ACTIVE", attempts |-> 0, age |-> 0]

Free(s, rows) == \A r \in rows : holder[r] \in {None, s}
Takes(s, rows) == holder' = [r \in Rows |-> IF r \in rows THEN s ELSE holder[r]]

Ends(s) ==
  /\ session' = [session EXCEPT ![s] = Idle]
  /\ holder' = [r \in Rows |-> IF holder[r] = s THEN None ELSE holder[r]]

At(s, op, at) == session[s].op = op /\ session[s].at = at

Moves(s, at) == session' = [session EXCEPT ![s].at = at]

Invalidated(rows) ==
  [k \in DOMAIN codes |->
     IF k \in rows THEN [codes[k] EXCEPT !.status = "INVALIDATED"] ELSE codes[k]]

-----------------------------------------------------------------------------
(* What a handler reads first.  The request is loaded with its codes.      *)

AskRequest(s) ==
  /\ session[s].op = "idle"
  /\ session' = [session EXCEPT ![s] = [Idle EXCEPT !.op = "request"]]
  /\ UNCHANGED <<milestone, requests, codes, missed, holder>>

(* The answer may be any code that has been sent by now.                   *)
AskAboutRequest(s, op, r, answer) ==
  /\ session[s].op = "idle"
  /\ requests[r] = "AWAITING_RECEIVER"
  /\ answer \in (IF op = "verify" THEN DOMAIN codes \cup {0} ELSE {0})
  /\ op = "resend" => MaySend
  /\ session' = [session EXCEPT ![s] =
       [Idle EXCEPT !.op = op, !.request = r, !.answer = answer, !.active = ActiveCodes(r)]]
  /\ UNCHANGED <<milestone, requests, codes, missed, holder>>

-----------------------------------------------------------------------------
(* Requesting a cancellation, and sending its code again.                  *)

LockForRequest(s) ==
  /\ At(s, "request", "read")
  /\ Free(s, {Milestone})
  /\ milestone = "FUNDED" /\ MaySend
  /\ Takes(s, {Milestone})
  /\ Moves(s, "locked")
  /\ UNCHANGED <<milestone, requests, codes, missed>>

CommitRequest(s) ==
  /\ At(s, "request", "locked")
  /\ Len(codes) < MaxCodes
  /\ milestone' = "CANCELLATION_REQUESTED"
  /\ requests' = Append(requests, "AWAITING_RECEIVER")
  /\ codes' = Append(codes, NewCode(Len(requests) + 1))
  /\ Ends(s)
  /\ UNCHANGED missed

CommitResend(s) ==
  /\ At(s, "resend", "read")
  /\ Len(codes) < MaxCodes
  /\ Free(s, session[s].active)
  /\ codes' = Append(Invalidated(session[s].active), NewCode(session[s].request))
  /\ Ends(s)
  /\ UNCHANGED <<milestone, requests, missed>>

-----------------------------------------------------------------------------
(* Answering with a code.                                                  *)

(* SELECT ... FOR UPDATE waits for the rows its snapshot found ...         *)
FindCode(s) ==
  /\ At(s, "verify", "read")
  /\ session' = [session EXCEPT ![s] =
       [@ EXCEPT !.at = "found", !.active = ActiveCodes(session[s].request)]]
  /\ UNCHANGED <<milestone, requests, codes, missed, holder>>

Loads(s, k) ==
  /\ k \in session[s].active /\ codes[k].status = "ACTIVE"
  /\ session' = [session EXCEPT ![s] =
       [@ EXCEPT !.at = "locked", !.code = k, !.tries = codes[k].attempts]]
  /\ UNCHANGED <<milestone, requests, codes, missed>>

(* Bug: the code is read without its row being locked.                     *)
BugLockCode(s, k) ==
  /\ At(s, "verify", "found")
  /\ Loads(s, k)
  /\ UNCHANGED holder

(* ... and returns those that are still ACTIVE, as they are now, the       *)
(* latest first.  Two that were sent at once may come in either order.     *)
LockCode(s, k) ==
  /\ At(s, "verify", "found")
  /\ Free(s, session[s].active)
  /\ Loads(s, k)
  /\ Takes(s, {j \in session[s].active : codes[j].status = "ACTIVE"})

Exhausted(attempts) == attempts >= MaxAttempts

Compares(s) == At(s, "verify", "locked")
Spent(s) == Exhausted(session[s].tries)
Late(s) == codes[session[s].code].age > 0

Refuse(s) ==
  /\ Compares(s)
  /\ Spent(s) \/ Late(s)
  /\ codes' = [codes EXCEPT ![session[s].code].status =
       IF Spent(s) THEN "INVALIDATED" ELSE "EXPIRED"]
  /\ Ends(s)
  /\ UNCHANGED <<milestone, requests, missed>>

(* The attempt is counted in the commit that precedes the answer.          *)
Miss(s) ==
  /\ Compares(s)
  /\ ~Spent(s) /\ ~Late(s)
  /\ session[s].answer # session[s].code
  /\ codes' = [codes EXCEPT ![session[s].code] =
       [@ EXCEPT !.attempts = session[s].tries + 1,
                 !.status = IF Exhausted(session[s].tries + 1) THEN "INVALIDATED"
                            ELSE codes[session[s].code].status]]
  /\ missed' = [missed EXCEPT ![session[s].code] = @ + 1]
  /\ Ends(s)
  /\ UNCHANGED <<milestone, requests>>

Match(s) ==
  /\ Compares(s)
  /\ ~Spent(s) /\ ~Late(s)
  /\ session[s].answer = session[s].code
  /\ Moves(s, "matched")
  /\ UNCHANGED <<milestone, requests, codes, missed, holder>>

(* The milestone is locked, its money posted back, and all of it committed. *)
CommitRefund(s) ==
  /\ At(s, "verify", "matched")
  /\ Free(s, {Milestone}) /\ milestone = "CANCELLATION_REQUESTED"
  /\ codes' = [codes EXCEPT ![session[s].code] =
       [@ EXCEPT !.attempts = session[s].tries + 1, !.status = "CONSUMED"]]
  /\ requests' = [requests EXCEPT ![session[s].request] = "CONFIRMED"]
  /\ milestone' = "CANCELLED"
  /\ Ends(s)
  /\ UNCHANGED missed

-----------------------------------------------------------------------------
(* Declining.                                                              *)

(* Bug: the transition is checked on what was loaded before the lock.      *)
BugLockForDecline(s) ==
  /\ At(s, "decline", "read")
  /\ Free(s, {Milestone})
  /\ Takes(s, {Milestone})
  /\ Moves(s, "locked")
  /\ UNCHANGED <<milestone, requests, codes, missed>>

LockForDecline(s) ==
  /\ At(s, "decline", "read")
  /\ Free(s, {Milestone}) /\ milestone = "CANCELLATION_REQUESTED"
  /\ Takes(s, {Milestone})
  /\ Moves(s, "locked")
  /\ UNCHANGED <<milestone, requests, codes, missed>>

(* The codes it loaded as ACTIVE are written when it commits.              *)
CommitDecline(s) ==
  /\ At(s, "decline", "locked")
  /\ Free(s, session[s].active)
  /\ requests' = [requests EXCEPT ![session[s].request] = "DECLINED"]
  /\ codes' = Invalidated(session[s].active)
  /\ milestone' = "FUNDED"
  /\ Ends(s)
  /\ UNCHANGED missed

-----------------------------------------------------------------------------
(* The request is refused, its thread dies, or PostgreSQL ends it to break *)
(* a deadlock: nothing is written.                                         *)
Rollback(s) ==
  /\ session[s].op # "idle"
  /\ Ends(s)
  /\ UNCHANGED <<milestone, requests, codes, missed>>

(* Codes age in the order they were sent.                                  *)
Elapse(k) ==
  /\ codes[k].age < 2
  /\ \A j \in 1 .. k - 1 : codes[j].age > codes[k].age
  /\ codes' = [codes EXCEPT ![k].age = @ + 1]
  /\ UNCHANGED <<milestone, requests, missed, session, holder>>

Asks(s) ==
  \/ AskRequest(s)
  \/ \E op \in {"resend", "verify", "decline"}, r \in DOMAIN requests, answer \in Code \cup {0} :
       AskAboutRequest(s, op, r, answer)

Runs(s) ==
  \/ LockForRequest(s) \/ CommitRequest(s) \/ CommitResend(s)
  \/ FindCode(s) \/ \E k \in Code : LockCode(s, k)
  \/ Refuse(s) \/ Miss(s) \/ Match(s) \/ CommitRefund(s)
  \/ LockForDecline(s) \/ CommitDecline(s)

Next ==
  \/ \E s \in Threads : Asks(s) \/ Runs(s) \/ Rollback(s)
  \/ \E k \in DOMAIN codes : Elapse(k)

Spec == Init /\ [][Next]_vars

-----------------------------------------------------------------------------
(* However answers overlap, a code takes no more wrong ones than           *)
(* OTP_MAX_ATTEMPTS: each that was given has been counted.                 *)
GuessesAreCounted ==
  \A k \in DOMAIN codes : missed[k] <= codes[k].attempts /\ codes[k].attempts <= MaxAttempts

(* As far as cancellations go (disputes cancel milestones too), the        *)
(* milestone is cancelled, its money back with the client, exactly when    *)
(* one request for it was confirmed, by a right answer to one of that      *)
(* request's own codes.  That request may have been declined: a code sent  *)
(* meanwhile outlives a decline that has not loaded it.                    *)
ConfirmedByItsCode ==
  /\ milestone = "CANCELLED" <=> \E r \in DOMAIN requests : requests[r] = "CONFIRMED"
  /\ \A r \in DOMAIN requests : requests[r] = "CONFIRMED" =>
       \E k \in DOMAIN codes : codes[k].request = r /\ codes[k].attempts > missed[k]

(* resend_code(): "The old code stops working immediately - leaving both   *)
(* live would double an attacker's guessing budget."                       *)
OneLiveCode == \A r \in DOMAIN requests : \A j, k \in ActiveCodes(r) : j = k
=============================================================================
