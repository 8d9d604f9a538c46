----------------------------- MODULE CodesProofs -----------------------------
(***************************************************************************)
(* Machine-checked safety of the one-time codes, for any number of         *)
(* handlers at once, any limits, and any number of codes.                  *)
(*                                                                         *)
(* What a handler has loaded of a code stays true because it has locked    *)
(* the code's row and loaded it after; what it found the milestone to be   *)
(* stays true because it has locked the milestone's.  All that is counted  *)
(* and decided rests on these two.                                         *)
(***************************************************************************)
EXTENDS Codes, SequenceTheorems, TLAPS

-----------------------------------------------------------------------------
(* The strengthening: first of each session on its own.                    *)

Holding(s, op) == session[s].op = op /\ session[s].at \in {"locked", "matched"}

RefersToRows(s) ==
  /\ session[s].active \subseteq DOMAIN codes
  /\ session[s].code # 0 => session[s].code \in DOMAIN codes
  /\ Holding(s, "verify") => session[s].code # 0
  /\ session[s].op \in {"resend", "verify", "decline"} => session[s].request \in DOMAIN requests

(* The codes a session waits for are its request's.                        *)
FoundItsOwn(s) ==
  session[s].op = "verify" /\ session[s].at = "found"
    => \A k \in session[s].active : codes[k].request = session[s].request

(* The code it compares with is locked, as it was loaded, and its own; the *)
(* attempt that matched was one of those allowed.                          *)
LoadedIsCurrent(s) ==
  Holding(s, "verify") =>
    /\ holder[session[s].code] = s
    /\ codes[session[s].code].attempts = session[s].tries
    /\ codes[session[s].code].request = session[s].request
    /\ session[s].at = "matched" => session[s].tries < MaxAttempts

(* A milestone that is locked is as it was found.                          *)
MilestoneIsCurrent(s) ==
  /\ Holding(s, "request") => holder[Milestone] = s /\ milestone = "FUNDED"
  /\ Holding(s, "decline") => holder[Milestone] = s /\ milestone = "CANCELLATION_REQUESTED"

Sound(s) ==
  RefersToRows(s) /\ FoundItsOwn(s) /\ LoadedIsCurrent(s) /\ MilestoneIsCurrent(s)

Typed ==
  /\ milestone \in MilestoneStatuses
  /\ requests \in Seq(CancellationStatuses)
  /\ codes \in Seq(OtpRows) /\ Len(codes) <= MaxCodes
  /\ missed \in [Code -> Nat]
  /\ session \in [Threads -> Sessions]
  /\ holder \in [Rows -> Threads \cup {None}]

(* A code that has not been sent has not been missed either.               *)
UnsentIsUnmissed == \A k \in Code : k \notin DOMAIN codes => missed[k] = 0

IInv ==
  /\ Typed
  /\ \A s \in Threads : Sound(s)
  /\ UnsentIsUnmissed
  /\ GuessesAreCounted
  /\ ConfirmedByItsCode

-----------------------------------------------------------------------------
(* Sequences that are changed in place.                                    *)

LEMMA SameLength ==
  ASSUME NEW S, NEW f \in Seq(S), NEW g,
         g = [i \in DOMAIN f |-> g[i]], \A i \in DOMAIN f : g[i] \in S
  PROVE  g \in Seq(S) /\ Len(g) = Len(f) /\ DOMAIN g = DOMAIN f
  <1>1. DOMAIN f = 1 .. Len(f) /\ Len(f) \in Nat
    BY LenProperties
  <1>2. g \in [1 .. Len(f) -> S]
    BY <1>1
  <1>3. g \in Seq(S)
    BY <1>1, <1>2, SeqDef
  <1>4. DOMAIN g = 1 .. Len(g) /\ Len(g) \in Nat
    BY <1>3, LenProperties
  <1>5. DOMAIN g = 1 .. Len(f)
    BY <1>2
  <1>6. Len(g) = Len(f)
    BY <1>1, <1>4, <1>5
  <1> QED BY <1>1, <1>3, <1>5, <1>6

LEMMA CodesAreCodes ==
  ASSUME Typed
  PROVE  DOMAIN codes = 1 .. Len(codes) /\ Len(codes) \in Nat /\ DOMAIN codes \subseteq Code
  <1>1. DOMAIN codes = 1 .. Len(codes) /\ Len(codes) \in Nat
    BY LenProperties DEF Typed
  <1> QED BY <1>1, LimitsAssumption DEF Typed, Code

LEMMA MilestoneIsNoCode == Milestone \in Rows /\ Code \subseteq Rows /\ Milestone \notin Code
  BY DEF Milestone, Rows, Code

-----------------------------------------------------------------------------
(* What a step by s leaves to the others.                                  *)

Stands(s) ==
  /\ \A t \in Threads \ {s} :
       session'[t] = session[t] /\ \A r \in Rows : holder[r] = t => holder'[r] = t
  /\ DOMAIN codes \subseteq DOMAIN codes'
  /\ \A k \in DOMAIN codes :
       /\ codes'[k].request = codes[k].request
       /\ codes'[k].attempts = codes[k].attempts \/ holder[k] = s
  /\ DOMAIN requests \subseteq DOMAIN requests'
  /\ milestone' = milestone \/ holder[Milestone] \in {s, None}

LEMMA OthersStaySound ==
  ASSUME IInv, NEW s, Stands(s), NEW t \in Threads \ {s}
  PROVE  Sound(t)'
  <1>1. Sound(t) /\ session[t] \in Sessions /\ session'[t] = session[t]
    BY DEF IInv, Typed, Stands
  <1>2. t # None /\ Milestone \in Rows /\ DOMAIN codes \subseteq Rows
    BY NobodyAssumption, CodesAreCodes, MilestoneIsNoCode DEF IInv
  <1>3. RefersToRows(t)'
    BY <1>1 DEF Sound, RefersToRows, Holding, Stands
  <1>4. FoundItsOwn(t)'
    BY <1>1 DEF Sound, RefersToRows, FoundItsOwn, Holding, Stands
  <1>5. LoadedIsCurrent(t)'
    BY <1>1, <1>2 DEF Sound, RefersToRows, LoadedIsCurrent, Holding, Stands
  <1>6. MilestoneIsCurrent(t)'
    BY <1>1, <1>2 DEF Sound, MilestoneIsCurrent, Holding, Stands
  <1> QED BY <1>3, <1>4, <1>5, <1>6 DEF Sound

-----------------------------------------------------------------------------
(* Steps that write no row: they ask, lock, read and compare.              *)

LEMMA IdleIsSound ==
  ASSUME NEW s \in Threads, session' = [session EXCEPT ![s] = Idle], Typed
  PROVE  Sound(s)' /\ Idle \in Sessions
  <1>1. session'[s] = Idle
    BY DEF Typed
  <1>2. Idle \in Sessions
    BY LimitsAssumption DEF Idle, Sessions, Ops
  <1>3. RefersToRows(s)' /\ FoundItsOwn(s)' /\ LoadedIsCurrent(s)' /\ MilestoneIsCurrent(s)'
    BY <1>1 DEF Idle, RefersToRows, FoundItsOwn, LoadedIsCurrent, MilestoneIsCurrent, Holding
  <1> QED BY <1>2, <1>3 DEF Sound

(* What a handler locks was free or its own; what it releases was its own. *)
LEMMA LocksOfOthers ==
  ASSUME Typed, NEW s \in Threads, NEW rows \in SUBSET Rows,
         holder' = holder \/ (Free(s, rows) /\ Takes(s, rows)) \/ Ends(s)
  PROVE  /\ holder' \in [Rows -> Threads \cup {None}]
         /\ \A t \in Threads \ {s} : \A r \in Rows : holder[r] = t => holder'[r] = t
  BY NobodyAssumption DEF Typed, Free, Takes, Ends

LEMMA QuietStep ==
  ASSUME IInv, NEW s \in Threads, NEW x \in Sessions, session' = [session EXCEPT ![s] = x],
         NEW rows \in SUBSET Rows,
         holder' = holder \/ (Free(s, rows) /\ Takes(s, rows)) \/ Ends(s),
         UNCHANGED <<milestone, requests, codes, missed>>, Sound(s)'
  PROVE  IInv'
  <1>1. Typed
    BY DEF IInv
  <1>2. /\ holder' \in [Rows -> Threads \cup {None}]
        /\ \A t \in Threads \ {s} : \A r \in Rows : holder[r] = t => holder'[r] = t
    BY <1>1, LocksOfOthers
  <1>3. Stands(s)
    BY <1>1, <1>2 DEF Stands, Typed
  <1>4. \A t \in Threads : Sound(t)'
    BY <1>3, OthersStaySound
  <1>5. Typed'
    BY <1>1, <1>2 DEF Typed
  <1>6. UnsentIsUnmissed' /\ GuessesAreCounted' /\ ConfirmedByItsCode'
    BY DEF IInv, UnsentIsUnmissed, GuessesAreCounted, ConfirmedByItsCode
  <1> QED BY <1>4, <1>5, <1>6 DEF IInv

LEMMA AskRequestPreserves ==
  ASSUME IInv, NEW s \in Threads, AskRequest(s)
  PROVE  IInv'
  <1> DEFINE x == [Idle EXCEPT !.op = "request"]
  <1>1. x \in Sessions
    BY LimitsAssumption DEF Idle, Sessions, Ops
  <1>2. session' = [session EXCEPT ![s] = x] /\ session'[s] = x
    BY DEF AskRequest, IInv, Typed
  <1>3. Sound(s)'
    BY <1>2 DEF Idle, Sound, RefersToRows, FoundItsOwn, LoadedIsCurrent, MilestoneIsCurrent, Holding
  <1> HIDE DEF x
  <1> QED BY <1>1, <1>2, <1>3, QuietStep DEF AskRequest

LEMMA AskAboutRequestPreserves ==
  ASSUME IInv, NEW s \in Threads, NEW op \in {"resend", "verify", "decline"},
         NEW r \in DOMAIN requests, NEW answer \in Code \cup {0},
         AskAboutRequest(s, op, r, answer)
  PROVE  IInv'
  <1> DEFINE own == ActiveCodes(r)
  <1> DEFINE x == [Idle EXCEPT !.op = op, !.request = r, !.answer = answer, !.active = own]
  <1>1. r \in Nat
    BY LenProperties DEF IInv, Typed
  <1>2. own \subseteq DOMAIN codes /\ DOMAIN codes \subseteq Code
    BY CodesAreCodes DEF ActiveCodes, IInv
  <1>3. session' = [session EXCEPT ![s] = x] /\ session'[s] = x
    BY DEF AskAboutRequest, IInv, Typed
  <1> HIDE DEF own
  <1>4. x \in Sessions
    <2>1. Idle \in Sessions
      BY LimitsAssumption DEF Idle, Sessions, Ops
    <2>2. own \in SUBSET Code /\ op \in Ops
      BY <1>2 DEF Ops
    <2> QED BY <1>1, <2>1, <2>2 DEF Sessions
  <1>5. x.active \subseteq DOMAIN codes /\ x.code = 0 /\ x.at = "read" /\ x.request = r
    BY <1>2 DEF Idle
  <1> HIDE DEF x
  <1>6. Sound(s)'
    BY <1>3, <1>5
    DEF Sound, RefersToRows, FoundItsOwn, LoadedIsCurrent, MilestoneIsCurrent, Holding,
        AskAboutRequest
  <1> QED BY <1>3, <1>4, <1>6, QuietStep DEF AskAboutRequest

LEMMA LockMilestonePreserves ==
  ASSUME IInv, NEW s \in Threads, LockForRequest(s) \/ LockForDecline(s)
  PROVE  IInv'
  <1> DEFINE x == [session[s] EXCEPT !.at = "locked"]
  <1>1. session[s] \in Sessions /\ Sound(s) /\ session[s].at = "read"
        /\ session[s].op \in {"request", "decline"}
    BY DEF IInv, Typed, LockForRequest, LockForDecline, At
  <1>2. x \in Sessions /\ x.at = "locked" /\ x.op = session[s].op /\ x.code = session[s].code
        /\ x.active = session[s].active /\ x.request = session[s].request
    BY <1>1 DEF Sessions
  <1>3. session' = [session EXCEPT ![s] = x] /\ session'[s] = x
    BY DEF LockForRequest, LockForDecline, Moves, IInv, Typed
  <1> HIDE DEF x
  <1>4. UNCHANGED <<milestone, requests, codes, missed>>
        /\ Free(s, {Milestone}) /\ Takes(s, {Milestone})
    BY DEF LockForRequest, LockForDecline
  <1>5. holder'[Milestone] = s
    BY <1>4, MilestoneIsNoCode DEF Takes
  <1>6. RefersToRows(s)'
    BY <1>1, <1>2, <1>3, <1>4 DEF Sound, RefersToRows, Holding
  <1>7. FoundItsOwn(s)' /\ LoadedIsCurrent(s)'
    BY <1>1, <1>2, <1>3 DEF FoundItsOwn, LoadedIsCurrent, Holding
  <1>8. MilestoneIsCurrent(s)'
    BY <1>2, <1>3, <1>4, <1>5 DEF MilestoneIsCurrent, Holding, LockForRequest, LockForDecline, At
  <1>9. {Milestone} \in SUBSET Rows
    BY MilestoneIsNoCode
  <1> QED BY <1>2, <1>3, <1>4, <1>6, <1>7, <1>8, <1>9, QuietStep DEF Sound

LEMMA FindCodePreserves ==
  ASSUME IInv, NEW s \in Threads, FindCode(s)
  PROVE  IInv'
  <1> DEFINE own == ActiveCodes(session[s].request)
  <1> DEFINE x == [session[s] EXCEPT !.at = "found", !.active = own]
  <1>1. session[s] \in Sessions /\ Sound(s) /\ session[s].op = "verify"
    BY DEF IInv, Typed, FindCode, At
  <1>2. own \subseteq DOMAIN codes /\ DOMAIN codes \subseteq Code
        /\ \A k \in own : codes[k].request = session[s].request
    BY CodesAreCodes DEF ActiveCodes, IInv
  <1>3. session' = [session EXCEPT ![s] = x] /\ session'[s] = x
    BY DEF FindCode, IInv, Typed
  <1> HIDE DEF own
  <1>4. x \in Sessions /\ x.at = "found" /\ x.op = session[s].op /\ x.code = session[s].code
        /\ x.active = own /\ x.request = session[s].request
    BY <1>1, <1>2 DEF Sessions
  <1> HIDE DEF x
  <1>5. RefersToRows(s)'
    BY <1>1, <1>2, <1>3, <1>4 DEF Sound, RefersToRows, Holding, FindCode
  <1>6. FoundItsOwn(s)' /\ LoadedIsCurrent(s)' /\ MilestoneIsCurrent(s)'
    BY <1>2, <1>3, <1>4 DEF FoundItsOwn, LoadedIsCurrent, MilestoneIsCurrent, Holding, FindCode
  <1> QED BY <1>3, <1>4, <1>5, <1>6, QuietStep DEF Sound, FindCode

LEMMA LockCodePreserves ==
  ASSUME IInv, NEW s \in Threads, NEW k \in Code, LockCode(s, k)
  PROVE  IInv'
  <1> DEFINE x == [session[s] EXCEPT !.at = "locked", !.code = k, !.tries = codes[k].attempts]
  <1> DEFINE rows == {j \in session[s].active : codes[j].status = "ACTIVE"}
  <1>1. session[s] \in Sessions /\ Sound(s) /\ At(s, "verify", "found")
    BY DEF IInv, Typed, LockCode
  <1>2. k \in session[s].active /\ session[s].active \subseteq DOMAIN codes
        /\ codes[k].request = session[s].request /\ k \in rows
    BY <1>1 DEF LockCode, Loads, Sound, RefersToRows, FoundItsOwn, At
  <1>3. codes[k] \in OtpRows /\ k # 0
    BY <1>2, LenProperties DEF IInv, Typed, Code
  <1>4. session' = [session EXCEPT ![s] = x] /\ session'[s] = x
    BY DEF LockCode, Loads, IInv, Typed
  <1>5. /\ UNCHANGED <<milestone, requests, codes, missed>>
        /\ Free(s, rows) /\ Takes(s, rows)
    BY DEF LockCode, Loads, Free
  <1>6. rows \in SUBSET Rows
    BY <1>2, CodesAreCodes, MilestoneIsNoCode DEF IInv
  <1>7. holder'[k] = s
    BY <1>2, <1>5, <1>6 DEF Takes
  <1> HIDE DEF rows
  <1>8. x \in Sessions /\ x.at = "locked" /\ x.op = "verify" /\ x.code = k
        /\ x.active = session[s].active /\ x.request = session[s].request
        /\ x.tries = codes[k].attempts
    BY <1>1, <1>3 DEF Sessions, OtpRows, At
  <1> HIDE DEF x
  <1>9. RefersToRows(s)'
    BY <1>1, <1>2, <1>3, <1>4, <1>5, <1>8 DEF Sound, RefersToRows, Holding, At
  <1>10. LoadedIsCurrent(s)'
    BY <1>2, <1>4, <1>5, <1>7, <1>8 DEF LoadedIsCurrent, Holding
  <1>11. FoundItsOwn(s)' /\ MilestoneIsCurrent(s)'
    BY <1>4, <1>8 DEF FoundItsOwn, MilestoneIsCurrent, Holding
  <1> QED BY <1>4, <1>5, <1>6, <1>8, <1>9, <1>10, <1>11, QuietStep DEF Sound

LEMMA MatchPreserves ==
  ASSUME IInv, NEW s \in Threads, Match(s)
  PROVE  IInv'
  <1> DEFINE x == [session[s] EXCEPT !.at = "matched"]
  <1>1. session[s] \in Sessions /\ Sound(s) /\ At(s, "verify", "locked")
        /\ session[s].tries < MaxAttempts
    BY LimitsAssumption DEF IInv, Typed, Match, Compares, Spent, Exhausted, Sessions
  <1>2. session' = [session EXCEPT ![s] = x] /\ session'[s] = x
    BY DEF Match, Moves, IInv, Typed
  <1>3. x \in Sessions /\ x.at = "matched" /\ x.op = "verify" /\ x.code = session[s].code
        /\ x.active = session[s].active /\ x.request = session[s].request
        /\ x.tries = session[s].tries
    BY <1>1 DEF Sessions, At
  <1> HIDE DEF x
  <1>4. RefersToRows(s)'
    BY <1>1, <1>2, <1>3 DEF Sound, RefersToRows, Holding, At, Match
  <1>5. LoadedIsCurrent(s)'
    BY <1>1, <1>2, <1>3 DEF Sound, LoadedIsCurrent, Holding, At, Match
  <1>6. FoundItsOwn(s)' /\ MilestoneIsCurrent(s)'
    BY <1>2, <1>3 DEF FoundItsOwn, MilestoneIsCurrent, Holding
  <1> QED BY <1>2, <1>3, <1>4, <1>5, <1>6, QuietStep DEF Sound, Match

LEMMA RollbackPreserves ==
  ASSUME IInv, NEW s \in Threads, Rollback(s)
  PROVE  IInv'
  BY IdleIsSound, QuietStep DEF Rollback, Ends, IInv

-----------------------------------------------------------------------------
(* Steps that write rows, and release all that their session had locked.   *)

LEMMA Appended ==
  ASSUME NEW S, NEW f \in Seq(S), NEW e \in S
  PROVE  /\ Append(f, e) \in Seq(S)
         /\ Len(Append(f, e)) = Len(f) + 1
         /\ Append(f, e)[Len(f) + 1] = e
         /\ \A i \in DOMAIN f : Append(f, e)[i] = f[i]
         /\ DOMAIN Append(f, e) = DOMAIN f \cup {Len(f) + 1}
         /\ Len(f) + 1 \notin DOMAIN f
  <1>1. DOMAIN f = 1 .. Len(f) /\ Len(f) \in Nat
    BY LenProperties
  <1>2. Append(f, e) \in Seq(S) /\ Len(Append(f, e)) = Len(f) + 1
    OBVIOUS
  <1>3. DOMAIN Append(f, e) = 1 .. Len(f) + 1
    BY <1>2, LenProperties
  <1>4. DOMAIN Append(f, e) = DOMAIN f \cup {Len(f) + 1} /\ Len(f) + 1 \notin DOMAIN f
    BY <1>1, <1>3
  <1>5. Append(f, e)[Len(f) + 1] = e /\ \A i \in DOMAIN f : Append(f, e)[i] = f[i]
    BY <1>1
  <1> QED BY <1>2, <1>4, <1>5

(* A code that is stopped keeps its request and its attempts.              *)
LEMMA InvalidatedCodes ==
  ASSUME Typed, NEW rows
  PROVE  /\ Invalidated(rows) \in Seq(OtpRows)
         /\ Len(Invalidated(rows)) = Len(codes)
         /\ DOMAIN Invalidated(rows) = DOMAIN codes
         /\ \A k \in DOMAIN codes :
              /\ Invalidated(rows)[k].request = codes[k].request
              /\ Invalidated(rows)[k].attempts = codes[k].attempts
  <1> DEFINE g == Invalidated(rows)
  <1>1. codes \in Seq(OtpRows) /\ \A k \in DOMAIN codes : codes[k] \in OtpRows
    BY LenProperties DEF Typed
  <1>2. \A k \in DOMAIN codes :
          g[k] = IF k \in rows THEN [codes[k] EXCEPT !.status = "INVALIDATED"] ELSE codes[k]
    BY DEF Invalidated
  <1>3. \A k \in DOMAIN codes : g[k] \in OtpRows /\ g[k].request = codes[k].request
                                /\ g[k].attempts = codes[k].attempts
    BY <1>1, <1>2 DEF OtpRows, OtpStatuses
  <1>4. g = [k \in DOMAIN codes |-> g[k]]
    BY DEF Invalidated
  <1> HIDE DEF g
  <1>5. g \in Seq(OtpRows) /\ Len(g) = Len(codes) /\ DOMAIN g = DOMAIN codes
    BY <1>1, <1>3, <1>4, SameLength
  <1> QED BY <1>3, <1>5 DEF g

(* What is left to show of a step that ends its session.                   *)
LEMMA EndStep ==
  ASSUME IInv, NEW s \in Threads, Ends(s),
         /\ DOMAIN codes \subseteq DOMAIN codes'
         /\ \A k \in DOMAIN codes :
              /\ codes'[k].request = codes[k].request
              /\ codes'[k].attempts = codes[k].attempts \/ holder[k] = s
         /\ DOMAIN requests \subseteq DOMAIN requests'
         /\ milestone' = milestone \/ holder[Milestone] \in {s, None},
         milestone' \in MilestoneStatuses, requests' \in Seq(CancellationStatuses),
         codes' \in Seq(OtpRows), Len(codes') <= MaxCodes, missed' \in [Code -> Nat],
         UnsentIsUnmissed', GuessesAreCounted', ConfirmedByItsCode'
  PROVE  IInv'
  <1>1. Typed
    BY DEF IInv
  <1>2. session' = [session EXCEPT ![s] = Idle] /\ Idle \in Sessions /\ Sound(s)'
    BY <1>1, IdleIsSound DEF Ends
  <1>3. /\ holder' \in [Rows -> Threads \cup {None}]
        /\ \A t \in Threads \ {s} : \A r \in Rows : holder[r] = t => holder'[r] = t
    BY <1>1, LocksOfOthers
  <1>4. Stands(s)
    BY <1>1, <1>2, <1>3 DEF Stands, Typed
  <1>5. \A t \in Threads : Sound(t)'
    BY <1>2, <1>4, OthersStaySound
  <1>6. session' \in [Threads -> Sessions]
    BY <1>1, <1>2 DEF Typed
  <1>7. Typed'
    BY <1>3, <1>6 DEF Typed
  <1> QED BY <1>5, <1>7 DEF IInv

LEMMA Rewritten ==
  ASSUME Typed, NEW c \in DOMAIN codes, NEW x \in OtpRows
  PROVE  LET new == [codes EXCEPT ![c] = x]
         IN  /\ new \in Seq(OtpRows) /\ Len(new) = Len(codes) /\ DOMAIN new = DOMAIN codes
             /\ new[c] = x
             /\ \A k \in DOMAIN codes \ {c} : new[k] = codes[k]
  <1> DEFINE new == [codes EXCEPT ![c] = x]
  <1>1. codes \in Seq(OtpRows) /\ \A k \in DOMAIN codes : codes[k] \in OtpRows
    BY LenProperties DEF Typed
  <1>2. new[c] = x /\ \A k \in DOMAIN codes \ {c} : new[k] = codes[k]
    OBVIOUS
  <1>3. new = [k \in DOMAIN codes |-> new[k]]
    OBVIOUS
  <1>4. \A k \in DOMAIN codes : new[k] \in OtpRows
    BY <1>1, <1>2
  <1> HIDE DEF new
  <1>5. new \in Seq(OtpRows) /\ Len(new) = Len(codes) /\ DOMAIN new = DOMAIN codes
    BY <1>1, <1>3, <1>4, SameLength
  <1> QED BY <1>2, <1>5 DEF new

(* Marking a request changes no other, and it is one of those there were.  *)
LEMMA Marked ==
  ASSUME Typed, NEW r \in DOMAIN requests, NEW x \in CancellationStatuses
  PROVE  LET new == [requests EXCEPT ![r] = x]
         IN  /\ new \in Seq(CancellationStatuses) /\ DOMAIN new = DOMAIN requests
             /\ new[r] = x
             /\ \A q \in DOMAIN requests \ {r} : new[q] = requests[q]
  <1> DEFINE new == [requests EXCEPT ![r] = x]
  <1>1. requests \in Seq(CancellationStatuses)
        /\ \A q \in DOMAIN requests : requests[q] \in CancellationStatuses
    BY LenProperties DEF Typed
  <1>2. new[r] = x /\ \A q \in DOMAIN requests \ {r} : new[q] = requests[q]
    OBVIOUS
  <1>3. new = [q \in DOMAIN requests |-> new[q]]
    OBVIOUS
  <1>4. \A q \in DOMAIN requests : new[q] \in CancellationStatuses
    BY <1>1, <1>2
  <1> HIDE DEF new
  <1>5. new \in Seq(CancellationStatuses) /\ DOMAIN new = DOMAIN requests
    BY <1>1, <1>3, <1>4, SameLength
  <1> QED BY <1>2, <1>5 DEF new

(* A code that is sent has never been guessed at.                          *)
LEMMA CommitRequestPreserves ==
  ASSUME IInv, NEW s \in Threads, CommitRequest(s)
  PROVE  IInv'
  <1> DEFINE new == NewCode(Len(requests) + 1)
  <1>1. Typed /\ holder[Milestone] = s /\ milestone = "FUNDED"
    BY DEF IInv, Sound, MilestoneIsCurrent, Holding, CommitRequest, At
  <1>2. DOMAIN codes = 1 .. Len(codes) /\ Len(codes) \in Nat /\ DOMAIN codes \subseteq Code
    BY <1>1, CodesAreCodes
  <1>3. Len(requests) \in Nat
    BY <1>1, LenProperties DEF Typed
  <1>4. new \in OtpRows /\ new.attempts = 0
    BY <1>3, LimitsAssumption DEF NewCode, OtpRows, OtpStatuses, Ages
  <1> HIDE DEF new
  <1>5. codes' = Append(codes, new) /\ Len(codes) < MaxCodes
    BY DEF CommitRequest, new
  <1>6. /\ codes' \in Seq(OtpRows) /\ Len(codes') = Len(codes) + 1
        /\ codes'[Len(codes) + 1] = new
        /\ \A k \in DOMAIN codes : codes'[k] = codes[k]
        /\ DOMAIN codes' = DOMAIN codes \cup {Len(codes) + 1}
        /\ Len(codes) + 1 \notin DOMAIN codes
    BY <1>1, <1>4, <1>5, Appended DEF Typed
  <1>7. Len(codes) + 1 \in Code /\ Len(codes') <= MaxCodes
    BY <1>2, <1>5, <1>6, LimitsAssumption DEF Code
  <1>8. /\ requests' \in Seq(CancellationStatuses)
        /\ requests'[Len(requests) + 1] = "AWAITING_RECEIVER"
        /\ \A r \in DOMAIN requests : requests'[r] = requests[r]
        /\ DOMAIN requests' = DOMAIN requests \cup {Len(requests) + 1}
    BY <1>1, Appended DEF Typed, CommitRequest, CancellationStatuses
  <1>9. UnsentIsUnmissed'
    BY <1>6 DEF IInv, UnsentIsUnmissed, CommitRequest
  <1>10. GuessesAreCounted'
    <2>1. missed'[Len(codes) + 1] = 0 /\ 0 <= MaxAttempts
      BY <1>6, <1>7, LimitsAssumption DEF IInv, UnsentIsUnmissed, CommitRequest
    <2> QED BY <2>1, <1>4, <1>6 DEF IInv, GuessesAreCounted, CommitRequest
  <1>11. ConfirmedByItsCode'
    <2>1. milestone' = "CANCELLATION_REQUESTED"
      BY DEF CommitRequest
    <2>2. \A r \in DOMAIN requests' : requests'[r] # "CONFIRMED"
      BY <1>1, <1>8 DEF IInv, ConfirmedByItsCode
    <2> QED BY <2>1, <2>2 DEF ConfirmedByItsCode
  <1>12. Ends(s) /\ milestone' \in MilestoneStatuses /\ missed' \in [Code -> Nat]
    BY <1>1 DEF CommitRequest, MilestoneStatuses, Typed
  <1> QED BY <1>1, <1>6, <1>7, <1>8, <1>9, <1>10, <1>11, <1>12, EndStep

LEMMA CommitResendPreserves ==
  ASSUME IInv, NEW s \in Threads, CommitResend(s)
  PROVE  IInv'
  <1> DEFINE new == NewCode(session[s].request)
  <1> DEFINE old == Invalidated(session[s].active)
  <1>1. Typed
    BY DEF IInv
  <1>2. DOMAIN codes = 1 .. Len(codes) /\ Len(codes) \in Nat
    BY <1>1, CodesAreCodes
  <1>3. session[s].request \in Nat
    BY <1>1 DEF Typed, Sessions
  <1>4. new \in OtpRows /\ new.attempts = 0
    BY <1>3, LimitsAssumption DEF NewCode, OtpRows, OtpStatuses, Ages
  <1>5. codes' = Append(old, new) /\ Len(codes) < MaxCodes
    BY DEF CommitResend
  <1>6. /\ old \in Seq(OtpRows) /\ Len(old) = Len(codes) /\ DOMAIN old = DOMAIN codes
        /\ \A k \in DOMAIN codes : /\ old[k].request = codes[k].request
                                   /\ old[k].attempts = codes[k].attempts
    BY <1>1, InvalidatedCodes
  <1> HIDE DEF new, old
  <1>7. /\ codes' \in Seq(OtpRows) /\ Len(codes') = Len(codes) + 1
        /\ codes'[Len(codes) + 1] = new
        /\ \A k \in DOMAIN codes : codes'[k] = old[k]
        /\ DOMAIN codes' = DOMAIN codes \cup {Len(codes) + 1}
        /\ Len(codes) + 1 \notin DOMAIN codes
    BY <1>4, <1>5, <1>6, Appended
  <1>8. Len(codes) + 1 \in Code /\ Len(codes') <= MaxCodes
    BY <1>2, <1>5, <1>7, LimitsAssumption DEF Code
  <1>9. UnsentIsUnmissed'
    BY <1>7 DEF IInv, UnsentIsUnmissed, CommitResend
  <1>10. GuessesAreCounted'
    <2>1. missed'[Len(codes) + 1] = 0 /\ 0 <= MaxAttempts
      BY <1>7, <1>8, LimitsAssumption DEF IInv, UnsentIsUnmissed, CommitResend
    <2> QED BY <2>1, <1>4, <1>6, <1>7 DEF IInv, GuessesAreCounted, CommitResend
  <1>11. ConfirmedByItsCode'
    BY <1>6, <1>7 DEF IInv, ConfirmedByItsCode, CommitResend
  <1>12. Ends(s) /\ UNCHANGED <<milestone, requests, missed>>
    BY DEF CommitResend
  <1> QED BY <1>1, <1>6, <1>7, <1>8, <1>9, <1>10, <1>11, <1>12, EndStep DEF Typed

(* What an answer is compared with.                                        *)
LEMMA Compared ==
  ASSUME IInv, NEW s \in Threads, Holding(s, "verify")
  PROVE  LET c == session[s].code
         IN  /\ c \in DOMAIN codes /\ c \in Code /\ codes[c] \in OtpRows /\ holder[c] = s
             /\ codes[c].attempts = session[s].tries /\ session[s].tries \in 0 .. MaxAttempts
             /\ codes[c].request = session[s].request
             /\ session[s].request \in DOMAIN requests
             /\ session[s].at = "matched" => session[s].tries < MaxAttempts
  <1>1. Typed /\ RefersToRows(s) /\ LoadedIsCurrent(s)
    BY DEF IInv, Sound
  <1>2. session[s].code \in DOMAIN codes /\ session[s].request \in DOMAIN requests
    BY <1>1 DEF RefersToRows, Holding
  <1>3. session[s].code \in Code /\ codes[session[s].code] \in OtpRows
    BY <1>1, <1>2, CodesAreCodes, LenProperties DEF Typed
  <1>4. session[s].tries \in 0 .. MaxAttempts
    BY <1>1 DEF Typed, Sessions
  <1> QED BY <1>1, <1>2, <1>3, <1>4 DEF LoadedIsCurrent

LEMMA RefusePreserves ==
  ASSUME IInv, NEW s \in Threads, Refuse(s)
  PROVE  IInv'
  <1> DEFINE c == session[s].code
  <1> DEFINE x == [codes[c] EXCEPT !.status = IF Spent(s) THEN "INVALIDATED" ELSE "EXPIRED"]
  <1>1. Typed /\ Holding(s, "verify")
    BY DEF IInv, Holding, Refuse, Compares, At
  <1>2. c \in DOMAIN codes /\ codes[c] \in OtpRows
    BY <1>1, Compared
  <1>3. x \in OtpRows /\ x.request = codes[c].request /\ x.attempts = codes[c].attempts
    BY <1>2 DEF OtpRows, OtpStatuses
  <1>4. codes' = [codes EXCEPT ![c] = x]
    BY DEF Refuse
  <1> HIDE DEF x
  <1>5. /\ codes' \in Seq(OtpRows) /\ Len(codes') = Len(codes) /\ DOMAIN codes' = DOMAIN codes
        /\ codes'[c] = x
        /\ \A k \in DOMAIN codes \ {c} : codes'[k] = codes[k]
    BY <1>1, <1>2, <1>3, <1>4, Rewritten
  <1>6. \A k \in DOMAIN codes : /\ codes'[k].request = codes[k].request
                                /\ codes'[k].attempts = codes[k].attempts
    BY <1>3, <1>5
  <1>7. Ends(s) /\ UNCHANGED <<milestone, requests, missed>>
    BY DEF Refuse
  <1>8. UnsentIsUnmissed' /\ GuessesAreCounted' /\ ConfirmedByItsCode'
    BY <1>5, <1>6, <1>7 DEF IInv, UnsentIsUnmissed, GuessesAreCounted, ConfirmedByItsCode
  <1> QED BY <1>1, <1>5, <1>6, <1>7, <1>8, EndStep DEF Typed

(* The attempt that is counted is one more than the code has now, not than *)
(* it had once: no other answer can have counted its own in between.       *)
LEMMA MissPreserves ==
  ASSUME IInv, NEW s \in Threads, Miss(s)
  PROVE  IInv'
  <1> DEFINE c == session[s].code
  <1> DEFINE x == [codes[c] EXCEPT !.attempts = session[s].tries + 1,
                     !.status = IF Exhausted(session[s].tries + 1) THEN "INVALIDATED"
                                                                   ELSE codes[c].status]
  <1>1. Typed /\ Holding(s, "verify")
    BY DEF IInv, Holding, Miss, Compares, At
  <1>2. /\ c \in DOMAIN codes /\ c \in Code /\ codes[c] \in OtpRows /\ holder[c] = s
        /\ codes[c].attempts = session[s].tries
    BY <1>1, Compared
  <1>3. session[s].tries \in Nat /\ session[s].tries + 1 \in 0 .. MaxAttempts
    BY <1>1, Compared, LimitsAssumption DEF Miss, Spent, Exhausted
  <1>4. x \in OtpRows /\ x.request = codes[c].request /\ x.attempts = session[s].tries + 1
    BY <1>2, <1>3 DEF OtpRows, OtpStatuses
  <1>5. codes' = [codes EXCEPT ![c] = x]
    BY DEF Miss
  <1> HIDE DEF x
  <1>6. /\ codes' \in Seq(OtpRows) /\ Len(codes') = Len(codes) /\ DOMAIN codes' = DOMAIN codes
        /\ codes'[c] = x
        /\ \A k \in DOMAIN codes \ {c} : codes'[k] = codes[k]
    BY <1>1, <1>2, <1>4, <1>5, Rewritten
  <1>7. \A k \in DOMAIN codes : /\ codes'[k].request = codes[k].request
                                /\ codes'[k].attempts = codes[k].attempts \/ holder[k] = s
    BY <1>2, <1>4, <1>6
  <1>8. Ends(s) /\ UNCHANGED <<milestone, requests>>
    BY DEF Miss
  <1>9. /\ missed' \in [Code -> Nat] /\ missed[c] \in Nat /\ missed'[c] = missed[c] + 1
        /\ \A k \in Code \ {c} : missed'[k] = missed[k]
    BY <1>1, <1>2 DEF Typed, Miss
  <1>10. missed[c] <= codes[c].attempts
    BY <1>2 DEF IInv, GuessesAreCounted
  <1>11. UnsentIsUnmissed'
    BY <1>2, <1>6, <1>9 DEF IInv, UnsentIsUnmissed
  <1>12. GuessesAreCounted'
    <2>1. missed'[c] <= codes'[c].attempts /\ codes'[c].attempts <= MaxAttempts
      BY <1>2, <1>3, <1>4, <1>6, <1>9, <1>10, LimitsAssumption
    <2>2. \A k \in DOMAIN codes \ {c} : codes'[k] = codes[k] /\ missed'[k] = missed[k]
      BY <1>1, <1>6, <1>9, CodesAreCodes
    <2> QED BY <2>1, <2>2, <1>6 DEF IInv, GuessesAreCounted
  <1>13. ConfirmedByItsCode'
    <2>1. ASSUME NEW k \in DOMAIN codes, codes[k].attempts > missed[k]
          PROVE  codes'[k].attempts > missed'[k]
      <3>1. CASE k = c
        BY <3>1, <2>1, <1>2, <1>3, <1>4, <1>6, <1>9
      <3>2. CASE k # c
        BY <3>2, <2>1, <1>1, <1>6, <1>9, CodesAreCodes
      <3> QED BY <3>1, <3>2
    <2> QED BY <2>1, <1>6, <1>7, <1>8 DEF IInv, ConfirmedByItsCode
  <1> QED BY <1>1, <1>6, <1>7, <1>8, <1>9, <1>11, <1>12, <1>13, EndStep DEF Typed

(* The right answer is an attempt too, and one that was not missed.        *)
LEMMA CommitRefundPreserves ==
  ASSUME IInv, NEW s \in Threads, CommitRefund(s)
  PROVE  IInv'
  <1> DEFINE c == session[s].code
  <1> DEFINE r == session[s].request
  <1> DEFINE x == [codes[c] EXCEPT !.attempts = session[s].tries + 1, !.status = "CONSUMED"]
  <1>1. Typed /\ Holding(s, "verify") /\ session[s].at = "matched"
    BY DEF IInv, Holding, CommitRefund, At
  <1>2. /\ c \in DOMAIN codes /\ c \in Code /\ codes[c] \in OtpRows /\ holder[c] = s
        /\ codes[c].attempts = session[s].tries
        /\ codes[c].request = r /\ r \in DOMAIN requests
    BY <1>1, Compared
  <1>3. session[s].tries \in Nat /\ session[s].tries + 1 \in 0 .. MaxAttempts
    BY <1>1, Compared, LimitsAssumption
  <1>4. x \in OtpRows /\ x.request = codes[c].request /\ x.attempts = session[s].tries + 1
    BY <1>2, <1>3 DEF OtpRows, OtpStatuses
  <1>5. codes' = [codes EXCEPT ![c] = x]
    BY DEF CommitRefund
  <1> HIDE DEF x
  <1>6. /\ codes' \in Seq(OtpRows) /\ Len(codes') = Len(codes) /\ DOMAIN codes' = DOMAIN codes
        /\ codes'[c] = x
        /\ \A k \in DOMAIN codes \ {c} : codes'[k] = codes[k]
    BY <1>1, <1>2, <1>4, <1>5, Rewritten
  <1>7. \A k \in DOMAIN codes : /\ codes'[k].request = codes[k].request
                                /\ codes'[k].attempts = codes[k].attempts \/ holder[k] = s
    BY <1>2, <1>4, <1>6
  <1>8. /\ Ends(s) /\ missed' = missed /\ milestone' = "CANCELLED"
        /\ holder[Milestone] \in {s, None} /\ milestone = "CANCELLATION_REQUESTED"
    BY DEF CommitRefund, Free
  <1>9. /\ requests' \in Seq(CancellationStatuses) /\ DOMAIN requests' = DOMAIN requests
        /\ requests'[r] = "CONFIRMED"
        /\ \A q \in DOMAIN requests \ {r} : requests'[q] = requests[q]
    BY <1>1, <1>2, Marked DEF CommitRefund, CancellationStatuses
  <1>10. missed[c] \in Nat /\ missed[c] <= codes[c].attempts
    BY <1>1, <1>2 DEF IInv, GuessesAreCounted, Typed
  <1>11. UnsentIsUnmissed'
    BY <1>6, <1>8 DEF IInv, UnsentIsUnmissed
  <1>12. GuessesAreCounted'
    <2>1. missed'[c] <= codes'[c].attempts /\ codes'[c].attempts <= MaxAttempts
      BY <1>2, <1>3, <1>4, <1>6, <1>8, <1>10, LimitsAssumption
    <2> QED BY <2>1, <1>6, <1>8 DEF IInv, GuessesAreCounted
  <1>13. ConfirmedByItsCode'
    <2>1. \A q \in DOMAIN requests' : requests'[q] = "CONFIRMED" => q = r
      BY <1>8, <1>9 DEF IInv, ConfirmedByItsCode
    <2>2. codes'[c].request = r /\ codes'[c].attempts > missed'[c] /\ c \in DOMAIN codes'
      BY <1>2, <1>3, <1>4, <1>6, <1>8, <1>10
    <2> QED BY <2>1, <2>2, <1>2, <1>8, <1>9 DEF ConfirmedByItsCode
  <1>14. milestone' \in MilestoneStatuses /\ missed' \in [Code -> Nat]
    BY <1>1, <1>8 DEF MilestoneStatuses, Typed
  <1>15. Len(codes') <= MaxCodes
    BY <1>1, <1>6 DEF Typed
  <1> QED BY <1>6, <1>7, <1>8, <1>9, <1>11, <1>12, <1>13, <1>14, <1>15, EndStep

(* Nobody can have confirmed what is declined while its milestone is held. *)
LEMMA CommitDeclinePreserves ==
  ASSUME IInv, NEW s \in Threads, CommitDecline(s)
  PROVE  IInv'
  <1>1. Typed /\ holder[Milestone] = s /\ milestone = "CANCELLATION_REQUESTED"
    BY DEF IInv, Sound, MilestoneIsCurrent, Holding, CommitDecline, At
  <1>2. session[s].request \in DOMAIN requests
    BY DEF IInv, Sound, RefersToRows, CommitDecline, At
  <1>3. /\ codes' \in Seq(OtpRows) /\ Len(codes') = Len(codes) /\ DOMAIN codes' = DOMAIN codes
        /\ \A k \in DOMAIN codes : /\ codes'[k].request = codes[k].request
                                   /\ codes'[k].attempts = codes[k].attempts
    BY <1>1, InvalidatedCodes DEF CommitDecline
  <1>4. /\ requests' \in Seq(CancellationStatuses) /\ DOMAIN requests' = DOMAIN requests
        /\ requests'[session[s].request] = "DECLINED"
        /\ \A q \in DOMAIN requests \ {session[s].request} : requests'[q] = requests[q]
    BY <1>1, <1>2, Marked DEF CommitDecline, CancellationStatuses
  <1>5. Ends(s) /\ missed' = missed /\ milestone' = "FUNDED"
    BY DEF CommitDecline
  <1>6. UnsentIsUnmissed' /\ GuessesAreCounted'
    BY <1>3, <1>5 DEF IInv, UnsentIsUnmissed, GuessesAreCounted
  <1>7. ConfirmedByItsCode'
    <2>1. \A q \in DOMAIN requests' : requests'[q] # "CONFIRMED"
      BY <1>1, <1>4 DEF IInv, ConfirmedByItsCode
    <2> QED BY <2>1, <1>5 DEF ConfirmedByItsCode
  <1>8. milestone' \in MilestoneStatuses /\ missed' \in [Code -> Nat] /\ Len(codes') <= MaxCodes
    BY <1>1, <1>3, <1>5 DEF MilestoneStatuses, Typed
  <1> QED BY <1>1, <1>3, <1>4, <1>5, <1>6, <1>7, <1>8, EndStep

LEMMA ElapsePreserves ==
  ASSUME IInv, NEW c \in DOMAIN codes, Elapse(c)
  PROVE  IInv'
  <1> DEFINE x == [codes[c] EXCEPT !.age = @ + 1]
  <1>1. Typed /\ codes[c] \in OtpRows
    BY LenProperties DEF IInv, Typed
  <1>2. x \in OtpRows /\ x.request = codes[c].request /\ x.attempts = codes[c].attempts
    BY <1>1 DEF OtpRows, Ages, Elapse
  <1>3. codes' = [codes EXCEPT ![c] = x]
    BY <1>1 DEF Elapse
  <1> HIDE DEF x
  <1>4. /\ codes' \in Seq(OtpRows) /\ Len(codes') = Len(codes) /\ DOMAIN codes' = DOMAIN codes
        /\ codes'[c] = x
        /\ \A k \in DOMAIN codes \ {c} : codes'[k] = codes[k]
    BY <1>1, <1>2, <1>3, Rewritten
  <1>5. \A k \in DOMAIN codes : /\ codes'[k].request = codes[k].request
                                /\ codes'[k].attempts = codes[k].attempts
    BY <1>2, <1>4
  <1>6. UNCHANGED <<milestone, requests, missed, session, holder>>
    BY DEF Elapse
  <1>7. Stands(None)
    BY <1>4, <1>5, <1>6 DEF Stands
  <1>8. \A t \in Threads : Sound(t)'
    BY <1>7, OthersStaySound, NobodyAssumption
  <1>9. Typed'
    BY <1>1, <1>4, <1>6 DEF Typed
  <1>10. UnsentIsUnmissed' /\ GuessesAreCounted' /\ ConfirmedByItsCode'
    BY <1>4, <1>5, <1>6 DEF IInv, UnsentIsUnmissed, GuessesAreCounted, ConfirmedByItsCode
  <1> QED BY <1>8, <1>9, <1>10 DEF IInv

-----------------------------------------------------------------------------
LEMMA InitIsSound == Init => IInv
  <1> SUFFICES ASSUME Init PROVE IInv
    OBVIOUS
  <1>1. Idle \in Sessions
    BY LimitsAssumption DEF Idle, Sessions, Ops
  <1>2. codes \in Seq(OtpRows) /\ Len(codes) = 0 /\ requests \in Seq(CancellationStatuses)
        /\ DOMAIN codes = {} /\ DOMAIN requests = {}
    BY DEF Init
  <1>3. Typed
    BY <1>1, <1>2, LimitsAssumption DEF Typed, Init, MilestoneStatuses
  <1>4. \A s \in Threads : Sound(s)
    BY DEF Init, Idle, Sound, RefersToRows, FoundItsOwn, LoadedIsCurrent, MilestoneIsCurrent,
           Holding
  <1>5. UnsentIsUnmissed /\ GuessesAreCounted /\ ConfirmedByItsCode
    BY <1>2 DEF Init, UnsentIsUnmissed, GuessesAreCounted, ConfirmedByItsCode
  <1> QED BY <1>3, <1>4, <1>5 DEF IInv

LEMMA RunsPreserves ==
  ASSUME IInv, NEW s \in Threads, Runs(s)
  PROVE  IInv'
  <1>1. CASE LockForRequest(s) \/ LockForDecline(s)
    BY <1>1, LockMilestonePreserves
  <1>2. CASE CommitRequest(s)
    BY <1>2, CommitRequestPreserves
  <1>3. CASE CommitResend(s)
    BY <1>3, CommitResendPreserves
  <1>4. CASE FindCode(s)
    BY <1>4, FindCodePreserves
  <1>5. CASE \E k \in Code : LockCode(s, k)
    BY <1>5, LockCodePreserves
  <1>6. CASE Refuse(s)
    BY <1>6, RefusePreserves
  <1>7. CASE Miss(s)
    BY <1>7, MissPreserves
  <1>8. CASE Match(s)
    BY <1>8, MatchPreserves
  <1>9. CASE CommitRefund(s)
    BY <1>9, CommitRefundPreserves
  <1>10. CASE CommitDecline(s)
    BY <1>10, CommitDeclinePreserves
  <1> QED BY <1>1, <1>2, <1>3, <1>4, <1>5, <1>6, <1>7, <1>8, <1>9, <1>10 DEF Runs

LEMMA StepPreserves ==
  ASSUME IInv, [Next]_vars
  PROVE  IInv'
  <1>1. ASSUME NEW s \in Threads, Asks(s) PROVE IInv'
    <2>1. CASE AskRequest(s)
      BY <2>1, AskRequestPreserves
    <2>2. CASE \E op \in {"resend", "verify", "decline"}, r \in DOMAIN requests,
                  answer \in Code \cup {0} : AskAboutRequest(s, op, r, answer)
      BY <2>2, AskAboutRequestPreserves
    <2> QED BY <1>1, <2>1, <2>2 DEF Asks
  <1>2. ASSUME NEW s \in Threads, Runs(s) PROVE IInv'
    BY <1>2, RunsPreserves
  <1>3. ASSUME NEW s \in Threads, Rollback(s) PROVE IInv'
    BY <1>3, RollbackPreserves
  <1>4. ASSUME NEW k \in DOMAIN codes, Elapse(k) PROVE IInv'
    BY <1>4, ElapsePreserves
  <1>5. CASE UNCHANGED vars
    BY <1>5 DEF vars, IInv, Typed, Sound, RefersToRows, FoundItsOwn, LoadedIsCurrent,
                MilestoneIsCurrent, Holding, UnsentIsUnmissed, GuessesAreCounted,
                ConfirmedByItsCode
  <1> QED BY <1>1, <1>2, <1>3, <1>4, <1>5 DEF Next

(* The strengthening always holds.                                         *)
THEOREM Invariance == Spec => []IInv
  BY InitIsSound, StepPreserves, PTL DEF Spec

(* Sessions refer to codes and requests that exist, and an answer is       *)
(* compared with a code that was found.                                    *)
THEOREM CodesTypeCorrect == Spec => []TypeOK
  <1>1. IInv => TypeOK
    BY DEF IInv, Typed, Sound, RefersToRows, Holding, TypeOK
  <1> QED BY <1>1, Invariance, PTL

(* verify_code() counts every wrong answer, however many overlap: a code   *)
(* takes no more of them than OTP_MAX_ATTEMPTS.                            *)
THEOREM GuessesCounted == Spec => []GuessesAreCounted
  <1>1. IInv => GuessesAreCounted
    BY DEF IInv
  <1> QED BY <1>1, Invariance, PTL

(* As far as cancellations go, a milestone is cancelled exactly when one   *)
(* of its requests was confirmed by a right answer to a code that was sent *)
(* for that request.                                                       *)
THEOREM ConfirmedByOwnCode == Spec => []ConfirmedByItsCode
  <1>1. IInv => ConfirmedByItsCode
    BY DEF IInv
  <1> QED BY <1>1, Invariance, PTL

=============================================================================
