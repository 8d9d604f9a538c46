------------------------------ MODULE Assistance ------------------------------
(***************************************************************************)
(* The service's advice: reviews of agreements, briefs on disputes, the    *)
(* assistant, and Trust Scores.  A language model answers if its client    *)
(* can be had and its answer is usable, deterministic analysers if not;    *)
(* what the code does not foresee of either ends the request in an error.  *)
(* The score is computed by a model kept in the process.                   *)
(*                                                                         *)
(* Every request is served in a thread.  The client and the score's model  *)
(* are globals of the process, made by whoever needs them first: the       *)
(* client under a flag, the model under a lock that those who find it      *)
(* made do not take.                                                       *)
(***************************************************************************)
EXTENDS Integers

CONSTANTS
  Threads,    \* the process's threads
  Provider,   \* settings.ai_provider
  Installed,  \* whether the provider's package is
  Raw,        \* scores the model may give
  Evidence,   \* how many events an account may have
  None        \* no score, nobody

Providers == {"claude", "openai"}

ASSUME ProviderAssumption == Provider \in Providers \cup {"rules"} /\ Installed \in BOOLEAN
ASSUME ScoresAssumption == Raw \subseteq 0 .. 100 /\ Evidence \subseteq Nat
ASSUME NoneAssumption == None \notin Threads \cup Nat \cup Providers \cup {"rules"}

VARIABLES
  client,   \* _client is set (_openai_client for OpenAI)
  checked,  \* _client_checked
  pipeline, \* _pipeline is set
  means,    \* _feature_means is set
  lock,     \* who holds the model's lock
  latest,   \* the score last recorded for the user
  job       \* what each thread is in the middle of

vars == <<client, checked, pipeline, means, lock, latest, job>>

-----------------------------------------------------------------------------
(* The score.                                                              *)

MinEventsHigh == 15
MinEventsModerate == 5
ColdStartScore == 72

(* Bug: the weight reaches one with the events that make a score MODERATE. *)
BugBlend(raw, events) ==
  IF events >= MinEventsModerate THEN raw
  ELSE (2 * (events * raw + (MinEventsModerate - events) * ColdStartScore)
          + MinEventsModerate) \div (2 * MinEventsModerate)

(* _apply_cold_start(): rounded; fifteenths have no halves.                *)
Blend(raw, events) ==
  IF events >= MinEventsHigh THEN raw
  ELSE (2 * (events * raw + (MinEventsHigh - events) * ColdStartScore) + MinEventsHigh)
         \div (2 * MinEventsHigh)

ConfidenceFor(events) ==
  IF events >= MinEventsHigh THEN "HIGH"
  ELSE IF events >= MinEventsModerate THEN "MODERATE" ELSE "LIMITED"

RiskBands == [VERY_LOW |-> 90, LOW |-> 75, MEDIUM |-> 50, HIGH |-> 25, VERY_HIGH |-> 0]

BandForScore(score) ==
  CHOOSE band \in DOMAIN RiskBands :
    /\ score >= RiskBands[band]
    /\ \A other \in DOMAIN RiskBands :
         score >= RiskBands[other] => RiskBands[other] <= RiskBands[band]

-----------------------------------------------------------------------------
(* State.                                                                  *)

Reviews == {"review", "dispute"}
Scored == {"assistant", "explanation", "recalculate"}
Ops == Reviews \cup Scored \cup {"status", "idle"}

Steps ==
  {"idle", "score", "waiting", "locked", "loading", "predict", "record",
   "client", "unchecked", "build", "sent", "answer"}

Engines == Providers \cup {"rules"}

(* wants: what the client is asked for.  by: who wrote the answer.         *)
(* engine: who it says wrote it.  seen: the score last recorded, as a      *)
(* recalculation has read it.                                              *)
Jobs ==
  [op : Ops, at : Steps, wants : {"available", "call", "label"},
   by : Engines \cup {None, "error"}, engine : Engines \cup {None},
   score : 0 .. 100 \cup {None}, events : Evidence \cup {None},
   seen : 0 .. 100 \cup {None}]

TypeOK ==
  /\ {client, checked, pipeline, means} \subseteq BOOLEAN
  /\ lock \in Threads \cup {None}
  /\ latest \in 0 .. 100 \cup {None}
  /\ job \in [Threads -> Jobs]

Idle ==
  [op |-> "idle", at |-> "idle", wants |-> "available", by |-> None, engine |-> None,
   score |-> None, events |-> None, seen |-> None]

(* The process has started.                                                *)
Init ==
  /\ client = FALSE /\ checked = FALSE
  /\ pipeline = FALSE /\ means = FALSE /\ lock = None
  /\ latest = None
  /\ job = [t \in Threads |-> Idle]

-----------------------------------------------------------------------------
At(t, at) == job[t].at = at
Becomes(t, new) == job' = [job EXCEPT ![t] = new]
Goes(t, at) == Becomes(t, [job[t] EXCEPT !.at = at])

(* An exception nobody catches is answered with an error; nothing is       *)
(* stored.                                                                 *)
Raised(t) == [job[t] EXCEPT !.by = "error", !.at = "answer"]

Ask(t, op) ==
  /\ At(t, "idle")
  /\ Becomes(t, [Idle EXCEPT !.op = op, !.at = IF op \in Scored THEN "score" ELSE "client"])
  /\ UNCHANGED <<client, checked, pipeline, means, lock, latest>>

-----------------------------------------------------------------------------
(* Scoring: get_pipeline(), predict(), compute_score(), record_score().    *)

(* The status tells of the model, the others predict with it.              *)
Onward(t) == IF job[t].op = "status" THEN "answer" ELSE "predict"

SeePipeline(t) ==
  /\ At(t, "score")
  /\ Goes(t, IF pipeline THEN Onward(t) ELSE "waiting")
  /\ UNCHANGED <<client, checked, pipeline, means, lock, latest>>

TakeLock(t) ==
  /\ At(t, "waiting") /\ lock = None
  /\ lock' = t
  /\ Goes(t, "locked")
  /\ UNCHANGED <<client, checked, pipeline, means, latest>>

(* Another thread has made the model meanwhile.                            *)
FindLoaded(t) ==
  /\ At(t, "locked") /\ pipeline
  /\ lock' = None
  /\ Goes(t, Onward(t))
  /\ UNCHANGED <<client, checked, pipeline, means, latest>>

(* The pipeline is assigned before the means, loaded or trained.           *)
LoadPipeline(t) ==
  /\ At(t, "locked") /\ ~pipeline
  /\ pipeline' = TRUE
  /\ Goes(t, "loading")
  /\ UNCHANGED <<client, checked, means, lock, latest>>

LoadMeans(t) ==
  /\ At(t, "loading")
  /\ means' = TRUE /\ lock' = None
  /\ Goes(t, Onward(t))
  /\ UNCHANGED <<client, checked, pipeline, latest>>

Predict(t, raw, events) ==
  /\ At(t, "predict") /\ means
  /\ Becomes(t, [job[t] EXCEPT
       !.score = Blend(raw, events), !.events = events,
       !.seen = IF job[t].op = "recalculate" THEN latest ELSE None,
       !.at = IF job[t].op = "recalculate" THEN "record" ELSE "client"])
  /\ UNCHANGED <<client, checked, pipeline, means, lock, latest>>

(* A pipeline without means: the request fails.                            *)
PredictFails(t) ==
  /\ At(t, "predict") /\ ~means
  /\ Becomes(t, Raised(t))
  /\ UNCHANGED <<client, checked, pipeline, means, lock, latest>>

(* Rows are ordered by when their transactions began: of two that overlap  *)
(* either may be the latest.                                               *)
Record(t) ==
  /\ At(t, "record")
  /\ latest' \in {job[t].score} \cup (IF latest = job[t].seen THEN {} ELSE {latest})
  /\ Goes(t, "answer")
  /\ UNCHANGED <<client, checked, pipeline, means, lock>>

-----------------------------------------------------------------------------
(* Asking the language model.                                              *)

(* The assistant's label is all that is missing of its answer; the status  *)
(* tells of the score's model as well.                                     *)
Labelled(t, engine) ==
  [job[t] EXCEPT !.engine = engine, !.at = IF job[t].op = "status" THEN "score" ELSE "answer"]

(* Reviews name the model whenever one has answered; the assistant's label *)
(* is found by asking once more whether a model is available.              *)
Written(t, by) ==
  CASE job[t].op \in Reviews ->
         [job[t] EXCEPT !.by = by, !.at = "answer",
                        !.engine = IF by = "rules" THEN "rules" ELSE "claude"]
    [] job[t].op = "assistant" -> [job[t] EXCEPT !.by = by, !.at = "client", !.wants = "label"]
    [] job[t].op = "explanation" ->
         [job[t] EXCEPT !.by = IF by = "rules" THEN None ELSE by, !.at = "answer"]
    [] job[t].op = "status" -> Labelled(t, "rules")

(* is_available() before the call, the client for the call, is_available() *)
(* for the label.                                                          *)
Available(t) ==
  CASE job[t].wants = "label" \/ job[t].op = "status" -> Labelled(t, "claude")
    [] job[t].wants = "available" /\ job[t].op # "status" ->
         [job[t] EXCEPT !.at = "client", !.wants = "call"]
    [] job[t].wants = "call" -> [job[t] EXCEPT !.at = "sent"]

Unavailable(t) ==
  IF job[t].wants = "label" THEN Labelled(t, "rules") ELSE Written(t, "rules")

HasClient(t) ==
  /\ At(t, "client") /\ Provider # "rules" /\ client
  /\ Becomes(t, Available(t))
  /\ UNCHANGED <<client, checked, pipeline, means, lock, latest>>

(* The flag is up as soon as somebody has begun to build the client.       *)
HasNoClient(t) ==
  /\ At(t, "client")
  /\ Provider = "rules" \/ (~client /\ checked)
  /\ Becomes(t, Unavailable(t))
  /\ UNCHANGED <<client, checked, pipeline, means, lock, latest>>

FindUnchecked(t) ==
  /\ At(t, "client") /\ Provider # "rules" /\ ~client /\ ~checked
  /\ Goes(t, "unchecked")
  /\ UNCHANGED <<client, checked, pipeline, means, lock, latest>>

MarkChecked(t) ==
  /\ At(t, "unchecked")
  /\ checked' = TRUE
  /\ Goes(t, "build")
  /\ UNCHANGED <<client, pipeline, means, lock, latest>>

Build(t) ==
  /\ At(t, "build")
  /\ client' = (client \/ Installed)
  /\ Becomes(t, IF Installed THEN Available(t) ELSE Unavailable(t))
  /\ UNCHANGED <<checked, pipeline, means, lock, latest>>

(* The package is there and its constructor raises: the flag stays up, and *)
(* only LLMUnavailable is caught.                                          *)
BuildFails(t) ==
  /\ At(t, "build") /\ Installed
  /\ Becomes(t, Raised(t))
  /\ UNCHANGED <<client, checked, pipeline, means, lock, latest>>

(* failed: the call raised, or the client's timeout passed.  misshapen: an *)
(* answer without choices or content, or JSON that is not of the schema's  *)
(* shape.                                                                  *)
Outcomes == {"answered", "failed", "refused", "empty", "unparseable", "misshapen"}

(* All but an answer and a misshapen one are turned into LLMUnavailable,   *)
(* at which the caller falls back.                                         *)
Answered(t, outcome) ==
  IF outcome = "misshapen" THEN Raised(t)
  ELSE Written(t, IF outcome = "answered" THEN Provider ELSE "rules")

(* Bug: a refused question is asked again.                                 *)
BugReply(t, outcome) ==
  /\ At(t, "sent")
  /\ Becomes(t, IF outcome = "refused" THEN [job[t] EXCEPT !.at = "client"]
                ELSE Answered(t, outcome))
  /\ UNCHANGED <<client, checked, pipeline, means, lock, latest>>

(* complete_json(), complete_text(), and what is made of their answer.     *)
Reply(t, outcome) ==
  /\ At(t, "sent")
  /\ Becomes(t, Answered(t, outcome))
  /\ UNCHANGED <<client, checked, pipeline, means, lock, latest>>

(* A review or a brief is stored as it is returned.                        *)
Return(t) ==
  /\ At(t, "answer")
  /\ Becomes(t, Idle)
  /\ UNCHANGED <<client, checked, pipeline, means, lock, latest>>

-----------------------------------------------------------------------------
Serves(t) ==
  \/ SeePipeline(t) \/ TakeLock(t) \/ FindLoaded(t) \/ LoadPipeline(t) \/ LoadMeans(t)
  \/ \E raw \in Raw, events \in Evidence : Predict(t, raw, events)
  \/ PredictFails(t) \/ Record(t)
  \/ HasClient(t) \/ HasNoClient(t) \/ FindUnchecked(t) \/ MarkChecked(t)
  \/ Build(t) \/ BuildFails(t)
  \/ \E outcome \in Outcomes : Reply(t, outcome)
  \/ Return(t)

Next == \E t \in Threads : Serves(t) \/ \E op \in Ops \ {"idle"} : Ask(t, op)

(* A thread that can go on does.  Nothing is assumed of the lock's order:  *)
(* once the model is there, nobody new waits.                              *)
Fairness == \A t \in Threads : WF_vars(Serves(t))

Spec == Init /\ [][Next]_vars /\ Fairness

-----------------------------------------------------------------------------
(* An account with hardly any history is put in the LOW or the MEDIUM      *)
(* band, never in the riskier ones nor in the best, whatever the model     *)
(* reads from it.                                                          *)
NewcomersAreNotBranded ==
  \A t \in Threads :
    job[t].score # None /\ ConfidenceFor(job[t].events) = "LIMITED"
      => BandForScore(job[t].score) \in {"LOW", "MEDIUM"}

(* Whatever becomes of the language model's call or of its client, and     *)
(* whoever is loading the score's model, each request ends, and a review   *)
(* that is asked for is written by the model or by the rules, or else the  *)
(* one who asks is told of an error.                                       *)
EveryQuestionAnswered ==
  \A t \in Threads :
    /\ job[t].op # "idle" ~> job[t].op = "idle"
    /\ job[t].op \in Reviews ~> At(t, "answer") /\ job[t].by \in {Provider, "rules", "error"}

(* ai/llm.py: "every caller has a deterministic fallback".  So each review *)
(* is written by somebody.  It is not: only LLMUnavailable is caught.      *)
EveryCallerFallsBack ==
  \A t \in Threads :
    job[t].op \in Reviews ~> At(t, "answer") /\ job[t].by \in {Provider, "rules"}

(* compute_score(): "Pure read - safe to call on any request."  So no      *)
(* request fails before it has its score.                                  *)
ScoresOnAnyRequest ==
  \A t \in Threads : job[t].op \in Scored /\ job[t].by = "error" => job[t].score # None

(* ai/review.py: "Every response reports which engine answered, so the UI  *)
(* never implies a model reviewed something it did not."                   *)
AnswersNameTheirEngine ==
  \A t \in Threads :
    At(t, "answer") /\ job[t].engine # None /\ job[t].by # None => job[t].engine = job[t].by
=============================================================================
