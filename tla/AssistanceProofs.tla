--------------------------- MODULE AssistanceProofs ---------------------------
(***************************************************************************)
(* Machine-checked safety of the service's advice, for any number of       *)
(* threads, either provider, any model of the score and any history.       *)
(***************************************************************************)
EXTENDS Assistance, TLAPS

-----------------------------------------------------------------------------
(* The score's arithmetic.                                                 *)

(* A score is drawn towards the cold start's by one fifteenth for every    *)
(* event that is missing.                                                  *)
LEMMA BlendIs ==
  ASSUME NEW raw \in 0 .. 100, NEW events \in 0 .. 14
  PROVE  Blend(raw, events) = (2 * (events * raw + (15 - events) * 72) + 15) \div 30
  BY DEF Blend, MinEventsHigh, ColdStartScore

(* However little is known and whatever the model gives, what is blended   *)
(* is a score.                                                             *)
LEMMA BlendIsAScore ==
  ASSUME NEW raw \in 0 .. 100, NEW events \in Nat
  PROVE  Blend(raw, events) \in 0 .. 100
  <1>1. CASE events >= 15
    BY <1>1 DEF Blend, MinEventsHigh
  <1>2. CASE events < 15
    <2>1. \/ events = 0 \/ events = 1 \/ events = 2 \/ events = 3 \/ events = 4
          \/ events = 5 \/ events = 6 \/ events = 7 \/ events = 8 \/ events = 9
          \/ events = 10 \/ events = 11 \/ events = 12 \/ events = 13 \/ events = 14
      BY <1>2
    <2>2. events * raw + (15 - events) * 72 \in 0 .. 1500
      BY <2>1
    <2>3. Blend(raw, events) = (2 * (events * raw + (15 - events) * 72) + 15) \div 30
      BY <1>2, BlendIs
    <2> QED BY <2>2, <2>3
  <1> QED BY <1>1, <1>2

(* With fewer than five events a score stays close to the cold start's.    *)
LEMMA NewcomersStayClose ==
  ASSUME NEW raw \in 0 .. 100, NEW events \in Nat, events < 5
  PROVE  Blend(raw, events) \in 53 .. 79
  <1>1. events = 0 \/ events = 1 \/ events = 2 \/ events = 3 \/ events = 4
    OBVIOUS
  <1>2. events * raw + (15 - events) * 72 \in 792 .. 1192
    BY <1>1
  <1>3. Blend(raw, events) = (2 * (events * raw + (15 - events) * 72) + 15) \div 30
    BY BlendIs
  <1> QED BY <1>2, <1>3

(* Such a score is in one of the two middle bands.                         *)
LEMMA CloseIsNoBrand ==
  ASSUME NEW score \in 53 .. 79
  PROVE  BandForScore(score) \in {"LOW", "MEDIUM"}
  <1> DEFINE B == {"VERY_LOW", "LOW", "MEDIUM", "HIGH", "VERY_HIGH"}
  <1>1. /\ DOMAIN RiskBands = B
        /\ RiskBands["VERY_LOW"] = 90 /\ RiskBands["LOW"] = 75 /\ RiskBands["MEDIUM"] = 50
        /\ RiskBands["HIGH"] = 25 /\ RiskBands["VERY_HIGH"] = 0
    BY DEF RiskBands
  <1>2. \E band \in B : /\ score >= RiskBands[band]
                        /\ \A other \in B :
                             score >= RiskBands[other] => RiskBands[other] <= RiskBands[band]
    <2>1. CASE score >= 75
      BY <1>1, <2>1
    <2>2. CASE score < 75
      BY <1>1, <2>2
    <2> QED BY <2>1, <2>2
  <1>3. PICK band \in B :
          /\ band = BandForScore(score)
          /\ score >= RiskBands[band]
          /\ \A other \in B :
               score >= RiskBands[other] => RiskBands[other] <= RiskBands[band]
    BY <1>1, <1>2 DEF BandForScore
  <1> QED BY <1>1, <1>3

-----------------------------------------------------------------------------
(* The strengthening.                                                      *)

Advising == Reviews \cup {"assistant", "explanation", "status"}

(* What a thread is doing fits what it was asked.                          *)
Fits(j) ==
  /\ j.at \in {"score", "waiting", "locked", "loading"} => j.op \in Scored \cup {"status"}
  /\ j.at = "predict" => j.op \in Scored
  /\ j.at \in {"client", "unchecked", "build", "sent"} => j.op \in Advising
  /\ j.at = "record" => j.score # None

(* A score is one the model gave, blended by what is known.                *)
Blended(j) ==
  j.score # None => /\ j.events \in Evidence
                    /\ \E raw \in Raw : j.score = Blend(raw, j.events)

SoundJobs == \A t \in Threads : Fits(job[t]) /\ Blended(job[t])

(* One thread at a time makes the score's model, under the lock.           *)
LoadersHoldTheLock ==
  \A t \in Threads : job[t].at \in {"locked", "loading"} <=> lock = t

(* The model is half there exactly while a thread is making it.            *)
HalfMade == pipeline /\ ~means
HalfMadeWhileLoading == HalfMade <=> \E t \in Threads : job[t].at = "loading"

PipelineFirst ==
  /\ means => pipeline
  /\ \A t \in Threads : job[t].at = "predict" => pipeline

IInv ==
  /\ TypeOK
  /\ SoundJobs
  /\ LoadersHoldTheLock
  /\ HalfMadeWhileLoading
  /\ PipelineFirst

-----------------------------------------------------------------------------
LEMMA NoneIsNobody ==
  /\ None \notin Threads /\ None \notin Nat
  /\ Provider \in Engines /\ {"claude", "rules"} \subseteq Engines
  /\ \A t \in Threads : t # None
  BY NoneAssumption, ProviderAssumption DEF Engines, Providers

LEMMA InitIInv == Init => IInv
  <1> SUFFICES ASSUME Init PROVE IInv
    OBVIOUS
  <1>1. Idle \in Jobs /\ Fits(Idle) /\ Blended(Idle)
    BY DEF Idle, Jobs, Ops, Steps, Fits, Blended
  <1>2. \A t \in Threads : job[t] = Idle /\ job[t].at = "idle"
    BY DEF Init, Idle
  <1>3. TypeOK /\ SoundJobs
    BY <1>1, <1>2 DEF Init, TypeOK, SoundJobs
  <1>4. LoadersHoldTheLock /\ HalfMadeWhileLoading /\ PipelineFirst
    BY <1>2, NoneIsNobody DEF Init, LoadersHoldTheLock, HalfMadeWhileLoading, HalfMade, PipelineFirst
  <1> QED BY <1>3, <1>4 DEF IInv

(* A thread's job becomes another sound one, outside the making of the     *)
(* score's model.                                                          *)
LEMMA BecomesPreserves ==
  ASSUME IInv, NEW t \in Threads, NEW new \in Jobs, Becomes(t, new),
         Fits(new), Blended(new), UNCHANGED <<pipeline, means, lock>>,
         client' \in BOOLEAN, checked' \in BOOLEAN, latest' \in 0 .. 100 \cup {None},
         ~(job[t].at \in {"locked", "loading"}), ~(new.at \in {"locked", "loading"}),
         new.at = "predict" => pipeline
  PROVE  IInv'
  <1>1. /\ job' \in [Threads -> Jobs] /\ job'[t] = new
        /\ \A u \in Threads \ {t} : job'[u] = job[u]
    BY DEF Becomes, IInv, TypeOK
  <1>2. TypeOK'
    BY <1>1 DEF IInv, TypeOK
  <1>3. SoundJobs'
    BY <1>1 DEF IInv, SoundJobs, Fits, Blended
  <1>4. LoadersHoldTheLock'
    BY <1>1 DEF IInv, LoadersHoldTheLock
  <1>5. HalfMadeWhileLoading'
    BY <1>1 DEF IInv, HalfMadeWhileLoading, HalfMade
  <1>6. PipelineFirst'
    BY <1>1 DEF IInv, PipelineFirst
  <1> QED BY <1>2, <1>3, <1>4, <1>5, <1>6 DEF IInv

(* What the invariant says of one thread.                                  *)
LEMMA OfOneThread ==
  ASSUME IInv, NEW t \in Threads
  PROVE  /\ job[t] \in Jobs /\ Fits(job[t]) /\ Blended(job[t])
         /\ job[t].at \in {"locked", "loading"} <=> lock = t
  BY DEF IInv, TypeOK, SoundJobs, LoadersHoldTheLock

(* Going on to another step keeps everything else of the job.              *)
LEMMA GoesIs ==
  ASSUME IInv, NEW t \in Threads, NEW at \in Steps
  PROVE  /\ [job[t] EXCEPT !.at = at] \in Jobs
         /\ [job[t] EXCEPT !.at = at].at = at
         /\ [job[t] EXCEPT !.at = at].op = job[t].op
         /\ [job[t] EXCEPT !.at = at].score = job[t].score
         /\ [job[t] EXCEPT !.at = at].events = job[t].events
         /\ Blended([job[t] EXCEPT !.at = at])
  BY OfOneThread DEF Jobs, Blended

(* With the model found or made, a thread predicts or tells of it.         *)
LEMMA OnwardIs ==
  ASSUME IInv, NEW t \in Threads, job[t].at \in {"score", "waiting", "locked", "loading"}
  PROVE  /\ Onward(t) \in {"answer", "predict"}
         /\ Onward(t) \in Steps
         /\ Onward(t) = "predict" => job[t].op \in Scored
  BY OfOneThread DEF Onward, Steps, Fits

(* An exception leaves the score as it is.                                 *)
LEMMA RaisedIs ==
  ASSUME IInv, NEW t \in Threads
  PROVE  /\ Raised(t) \in Jobs /\ Raised(t).at = "answer"
         /\ Fits(Raised(t)) /\ Blended(Raised(t))
  <1>1. job[t] \in Jobs /\ Blended(job[t])
    BY OfOneThread
  <1>2. Raised(t) \in Jobs /\ Raised(t).at = "answer"
    BY <1>1 DEF Raised, Jobs, Steps
  <1>3. Raised(t).score = job[t].score /\ Raised(t).events = job[t].events
    BY <1>1 DEF Raised, Jobs
  <1> QED BY <1>1, <1>2, <1>3 DEF Fits, Blended

-----------------------------------------------------------------------------
(* Making the score's model.                                               *)

LEMMA TakeLockPreserves ==
  ASSUME IInv, NEW t \in Threads, TakeLock(t)
  PROVE  IInv'
  <1> DEFINE new == [job[t] EXCEPT !.at = "locked"]
  <1>1. new \in Jobs /\ new.at = "locked" /\ Fits(new) /\ Blended(new)
    BY GoesIs, OfOneThread DEF TakeLock, At, Fits, Steps
  <1>2. /\ job' \in [Threads -> Jobs] /\ job'[t] = new
        /\ \A u \in Threads \ {t} : job'[u] = job[u]
    BY <1>1 DEF TakeLock, Goes, Becomes, IInv, TypeOK
  <1> HIDE DEF new
  <1>3. TypeOK' /\ SoundJobs'
    BY <1>1, <1>2 DEF TakeLock, IInv, TypeOK, SoundJobs, Fits, Blended
  <1>4. LoadersHoldTheLock' /\ HalfMadeWhileLoading' /\ PipelineFirst'
    BY <1>1, <1>2, NoneIsNobody
       DEF TakeLock, At, IInv, LoadersHoldTheLock, HalfMadeWhileLoading, HalfMade, PipelineFirst
  <1> QED BY <1>3, <1>4 DEF IInv

LEMMA FindLoadedPreserves ==
  ASSUME IInv, NEW t \in Threads, FindLoaded(t)
  PROVE  IInv'
  <1> DEFINE new == [job[t] EXCEPT !.at = Onward(t)]
  <1>0. /\ job[t].at \in {"locked", "loading"}
        /\ Onward(t) \in {"answer", "predict"} /\ Onward(t) \in Steps
        /\ Onward(t) = "predict" => job[t].op \in Scored
    BY OnwardIs DEF FindLoaded, At
  <1>1. new \in Jobs /\ new.at \in {"answer", "predict"} /\ Fits(new) /\ Blended(new)
    BY <1>0, GoesIs DEF Fits
  <1>2. /\ job' \in [Threads -> Jobs] /\ job'[t] = new
        /\ \A u \in Threads \ {t} : job'[u] = job[u]
    BY <1>1 DEF FindLoaded, Goes, Becomes, IInv, TypeOK
  <1> HIDE DEF new
  <1>3. TypeOK' /\ SoundJobs'
    BY <1>1, <1>2 DEF FindLoaded, IInv, TypeOK, SoundJobs, Fits, Blended
  <1>4. LoadersHoldTheLock' /\ HalfMadeWhileLoading' /\ PipelineFirst'
    BY <1>1, <1>2, NoneIsNobody
       DEF FindLoaded, At, IInv, LoadersHoldTheLock, HalfMadeWhileLoading, HalfMade, PipelineFirst
  <1> QED BY <1>3, <1>4 DEF IInv

LEMMA LoadPipelinePreserves ==
  ASSUME IInv, NEW t \in Threads, LoadPipeline(t)
  PROVE  IInv'
  <1> DEFINE new == [job[t] EXCEPT !.at = "loading"]
  <1>1. new \in Jobs /\ new.at = "loading" /\ Fits(new) /\ Blended(new)
    BY GoesIs, OfOneThread DEF LoadPipeline, At, Fits, Steps
  <1>2. /\ job' \in [Threads -> Jobs] /\ job'[t] = new
        /\ \A u \in Threads \ {t} : job'[u] = job[u]
    BY <1>1 DEF LoadPipeline, Goes, Becomes, IInv, TypeOK
  <1> HIDE DEF new
  <1>3. TypeOK' /\ SoundJobs'
    BY <1>1, <1>2 DEF LoadPipeline, IInv, TypeOK, SoundJobs, Fits, Blended
  <1>4. LoadersHoldTheLock' /\ HalfMadeWhileLoading' /\ PipelineFirst'
    BY <1>1, <1>2, NoneIsNobody
       DEF LoadPipeline, At, IInv, LoadersHoldTheLock, HalfMadeWhileLoading, HalfMade, PipelineFirst
  <1> QED BY <1>3, <1>4 DEF IInv

LEMMA LoadMeansPreserves ==
  ASSUME IInv, NEW t \in Threads, LoadMeans(t)
  PROVE  IInv'
  <1> DEFINE new == [job[t] EXCEPT !.at = Onward(t)]
  <1>0. /\ job[t].at \in {"locked", "loading"}
        /\ Onward(t) \in {"answer", "predict"} /\ Onward(t) \in Steps
        /\ Onward(t) = "predict" => job[t].op \in Scored
    BY OnwardIs DEF LoadMeans, At
  <1>1. new \in Jobs /\ new.at \in {"answer", "predict"} /\ Fits(new) /\ Blended(new)
    BY <1>0, GoesIs DEF Fits
  <1>2. /\ job' \in [Threads -> Jobs] /\ job'[t] = new
        /\ \A u \in Threads \ {t} : job'[u] = job[u]
    BY <1>1 DEF LoadMeans, Goes, Becomes, IInv, TypeOK
  <1> HIDE DEF new
  <1>3. TypeOK' /\ SoundJobs'
    BY <1>1, <1>2 DEF LoadMeans, IInv, TypeOK, SoundJobs, Fits, Blended
  <1>4. lock = t /\ \A u \in Threads \ {t} : job'[u].at # "loading"
    BY <1>2 DEF LoadMeans, At, IInv, LoadersHoldTheLock
  <1>5. LoadersHoldTheLock' /\ HalfMadeWhileLoading' /\ PipelineFirst'
    BY <1>1, <1>2, <1>4, NoneIsNobody
       DEF LoadMeans, At, IInv, LoadersHoldTheLock, HalfMadeWhileLoading, HalfMade, PipelineFirst
  <1> QED BY <1>3, <1>5 DEF IInv

-----------------------------------------------------------------------------
(* The rest of scoring.                                                    *)

LEMMA AskPreserves ==
  ASSUME IInv, NEW t \in Threads, NEW op \in Ops \ {"idle"}, Ask(t, op)
  PROVE  IInv'
  <1> DEFINE new == [Idle EXCEPT !.op = op, !.at = IF op \in Scored THEN "score" ELSE "client"]
  <1>1. new \in Jobs /\ new.at \in {"score", "client"} /\ Fits(new) /\ Blended(new)
    BY DEF Idle, Jobs, Ops, Steps, Fits, Blended, Advising, Scored, Reviews
  <1>2. Becomes(t, new) /\ At(t, "idle")
    BY DEF Ask
  <1> HIDE DEF new
  <1> QED BY <1>1, <1>2, BecomesPreserves DEF Ask, At, IInv, TypeOK

LEMMA SeePipelinePreserves ==
  ASSUME IInv, NEW t \in Threads, SeePipeline(t)
  PROVE  IInv'
  <1> DEFINE at == IF pipeline THEN Onward(t) ELSE "waiting"
             new == [job[t] EXCEPT !.at = at]
  <1>0. /\ job[t].at = "score"
        /\ Onward(t) \in {"answer", "predict"} /\ Onward(t) \in Steps
        /\ Onward(t) = "predict" => job[t].op \in Scored
    BY OnwardIs DEF SeePipeline, At
  <1>1. /\ at \in Steps /\ at \in {"answer", "predict", "waiting"}
        /\ at = "predict" => pipeline /\ job[t].op \in Scored
    BY <1>0 DEF Steps
  <1>2. Goes(t, at) /\ At(t, "score")
    BY DEF SeePipeline
  <1> HIDE DEF at
  <1>3. new \in Jobs /\ new.at = at /\ Fits(new) /\ Blended(new)
    BY <1>1, <1>2, GoesIs, OfOneThread DEF At, Fits
  <1>4. Becomes(t, new)
    BY <1>2 DEF Goes
  <1> HIDE DEF new
  <1> QED BY <1>1, <1>2, <1>3, <1>4, BecomesPreserves DEF SeePipeline, At, IInv, TypeOK

LEMMA PredictPreserves ==
  ASSUME IInv, NEW t \in Threads, NEW raw \in Raw, NEW events \in Evidence,
         Predict(t, raw, events)
  PROVE  IInv'
  <1> DEFINE score == Blend(raw, events)
             seen == IF job[t].op = "recalculate" THEN latest ELSE None
             at == IF job[t].op = "recalculate" THEN "record" ELSE "client"
             new == [job[t] EXCEPT !.score = score, !.events = events, !.seen = seen, !.at = at]
  <1>1. raw \in 0 .. 100 /\ events \in Nat
    BY ScoresAssumption
  <1>2. score \in 0 .. 100 /\ score # None
    <2>1. score \in 0 .. 100
      BY <1>1, BlendIsAScore
    <2> HIDE DEF score
    <2> QED BY <2>1, NoneIsNobody
  <1>3. seen \in 0 .. 100 \cup {None}
    BY DEF IInv, TypeOK
  <1>4. /\ at \in {"record", "client"} /\ at \in Steps
        /\ at = "client" => job[t].op # "recalculate"
    BY DEF Steps
  <1>5. Becomes(t, new) /\ At(t, "predict")
    BY DEF Predict
  <1>6. job[t] \in Jobs /\ job[t].op \in Scored
    BY <1>5, OfOneThread DEF At, Fits
  <1>7. \E r \in Raw : score = Blend(r, events)
    OBVIOUS
  <1> HIDE DEF score, seen, at
  <1>8. /\ new \in Jobs /\ new.at = at /\ new.op = job[t].op
        /\ new.score = score /\ new.events = events
    BY <1>2, <1>3, <1>4, <1>6 DEF Jobs
  <1> HIDE DEF new
  <1>9. Fits(new) /\ Blended(new)
    BY <1>2, <1>4, <1>6, <1>7, <1>8 DEF Fits, Blended, Advising, Scored
  <1> QED BY <1>4, <1>5, <1>8, <1>9, BecomesPreserves DEF Predict, At, IInv, TypeOK

LEMMA PredictFailsPreserves ==
  ASSUME IInv, NEW t \in Threads, PredictFails(t)
  PROVE  IInv'
  <1>1. Becomes(t, Raised(t)) /\ At(t, "predict")
    BY DEF PredictFails
  <1> QED BY <1>1, RaisedIs, BecomesPreserves DEF PredictFails, At, IInv, TypeOK

LEMMA RecordPreserves ==
  ASSUME IInv, NEW t \in Threads, Record(t)
  PROVE  IInv'
  <1> DEFINE new == [job[t] EXCEPT !.at = "answer"]
  <1>1. new \in Jobs /\ new.at = "answer" /\ Fits(new) /\ Blended(new)
    BY GoesIs DEF Steps, Fits
  <1>2. Becomes(t, new) /\ At(t, "record")
    BY DEF Record, Goes
  <1>3. job[t].score \in 0 .. 100 \cup {None}
    BY OfOneThread DEF Jobs
  <1>4. latest' \in 0 .. 100 \cup {None}
    BY <1>3 DEF Record, IInv, TypeOK
  <1> HIDE DEF new
  <1> QED BY <1>1, <1>2, <1>4, BecomesPreserves DEF Record, At, IInv, TypeOK

-----------------------------------------------------------------------------
(* Asking the language model.                                              *)

(* An answer that is labelled is given, the status goes on to the model.   *)
LEMMA LabelledIs ==
  ASSUME IInv, NEW t \in Threads, job[t].op \in Advising, NEW engine \in Engines
  PROVE  /\ Labelled(t, engine) \in Jobs
         /\ Labelled(t, engine).at \in {"answer", "score"}
         /\ Fits(Labelled(t, engine)) /\ Blended(Labelled(t, engine))
  <1> DEFINE at == IF job[t].op = "status" THEN "score" ELSE "answer"
             new == [job[t] EXCEPT !.engine = engine, !.at = at]
  <1>1. /\ at \in {"answer", "score"} /\ at \in Steps
        /\ at = "score" => job[t].op = "status"
    BY DEF Steps
  <1>2. job[t] \in Jobs /\ Blended(job[t])
    BY OfOneThread
  <1>3. Labelled(t, engine) = new
    BY DEF Labelled
  <1> HIDE DEF at
  <1>4. /\ new \in Jobs /\ new.at = at /\ new.op = job[t].op /\ Blended(new)
    BY <1>1, <1>2 DEF Jobs, Blended
  <1>5. Fits(new)
    BY <1>1, <1>4 DEF Fits
  <1> QED BY <1>1, <1>3, <1>4, <1>5

(* What becomes of a question keeps the score it is about, and whatever    *)
(* the client is asked for next, it is somebody who asks for advice.       *)
LEMMA WrittenIs ==
  ASSUME IInv, NEW t \in Threads, job[t].op \in Advising, NEW by \in Engines
  PROVE  /\ Written(t, by) \in Jobs
         /\ Written(t, by).at \in {"answer", "client", "score"}
         /\ Fits(Written(t, by)) /\ Blended(Written(t, by))
  <1>1. job[t] \in Jobs /\ Blended(job[t]) /\ None \notin Threads
    BY OfOneThread, NoneIsNobody
  <1>2. {"claude", "rules"} \subseteq Engines
    BY NoneIsNobody
  <1>3. CASE job[t].op \in Reviews
    <2>1. Written(t, by) = [job[t] EXCEPT !.by = by, !.at = "answer",
                              !.engine = IF by = "rules" THEN "rules" ELSE "claude"]
      BY <1>3 DEF Written, Reviews
    <2> QED BY <1>1, <1>2, <2>1 DEF Jobs, Steps, Fits, Blended
  <1>4. CASE job[t].op = "assistant"
    <2>1. Written(t, by) = [job[t] EXCEPT !.by = by, !.at = "client", !.wants = "label"]
      BY <1>4 DEF Written, Reviews
    <2>2. /\ Written(t, by) \in Jobs
          /\ Written(t, by).at = "client" /\ Written(t, by).op = job[t].op
      BY <1>1, <2>1 DEF Jobs, Steps
    <2>3. Blended(Written(t, by))
      BY <1>1, <2>1 DEF Jobs, Blended
    <2> QED BY <1>4, <2>2, <2>3 DEF Fits
  <1>5. CASE job[t].op = "explanation"
    <2>1. Written(t, by) = [job[t] EXCEPT !.by = IF by = "rules" THEN None ELSE by,
                                          !.at = "answer"]
      BY <1>5 DEF Written, Reviews
    <2> QED BY <1>1, <2>1 DEF Jobs, Steps, Fits, Blended
  <1>6. CASE job[t].op = "status"
    <2>1. Written(t, by) = Labelled(t, "rules")
      BY <1>6 DEF Written, Reviews
    <2> QED BY <1>2, <2>1, LabelledIs
  <1> QED BY <1>3, <1>4, <1>5, <1>6 DEF Advising

LEMMA AvailableIs ==
  ASSUME IInv, NEW t \in Threads, job[t].op \in Advising
  PROVE  /\ Available(t) \in Jobs
         /\ Available(t).at \in {"answer", "client", "sent", "score"}
         /\ Fits(Available(t)) /\ Blended(Available(t))
  <1>1. job[t] \in Jobs /\ Blended(job[t]) /\ "claude" \in Engines
    BY OfOneThread, NoneIsNobody
  <1>2. job[t].wants \in {"available", "call", "label"}
    BY <1>1 DEF Jobs
  <1>3. \/ Available(t) = Labelled(t, "claude")
        \/ Available(t) = [job[t] EXCEPT !.at = "client", !.wants = "call"]
        \/ Available(t) = [job[t] EXCEPT !.at = "sent"]
    BY <1>2 DEF Available
  <1>4. CASE Available(t) = Labelled(t, "claude")
    BY <1>1, <1>4, LabelledIs
  <1>5. CASE Available(t) = [job[t] EXCEPT !.at = "client", !.wants = "call"]
    BY <1>1, <1>5 DEF Jobs, Steps, Fits, Blended
  <1>6. CASE Available(t) = [job[t] EXCEPT !.at = "sent"]
    BY <1>1, <1>6 DEF Jobs, Steps, Fits, Blended
  <1> QED BY <1>3, <1>4, <1>5, <1>6

LEMMA UnavailableIs ==
  ASSUME IInv, NEW t \in Threads, job[t].op \in Advising
  PROVE  /\ Unavailable(t) \in Jobs
         /\ Unavailable(t).at \in {"answer", "client", "score"}
         /\ Fits(Unavailable(t)) /\ Blended(Unavailable(t))
  BY NoneIsNobody, LabelledIs, WrittenIs DEF Unavailable

(* Whatever is asked of the language model, the score is left alone.       *)
LEMMA ClientPreserves ==
  ASSUME IInv, NEW t \in Threads,
         \/ HasClient(t) \/ HasNoClient(t) \/ FindUnchecked(t) \/ MarkChecked(t)
         \/ Build(t) \/ BuildFails(t)
         \/ \E outcome \in Outcomes : Reply(t, outcome)
  PROVE  IInv'
  <1>1. job[t].at \in {"client", "unchecked", "build", "sent"} /\ job[t].op \in Advising
    BY OfOneThread
       DEF HasClient, HasNoClient, FindUnchecked, MarkChecked, Build, BuildFails, Reply, At, Fits
  <1>2. /\ client' \in BOOLEAN /\ checked' \in BOOLEAN
        /\ UNCHANGED <<pipeline, means, lock, latest>>
    BY ProviderAssumption
       DEF HasClient, HasNoClient, FindUnchecked, MarkChecked, Build, BuildFails, Reply,
           IInv, TypeOK
  <1>3. \E new \in Jobs : /\ Becomes(t, new) /\ Fits(new) /\ Blended(new)
                          /\ new.at \in {"answer", "client", "sent", "score", "unchecked", "build"}
    <2>1. CASE Becomes(t, Available(t))
      BY <1>1, <2>1, AvailableIs
    <2>2. CASE Becomes(t, Unavailable(t))
      BY <1>1, <2>2, UnavailableIs
    <2>3. ASSUME NEW at \in {"unchecked", "build"}, Goes(t, at)
          PROVE  \E new \in Jobs : /\ Becomes(t, new) /\ Fits(new) /\ Blended(new)
                                   /\ new.at \in {"unchecked", "build"}
      <3> DEFINE new == [job[t] EXCEPT !.at = at]
      <3>0. at \in Steps
        BY DEF Steps
      <3>1. new \in Jobs /\ new.at = at /\ new.op = job[t].op /\ Blended(new)
        BY <3>0, GoesIs
      <3>2. Becomes(t, new)
        BY <2>3 DEF Goes
      <3> HIDE DEF new
      <3> QED BY <1>1, <3>1, <3>2 DEF Fits
    <2>4. ASSUME NEW outcome, Reply(t, outcome)
          PROVE  \E new \in Jobs : /\ Becomes(t, new) /\ Fits(new) /\ Blended(new)
                                   /\ new.at \in {"answer", "client", "score"}
      <3>1. CASE outcome = "misshapen"
        BY <2>4, <3>1, RaisedIs DEF Reply, Answered
      <3>2. CASE outcome # "misshapen"
        <4>1. PICK by \in Engines : Becomes(t, Written(t, by))
          BY <2>4, <3>2, NoneIsNobody DEF Reply, Answered
        <4> QED BY <1>1, <4>1, WrittenIs
      <3> QED BY <3>1, <3>2
    <2>5. CASE BuildFails(t)
      BY <2>5, RaisedIs DEF BuildFails
    <2> QED BY <2>1, <2>2, <2>3, <2>4, <2>5
            DEF HasClient, HasNoClient, FindUnchecked, MarkChecked, Build
  <1>4. PICK new \in Jobs : /\ Becomes(t, new) /\ Fits(new) /\ Blended(new)
                            /\ new.at \in {"answer", "client", "sent", "score", "unchecked", "build"}
    BY <1>3
  <1> QED BY <1>1, <1>2, <1>4, BecomesPreserves DEF IInv, TypeOK

LEMMA ReturnPreserves ==
  ASSUME IInv, NEW t \in Threads, Return(t)
  PROVE  IInv'
  <1>1. Idle \in Jobs /\ Idle.at = "idle" /\ Fits(Idle) /\ Blended(Idle)
    BY DEF Idle, Jobs, Ops, Steps, Fits, Blended
  <1> QED BY <1>1, BecomesPreserves DEF Return, At, IInv, TypeOK

-----------------------------------------------------------------------------
LEMMA NextPreserves == IInv /\ [Next]_vars => IInv'
  <1> SUFFICES ASSUME IInv, [Next]_vars PROVE IInv'
    OBVIOUS
  <1>1. ASSUME NEW t \in Threads, Serves(t) PROVE IInv'
    BY <1>1, SeePipelinePreserves, TakeLockPreserves, FindLoadedPreserves, LoadPipelinePreserves,
       LoadMeansPreserves, PredictPreserves, PredictFailsPreserves, RecordPreserves,
       ClientPreserves, ReturnPreserves
    DEF Serves
  <1>2. ASSUME NEW t \in Threads, NEW op \in Ops \ {"idle"}, Ask(t, op) PROVE IInv'
    BY <1>2, AskPreserves
  <1>3. CASE UNCHANGED vars
    BY <1>3 DEF vars, IInv, TypeOK, SoundJobs, Fits, Blended, LoadersHoldTheLock,
                HalfMadeWhileLoading, HalfMade, PipelineFirst
  <1> QED BY <1>1, <1>2, <1>3 DEF Next

LEMMA Invariance == Spec => []IInv
  BY InitIInv, NextPreserves, PTL DEF Spec

-----------------------------------------------------------------------------
(* What follows.                                                           *)

(* Every reachable state is well-typed; above all, what is recorded and    *)
(* what is shown is a score between 0 and 100.                             *)
THEOREM AdviceTypeCorrect == Spec => []TypeOK
  <1>1. IInv => TypeOK
    BY DEF IInv
  <1> QED BY <1>1, Invariance, PTL

(* An account with fewer than five events is placed in the bands around    *)
(* the cold start's score, whatever the model reads from it.               *)
THEOREM NewcomersStayUnbranded == Spec => []NewcomersAreNotBranded
  <1>1. IInv => NewcomersAreNotBranded
    <2> SUFFICES ASSUME IInv, NEW t \in Threads, job[t].score # None,
                        ConfidenceFor(job[t].events) = "LIMITED"
                 PROVE  BandForScore(job[t].score) \in {"LOW", "MEDIUM"}
      BY DEF NewcomersAreNotBranded
    <2>1. job[t].events \in Evidence /\ \E raw \in Raw : job[t].score = Blend(raw, job[t].events)
      BY OfOneThread DEF Blended
    <2>2. PICK raw \in Raw : job[t].score = Blend(raw, job[t].events)
      BY <2>1
    <2>3. raw \in 0 .. 100 /\ job[t].events \in Nat
      BY <2>1, ScoresAssumption
    <2>4. job[t].events < 5
      BY <2>3 DEF ConfidenceFor, MinEventsHigh, MinEventsModerate
    <2> QED BY <2>2, <2>3, <2>4, NewcomersStayClose, CloseIsNoBrand
  <1> QED BY <1>1, Invariance, PTL

(* A request fails for want of a whole model only while another thread is  *)
(* between the model's two assignments; _load_or_train() has no other gap. *)
FailsWhileLoading ==
  \A t \in Threads : PredictFails(t) => \E u \in Threads \ {t} : At(u, "loading")

THEOREM OnlyLoadingFailsRequests == Spec => [][FailsWhileLoading]_vars
  <1>1. IInv => FailsWhileLoading
    <2> SUFFICES ASSUME IInv, NEW t \in Threads, PredictFails(t)
                 PROVE  \E u \in Threads \ {t} : At(u, "loading")
      BY DEF FailsWhileLoading
    <2>1. job[t].at = "predict" /\ HalfMade
      BY DEF PredictFails, At, IInv, PipelineFirst, HalfMade
    <2>2. PICK u \in Threads : job[u].at = "loading"
      BY <2>1 DEF IInv, HalfMadeWhileLoading
    <2> QED BY <2>1, <2>2 DEF At
  <1>2. IInv /\ [Next]_vars => [FailsWhileLoading]_vars
    BY <1>1
  <1> QED BY <1>2, Invariance, PTL DEF Spec
=============================================================================
