------------------------ MODULE AnswerAnalysis_proofs ------------------------
(***************************************************************************)
(* The analysis of a recording, for every budget, pause, timeout and       *)
(* answer time, and for every transcript, profile and reply: its requests  *)
(* keep their budget, its telemetry is that of what was sent, its cards    *)
(* keep the rules, and it fails for few reasons with a reply that parses.  *)
(***************************************************************************)
EXTENDS AnswerAnalysis, SequenceInduction

(* The budget left decides every attempt, so an attempt begins within it and
   ends within it; only the language model's pause is made without a look. *)
BudgetInv ==
    /\ request.to \in Providers
    /\ request.at \in Stages
    /\ request.attempt \in 0..MaxRetries
    /\ request.elapsed \in Nat
    /\ request.at = "sent" => request.elapsed < Budget[request.to]
    /\ request.at \in {"next", "answered"} => request.elapsed <= Budget[request.to]
    /\ request.at = "next" /\ request.attempt = 0 => request.elapsed = 0
    /\ request.at = "failed" =>
         \/ request.elapsed <= Budget[request.to]
         \/ /\ request.to = "llm" /\ request.attempt > 0
            /\ request.elapsed <= Budget["llm"] + Pause(request.attempt)

(* What every request is: a record with these fields. *)
Requests == [to : Providers, at : Stages, attempt : 0..MaxRetries, elapsed : Nat,
             retries : Nat, model : {"selected", "fallback"}, fellback : BOOLEAN,
             models : Seq({"selected", "fallback"})]
Shape == request \in Requests
USE DEF Requests

-------------------------------------------------------------------------------
LEMMA BudgetIsNat ==
    ASSUME NEW p \in Providers PROVE Budget[p] \in Nat /\ Budget[p] > 0
  BY PolicyAssumption DEF Providers

LEMMA PauseIsNat == ASSUME NEW n \in Nat PROVE Pause(n) \in Nat
  <1>1. BasePause * 1 \in Nat /\ BasePause * 2 \in Nat /\ MaxPause \in Nat
    BY PolicyAssumption
  <1> QED BY <1>1 DEF Pause, Least

LEMMA FreshShape == ASSUME NEW p \in Providers PROVE
    NewRequest(p) \in Requests
  <1>1. <<>> \in Seq({"selected", "fallback"}) OBVIOUS
  <1> QED BY <1>1 DEF NewRequest, Stages, MaxRetries

LEMMA FreshInv ==
    ASSUME NEW p \in Providers, request' = NewRequest(p) PROVE Shape' /\ BudgetInv'
  <1>1. Shape' BY FreshShape DEF Shape
  <1>2. BudgetInv'
    BY BudgetIsNat DEF BudgetInv, NewRequest, Stages, MaxRetries
  <1> QED BY <1>1, <1>2

(* An append of a model to the models asked so far. *)
LEMMA SendsShape ==
    ASSUME NEW after, NEW models \in Seq({"selected", "fallback"}),
           NEW model \in {"selected", "fallback"}
    PROVE Append(models, model) \in Seq({"selected", "fallback"})
  OBVIOUS

-------------------------------------------------------------------------------
(* One lemma for each step of a request. *)
LEMMA FirstAttemptKeeps ==
    ASSUME Shape, BudgetInv, FirstAttempt PROVE Shape' /\ BudgetInv'
  <1>1. Append(request.models, request.model) \in Seq({"selected", "fallback"})
    BY DEF Shape
  <1>2. request' = [request EXCEPT !.at = "sent",
                                   !.models = Append(@, request.model)]
    BY DEF FirstAttempt, Sends
  <1>3. Shape' BY <1>1, <1>2 DEF Shape, Stages
  <1>4. request.elapsed = 0 /\ Budget[request.to] > 0 /\ Budget[request.to] \in Nat
    BY BudgetIsNat DEF FirstAttempt, BudgetInv
  <1>5. /\ request'.at = "sent" /\ request'.elapsed = request.elapsed
        /\ request'.to = request.to /\ request'.attempt = request.attempt
    BY <1>2 DEF Shape
  <1>6. BudgetInv' BY <1>4, <1>5 DEF BudgetInv, Stages
  <1> QED BY <1>3, <1>6

(* A request as it is after a pause. *)
LEMMA PausedFacts ==
    ASSUME Shape PROVE
        /\ Pause(request.attempt) \in Nat
        /\ Paused.elapsed = request.elapsed + Pause(request.attempt)
        /\ Paused.elapsed \in Nat
        /\ Paused.to = request.to /\ Paused.attempt = request.attempt
        /\ Paused.at = request.at /\ Paused.model = request.model
        /\ Paused.models = request.models
        /\ Paused \in Requests
  <1>1. request.attempt \in Nat BY DEF Shape, MaxRetries
  <1>2. Pause(request.attempt) \in Nat BY <1>1, PauseIsNat
  <1>3. request.elapsed + Pause(request.attempt) \in Nat /\ request.retries + 1 \in Nat
    BY <1>2 DEF Shape
  <1> QED BY <1>2, <1>3 DEF Shape, Paused

(* Sending after a pause that leaves some of the budget. *)
LEMMA SendPausedKeeps ==
    ASSUME Shape, BudgetInv, Sends(Paused), Paused.elapsed < Budget[request.to]
    PROVE Shape' /\ BudgetInv'
  <1>1. Append(Paused.models, Paused.model) \in Seq({"selected", "fallback"})
    BY PausedFacts DEF Shape
  <1>2. request' = [Paused EXCEPT !.at = "sent", !.models = Append(@, Paused.model)]
    BY DEF Sends
  <1>3. Shape' BY <1>1, <1>2, PausedFacts DEF Shape, Stages
  <1>4. /\ request'.at = "sent" /\ request'.elapsed = Paused.elapsed
        /\ request'.to = request.to /\ request'.attempt = request.attempt
    BY <1>2, PausedFacts
  <1>5. Paused.elapsed \in Nat BY PausedFacts
  <1>6. BudgetInv' BY <1>4, <1>5 DEF BudgetInv, Stages
  <1> QED BY <1>3, <1>6

LEMMA RetrySttKeeps ==
    ASSUME Shape, BudgetInv, RetryStt PROVE Shape' /\ BudgetInv'
  <1>0. Budget[request.to] \in Nat BY BudgetIsNat DEF BudgetInv
  <1>1. CASE Pause(request.attempt) < Left
    <2>1. Paused.elapsed < Budget[request.to]
      BY <1>0, <1>1, PausedFacts DEF Left, BudgetInv
    <2> QED BY <1>1, <2>1, SendPausedKeeps DEF RetryStt
  <1>2. CASE ~(Pause(request.attempt) < Left)
    <2>1. request' = [request EXCEPT !.at = "failed"] BY <1>2 DEF RetryStt, Goes
    <2>2. Shape' BY <2>1 DEF Shape, Stages
    <2>3. /\ request'.at = "failed" /\ request'.elapsed = request.elapsed
          /\ request'.to = request.to /\ request'.attempt = request.attempt
      BY <2>1 DEF Shape
    <2>4. request.elapsed <= Budget[request.to] BY DEF RetryStt, BudgetInv
    <2>5. BudgetInv' BY <2>3, <2>4 DEF BudgetInv, Stages
    <2> QED BY <2>2, <2>5
  <1> QED BY <1>1, <1>2

LEMMA RetryLlmKeeps ==
    ASSUME Shape, BudgetInv, RetryLlm PROVE Shape' /\ BudgetInv'
  <1>0. Budget[request.to] \in Nat /\ request.to = "llm" /\ request.attempt > 0
    BY BudgetIsNat DEF BudgetInv, RetryLlm
  <1>1. CASE Paused.elapsed < Budget["llm"]
    BY <1>0, <1>1, SendPausedKeeps DEF RetryLlm
  <1>2. CASE ~(Paused.elapsed < Budget["llm"])
    <2>1. request' = [Paused EXCEPT !.at = "failed"] BY <1>2 DEF RetryLlm
    <2>2. Shape' BY <2>1, PausedFacts DEF Shape, Stages
    <2>3. /\ request'.at = "failed"
          /\ request'.elapsed = request.elapsed + Pause(request.attempt)
          /\ request'.to = request.to /\ request'.attempt = request.attempt
      BY <2>1, PausedFacts
    <2>4. request.elapsed <= Budget[request.to] BY DEF RetryLlm, BudgetInv
    <2>5. Pause(request.attempt) \in Nat BY PausedFacts
    <2>6. BudgetInv' BY <1>0, <2>3, <2>4, <2>5 DEF BudgetInv, Stages
    <2> QED BY <2>2, <2>6
  <1> QED BY <1>1, <1>2

(* An answer, or none, that takes no longer than an attempt may. *)
LEMMA TakesFacts ==
    ASSUME Shape, BudgetInv, NEW d, Takes(d), d \in Durations \cup {Limit} PROVE
        /\ d \in Nat /\ request.elapsed + d \in Nat
        /\ request.elapsed + d <= Budget[request.to]
        /\ After(d).elapsed = request.elapsed + d
        /\ After(d) \in Requests
        /\ \A f \in {"to", "attempt"} : After(d)[f] = request[f]
  <1>1. Budget[request.to] \in Nat BY BudgetIsNat DEF BudgetInv
  <1>2. request.elapsed \in Nat /\ request.elapsed < Budget[request.to]
    BY DEF BudgetInv, Takes
  <1>3. Left \in Nat BY <1>1, <1>2 DEF Left
  <1>4. Limit \in Nat /\ Limit <= Left BY <1>3, PolicyAssumption DEF Limit, Least
  <1>5. d \in Nat BY <1>4, PolicyAssumption
  <1>6. d <= Limit BY DEF Takes
  <1>7. request.elapsed + d \in Nat /\ request.elapsed + d <= Budget[request.to]
    BY <1>1, <1>2, <1>3, <1>4, <1>5, <1>6 DEF Left
  <1> QED BY <1>5, <1>7 DEF Shape, After

LEMMA RetryableKeeps ==
    ASSUME Shape, BudgetInv, NEW second \in BOOLEAN, Retryable(second)
    PROVE Shape' /\ BudgetInv'
  <1>1. PICK d \in Durations \cup {Limit} :
            /\ Takes(d) /\ request.attempt < MaxRetries
            /\ request' = [After(d) EXCEPT
                    !.at = "next", !.attempt = @ + 1,
                    !.model = IF second THEN "fallback" ELSE @,
                    !.fellback = @ \/ second]
    BY DEF Retryable
  <1>2. request.attempt + 1 \in 0..MaxRetries /\ request.attempt \in Nat
    BY <1>1 DEF BudgetInv, MaxRetries
  <1>3. Shape' BY <1>1, <1>2, TakesFacts DEF Shape, Stages
  <1>4. /\ request'.at = "next" /\ request'.elapsed = request.elapsed + d
        /\ request'.to = request.to /\ request'.attempt = request.attempt + 1
    BY <1>1, TakesFacts
  <1>5. request.elapsed + d \in Nat /\ request.elapsed + d <= Budget[request.to]
    BY <1>1, TakesFacts
  <1>6. BudgetInv' BY <1>2, <1>4, <1>5 DEF BudgetInv, Stages
  <1> QED BY <1>3, <1>6

(* The two ways an attempt is the last. *)
LEMMA EndsKeeps ==
    ASSUME Shape, BudgetInv, Response \/ RequestError PROVE Shape' /\ BudgetInv'
  <1>1. PICK d \in Durations \cup {Limit}, stage \in {"answered", "failed"} :
            Takes(d) /\ request' = [After(d) EXCEPT !.at = stage]
    BY DEF Response, RequestError
  <1>2. Shape' BY <1>1, TakesFacts DEF Shape, Stages
  <1>3. /\ request'.at = stage /\ request'.elapsed = request.elapsed + d
        /\ request'.to = request.to /\ request'.attempt = request.attempt
    BY <1>1, TakesFacts
  <1>4. request.elapsed + d \in Nat /\ request.elapsed + d <= Budget[request.to]
    BY <1>1, TakesFacts
  <1>5. BudgetInv' BY <1>3, <1>4 DEF BudgetInv, Stages
  <1> QED BY <1>2, <1>5

(* The steps of the analysis either start a request or leave it as it is. *)
LEMMA NextKeeps ==
    ASSUME Shape, BudgetInv, [AnalysisNext]_analysisVars
    PROVE Shape' /\ BudgetInv'
  <1>1. CASE Requesting
    <2>1. (analysis.second /\ request.to = "llm") \in BOOLEAN OBVIOUS
    <2>2. CASE FirstAttempt BY <2>2, FirstAttemptKeeps
    <2>3. CASE RetryStt BY <2>3, RetrySttKeeps
    <2>4. CASE RetryLlm BY <2>4, RetryLlmKeeps
    <2>5. CASE Retryable(analysis.second /\ request.to = "llm")
      BY <2>1, <2>5, RetryableKeeps
    <2>6. CASE Response \/ RequestError BY <2>6, EndsKeeps
    <2> QED BY <1>1, <2>2, <2>3, <2>4, <2>5, <2>6 DEF Requesting, RequestStep
  <1>2. CASE request' = NewRequest("llm") BY <1>2, FreshInv DEF Providers
  <1>3. CASE UNCHANGED request BY <1>3 DEF Shape, BudgetInv
  <1>4. CASE AnalysisNext /\ ~Requesting
    <2>1. request' = NewRequest("llm") \/ UNCHANGED request
      BY <1>4 DEF AnalysisNext, Silent, RequestFails, Transcribed, BaseReplied, RetryReplied,
                  InterviewReplied, RepairReplied, AnalysisEnds, AsksAgain
    <2> QED BY <2>1, <1>2, <1>3
  <1> QED BY <1>1, <1>3, <1>4 DEF analysisVars

(* No request exceeds its budget but by the language model's last pause, and
   none is sent without some of it left: retry_backoff_ms and the loops of
   transcribe_wav and request_card_raw_text_with_temperature. *)
THEOREM RequestBudgetKept == AnalysisSpec => []RequestsKeepBudget
  <1>1. AnalysisInit => Shape /\ BudgetInv
    <2> SUFFICES ASSUME AnalysisInit PROVE Shape /\ BudgetInv OBVIOUS
    <2>1. request = NewRequest("stt") BY DEF AnalysisInit
    <2>2. Shape BY <2>1, FreshShape DEF Shape, Providers
    <2>3. BudgetInv
      BY <2>1, BudgetIsNat DEF BudgetInv, NewRequest, Stages, MaxRetries, Providers
    <2> QED BY <2>2, <2>3
  <1>2. Shape /\ BudgetInv /\ [AnalysisNext]_analysisVars => Shape' /\ BudgetInv'
    BY NextKeeps
  <1>3. BudgetInv => RequestsKeepBudget
    <2> SUFFICES ASSUME BudgetInv PROVE RequestsKeepBudget OBVIOUS
    <2>1. Budget[request.to] \in Nat /\ request.elapsed \in Nat
      BY BudgetIsNat DEF BudgetInv
    <2> QED BY <2>1 DEF BudgetInv, RequestsKeepBudget, Stages
  <1> QED BY <1>1, <1>2, <1>3, PTL DEF AnalysisSpec

-------------------------------------------------------------------------------
(* The analysis is a record with these fields, *)
Repliable == Replies \cup {[shape |-> "none"]}
Parts == {"transcribing", "base", "retry", "interview", "repair", "card", "failed"}

Analyses == [at : Parts, mode : {"work", "interview"}, heard : Heards,
             profile : Profiles, second : BOOLEAN, reply : Repliable,
             interview : Interviews \cup {SafeCard}, repaired : BOOLEAN,
             retries : Nat, fellback : BOOLEAN, resent : Nat, switched : BOOLEAN]
AnalysisShape == analysis \in Analyses

(* a request counts its attempts, in the models it was sent to and in the
   retries, one behind while it pauses, *)
AttemptsInv ==
    /\ request.fellback <=> request.model = "fallback"
    /\ request.at = "next" =>
         /\ Len(request.models) = request.attempt
         /\ request.retries = IF request.attempt = 0 THEN 0 ELSE request.attempt - 1
    /\ request.at \in {"sent", "answered"} =>
         /\ Len(request.models) = request.attempt + 1
         /\ request.retries = request.attempt
         /\ request.model = request.models[Len(request.models)]

(* and the analysis those of its requests so far: two at most of each. *)
ResentInv ==
    /\ analysis.retries <= analysis.resent /\ (analysis.fellback => analysis.switched)
    /\ analysis.mode = "work" =>
         /\ analysis.retries = analysis.resent /\ analysis.fellback = analysis.switched
         /\ analysis.at \notin {"interview", "repair"}
    /\ analysis.at = "retry" => analysis.mode = "work"
    /\ analysis.resent <= 3 * MaxRetries
    /\ analysis.at \in {"transcribing", "base"} => analysis.resent = 0
    /\ analysis.at \in {"retry", "interview"} => analysis.resent <= MaxRetries
    /\ analysis.at = "repair" => analysis.resent <= 2 * MaxRetries

RequestInv == Shape /\ BudgetInv

LEMMA FreshAttempts ==
    ASSUME NEW p \in Providers, request' = NewRequest(p) PROVE AttemptsInv'
  BY DEF AttemptsInv, NewRequest

(* Sending counts an attempt. *)
LEMMA SendsAttempts ==
    ASSUME Shape, NEW after, Sends(after),
           after \in Requests,
           after.fellback <=> after.model = "fallback",
           Len(after.models) = after.attempt, after.retries = after.attempt
    PROVE  AttemptsInv'
  <1> DEFINE models == Append(after.models, after.model)
  <1>1. /\ Len(models) = after.attempt + 1
        /\ models[Len(models)] = after.model
    OBVIOUS
  <1>2. request' = [after EXCEPT !.at = "sent", !.models = models]
    BY DEF Sends
  <1> HIDE DEF models
  <1>3. /\ request'.at = "sent" /\ request'.models = models
        /\ request'.model = after.model /\ request'.fellback = after.fellback
        /\ request'.attempt = after.attempt /\ request'.retries = after.retries
    BY <1>2
  <1> QED BY <1>1, <1>3 DEF AttemptsInv

LEMMA RequestingAttempts ==
    ASSUME RequestInv, AttemptsInv, NEW second \in BOOLEAN, RequestStep(second)
    PROVE  AttemptsInv'
  <1>1. CASE FirstAttempt
    <2>1. request.attempt = 0 /\ request.retries = 0 /\ Len(request.models) = 0
      BY <1>1 DEF FirstAttempt, AttemptsInv
    <2> QED BY <1>1, <2>1, SendsAttempts DEF FirstAttempt, AttemptsInv, RequestInv, Shape
  <1>2. CASE (RetryStt \/ RetryLlm) /\ Sends(Paused)
    <2>1. /\ request.at = "next" /\ request.attempt > 0 /\ request.attempt \in Nat
          /\ request.retries = request.attempt - 1 /\ Len(request.models) = request.attempt
      BY <1>2 DEF RetryStt, RetryLlm, AttemptsInv, RequestInv, Shape, MaxRetries
    <2>2. /\ Paused.retries = request.retries + 1 /\ Paused.fellback = request.fellback
      BY DEF Paused, RequestInv, Shape
    <2>3. Paused.retries = Paused.attempt /\ Len(Paused.models) = Paused.attempt
      BY <2>1, <2>2, PausedFacts DEF RequestInv
    <2> QED BY <1>2, <2>2, <2>3, PausedFacts, SendsAttempts DEF AttemptsInv, RequestInv
  <1>3. CASE RetryStt /\ Goes("failed")
    BY <1>3 DEF Goes, AttemptsInv, RequestInv, Shape
  <1>4. CASE RetryLlm /\ request' = [Paused EXCEPT !.at = "failed"]
    <2>1. Paused.fellback = request.fellback
      BY DEF Paused, RequestInv, Shape
    <2> QED BY <1>4, <2>1, PausedFacts DEF AttemptsInv, RequestInv
  <1>5. ASSUME NEW d \in Durations \cup {Limit}, Takes(d)
        PROVE  /\ request.at = "sent"
               /\ After(d).attempt = request.attempt /\ After(d).retries = request.retries
               /\ After(d).model = request.model /\ After(d).models = request.models
               /\ After(d).fellback = request.fellback
    BY <1>5 DEF Takes, After, RequestInv, Shape
  <1>6. CASE Retryable(second /\ request.to = "llm")
    <2> DEFINE other == second /\ request.to = "llm"
    <2>1. PICK d \in Durations \cup {Limit} :
            /\ Takes(d)
            /\ request' = [After(d) EXCEPT
                    !.at = "next", !.attempt = @ + 1,
                    !.model = IF other THEN "fallback" ELSE @,
                    !.fellback = @ \/ other]
      BY <1>6 DEF Retryable
    <2>2. After(d) \in Requests
      BY <2>1, TakesFacts DEF RequestInv
    <2> DEFINE model == IF other THEN "fallback" ELSE After(d).model
               fellback == After(d).fellback \/ other
    <2>3. request' = [After(d) EXCEPT !.at = "next", !.attempt = @ + 1, !.model = model,
                                      !.fellback = fellback]
      BY <2>1
    <2>4. (fellback <=> model = "fallback") /\ fellback \in BOOLEAN
      BY <1>5, <2>1 DEF AttemptsInv
    <2> HIDE DEF model, fellback
    <2>5. /\ request'.at = "next" /\ request'.attempt = request.attempt + 1
          /\ request'.retries = request.retries /\ request'.models = request.models
          /\ request'.model = model /\ (request'.fellback <=> fellback)
      <3> DEFINE after == After(d)
      <3>1. /\ after \in Requests
            /\ request' = [after EXCEPT !.at = "next", !.attempt = @ + 1, !.model = model,
                                        !.fellback = fellback]
        BY <2>2, <2>3
      <3>2. /\ after.attempt = request.attempt /\ after.retries = request.retries
            /\ after.models = request.models
        BY <1>5, <2>1
      <3> HIDE DEF after
      <3>3. request'.at = "next" /\ request'.attempt = request.attempt + 1
        BY <3>1, <3>2
      <3>4. request'.retries = request.retries /\ request'.models = request.models
        BY <3>1, <3>2
      <3>5. request'.model = model
        BY <3>1
      <3>6. request'.fellback <=> fellback
        BY <3>1, <2>4
      <3> QED BY <3>3, <3>4, <3>5, <3>6
    <2>6. request.attempt \in Nat
      BY DEF RequestInv, Shape, MaxRetries
    <2> QED BY <1>5, <2>1, <2>4, <2>5, <2>6 DEF AttemptsInv
  <1>7. CASE Response \/ RequestError
    <2>1. PICK d \in Durations \cup {Limit}, stage \in {"answered", "failed"} :
            Takes(d) /\ request' = [After(d) EXCEPT !.at = stage]
      BY <1>7 DEF Response, RequestError
    <2>2. After(d) \in Requests
      BY <2>1, TakesFacts DEF RequestInv
    <2>3. /\ request'.at = stage /\ request'.attempt = request.attempt
          /\ request'.retries = request.retries /\ request'.models = request.models
          /\ request'.model = request.model /\ request'.fellback = request.fellback
      BY <1>5, <2>1, <2>2
    <2> QED BY <1>5, <2>1, <2>3 DEF AttemptsInv
  <1> QED
    BY <1>1, <1>2, <1>3, <1>4, <1>6, <1>7 DEF RequestStep, RetryStt, RetryLlm

(* The same analysis but for its telemetry. *)
SameButCounts(a, b) ==
    /\ a.at = b.at /\ a.mode = b.mode /\ a.heard = b.heard /\ a.profile = b.profile
    /\ a.reply = b.reply /\ a.interview = b.interview

(* The analysis counts a request when it is answered. *)
LEMMA CountedIs ==
    ASSUME RequestInv, AttemptsInv, AnalysisShape, request.at = "answered"
    PROVE  /\ request.retries \in 0..MaxRetries
           /\ Counted(analysis) \in Analyses /\ SameButCounts(Counted(analysis), analysis)
           /\ Counted(analysis).resent = analysis.resent + request.retries
           /\ Counted(analysis).switched <=> (analysis.switched \/ request.fellback)
           /\ Counted(analysis).retries = analysis.retries
           /\ Counted(analysis).fellback <=> analysis.fellback
           /\ Reported(analysis) \in Analyses /\ SameButCounts(Reported(analysis), analysis)
           /\ Reported(analysis).resent = analysis.resent + request.retries
           /\ Reported(analysis).switched <=> (analysis.switched \/ request.fellback)
           /\ Reported(analysis).retries = analysis.retries + request.retries
           /\ Reported(analysis).fellback <=> (analysis.fellback \/ request.fellback)
<1> DEFINE n == analysis.resent + Len(request.models) - 1
           other == analysis.switched \/ request.model = "fallback"
           counted == Counted(analysis)
           m == counted.retries + request.retries
           fell == counted.fellback \/ request.fellback
<1>1. /\ request.retries \in 0..MaxRetries /\ request.retries \in Nat
      /\ Len(request.models) = request.retries + 1
      /\ request.fellback <=> request.model = "fallback"
  BY DEF AttemptsInv, RequestInv, Shape, MaxRetries
<1>2. n = analysis.resent + request.retries /\ n \in Nat /\ other \in BOOLEAN
  BY <1>1 DEF AnalysisShape, Analyses
<1>3. other <=> (analysis.switched \/ request.fellback)
  BY <1>1
<1>4. counted = [analysis EXCEPT !.resent = n, !.switched = other]
  BY DEF Counted
<1> HIDE DEF n, other
<1>5. /\ counted \in Analyses /\ SameButCounts(counted, analysis)
      /\ counted.resent = n /\ (counted.switched <=> other)
      /\ counted.retries = analysis.retries /\ (counted.fellback <=> analysis.fellback)
  BY <1>2, <1>4 DEF AnalysisShape, Analyses, SameButCounts
<1>6. Reported(analysis) = [counted EXCEPT !.retries = m, !.fellback = fell]
  BY DEF Reported
<1> HIDE DEF counted
<1>7. m = analysis.retries + request.retries /\ m \in Nat /\ fell \in BOOLEAN
  BY <1>1, <1>5 DEF Analyses
<1>8. fell <=> (analysis.fellback \/ request.fellback)
  BY <1>5
<1> HIDE DEF m, fell
<1>9. /\ Reported(analysis) \in Analyses /\ SameButCounts(Reported(analysis), counted)
      /\ Reported(analysis).retries = m /\ (Reported(analysis).fellback <=> fell)
      /\ Reported(analysis).resent = n /\ (Reported(analysis).switched <=> other)
  BY <1>5, <1>6, <1>7 DEF Analyses, SameButCounts
<1>10. SameButCounts(Reported(analysis), analysis)
  BY <1>5, <1>9 DEF SameButCounts
<1> QED
  BY <1>1, <1>2, <1>3, <1>5, <1>7, <1>8, <1>9, <1>10 DEF counted

-------------------------------------------------------------------------------
(* The cards: what is returned passed its checks, and what failed with a reply
   that parses did not. *)
CardInv ==
    /\ analysis.at \in {"interview", "repair", "card"} =>
         Parses(analysis.reply) /\ Card(analysis.reply).ok
    /\ analysis.at = "card" /\ analysis.mode = "interview" =>
         PassesGate(analysis.interview, analysis.heard, analysis.profile)
    /\ analysis.at = "failed" /\ request.at = "answered" => analysis.reply \in Replies
    /\ FailedRepair => ~Card(analysis.reply).ok

AnalysisInv == RequestInv /\ AttemptsInv /\ AnalysisShape /\ ResentInv /\ CardInv

(* The card that is safe to say is within the limits of every profile. *)
LEMMA SafePasses ==
    ASSUME NEW heard, NEW p \in Profiles PROVE PassesGate(SafeCard, heard, p)
<1>1. WordFault(SafeCard, p) = "none"
  BY ProfilesAssumption DEF WordFault, SafeCard
<1>2. InterviewFault(SafeCard, heard, p) = "none"
  BY <1>1 DEF InterviewFault, Ungrounded, SafeCard
<1> QED
  BY <1>2 DEF PassesGate, FailedReasons, SafeCard

(* An answer to a request for a card is counted, whatever comes of it. *)
LEMMA RepliedFacts ==
    ASSUME AnalysisInv, request.at = "answered", NEW reply \in Replies, NEW stage \in Parts,
           analysis' = [[Reported(analysis) EXCEPT !.reply = reply] EXCEPT !.at = stage]
    PROVE  /\ AnalysisShape' /\ analysis'.at = stage /\ analysis'.reply = reply
           /\ analysis'.mode = analysis.mode /\ analysis'.heard = analysis.heard
           /\ analysis'.profile = analysis.profile /\ analysis'.interview = analysis.interview
           /\ Card(reply)' = Card(reply)
           /\ request.retries \in 0..MaxRetries
           /\ analysis'.resent = analysis.resent + request.retries
           /\ analysis'.retries = analysis.retries + request.retries
           /\ analysis'.switched <=> (analysis.switched \/ request.fellback)
           /\ analysis'.fellback <=> (analysis.fellback \/ request.fellback)
<1> DEFINE after == Reported(analysis)
<1>1. after \in Analyses /\ SameButCounts(after, analysis)
  BY CountedIs DEF AnalysisInv
<1>2. /\ request.retries \in 0..MaxRetries
      /\ after.resent = analysis.resent + request.retries
      /\ after.retries = analysis.retries + request.retries
      /\ after.switched <=> (analysis.switched \/ request.fellback)
      /\ after.fellback <=> (analysis.fellback \/ request.fellback)
  BY CountedIs DEF AnalysisInv
<1>3. analysis' = [[after EXCEPT !.reply = reply] EXCEPT !.at = stage]
  OBVIOUS
<1> HIDE DEF after
<1>4. /\ analysis' \in Analyses /\ analysis'.at = stage /\ analysis'.reply = reply
      /\ analysis'.mode = after.mode /\ analysis'.heard = after.heard
      /\ analysis'.profile = after.profile /\ analysis'.interview = after.interview
      /\ analysis'.resent = after.resent /\ analysis'.retries = after.retries
      /\ analysis'.switched = after.switched /\ analysis'.fellback = after.fellback
  BY <1>1, <1>3 DEF Analyses, Repliable
<1>5. analysis'.heard = analysis.heard /\ analysis'.profile = analysis.profile
  BY <1>1, <1>4 DEF SameButCounts
<1>6. Card(reply)' = Card(reply)
  BY <1>5 DEF Card
<1> QED
  BY <1>1, <1>2, <1>4, <1>5, <1>6 DEF SameButCounts, AnalysisShape

LEMMA BaseReplies ==
    ASSUME AnalysisInv, NEW reply \in Replies, BaseReplied(reply) PROVE AnalysisInv'
<1> DEFINE good == Parses(reply) /\ Card(reply).ok
           stage == IF good THEN IF analysis.mode = "work" THEN "card" ELSE "interview"
                    ELSE IF Parses(reply) /\ analysis.mode = "work" THEN "retry" ELSE "failed"
<1>1. analysis.at = "base" /\ request.at = "answered" /\ analysis.mode \in {"work", "interview"}
  BY DEF BaseReplied, Answered, AnalysisInv, AnalysisShape, Analyses
<1>2. /\ analysis' = [[Reported(analysis) EXCEPT !.reply = reply] EXCEPT !.at = stage]
      /\ IF stage \in {"interview", "retry"} THEN AsksAgain ELSE UNCHANGED request
  BY <1>1 DEF BaseReplied
<1>3. stage \in Parts
  BY DEF Parts
<1>4. /\ AnalysisShape' /\ analysis'.at = stage /\ analysis'.reply = reply
      /\ analysis'.mode = analysis.mode /\ Card(reply)' = Card(reply)
      /\ request.retries \in 0..MaxRetries
      /\ analysis'.resent = analysis.resent + request.retries
      /\ analysis'.retries = analysis.retries + request.retries
      /\ analysis'.switched <=> (analysis.switched \/ request.fellback)
      /\ analysis'.fellback <=> (analysis.fellback \/ request.fellback)
  <2> HIDE DEF stage
  <2> QED BY <1>1, <1>2, <1>3, RepliedFacts
<1>5. RequestInv' /\ AttemptsInv'
  <2>1. CASE AsksAgain
    BY <2>1, FreshInv, FreshAttempts DEF AsksAgain, RequestInv, Providers
  <2>2. CASE UNCHANGED request
    BY <2>2 DEF AnalysisInv, RequestInv, Shape, BudgetInv, AttemptsInv
  <2> QED BY <1>2, <2>1, <2>2
<1>6. ResentInv'
  BY <1>1, <1>4 DEF AnalysisInv, AnalysisShape, Analyses, ResentInv, MaxRetries
<1>7. CardInv'
  BY <1>1, <1>4 DEF AnalysisInv, CardInv, FailedRepair
<1> QED
  BY <1>4, <1>5, <1>6, <1>7 DEF AnalysisInv

LEMMA RetryReplies ==
    ASSUME AnalysisInv, NEW reply \in Replies, RetryReplied(reply) PROVE AnalysisInv'
<1> DEFINE stage == IF Parses(reply) /\ Card(reply).ok THEN "card" ELSE "failed"
<1>1. analysis.at = "retry" /\ request.at = "answered" /\ UNCHANGED request
  BY DEF RetryReplied, Answered
<1>2. analysis' = [[Reported(analysis) EXCEPT !.reply = reply] EXCEPT !.at = stage]
  BY DEF RetryReplied
<1>3. stage \in Parts /\ analysis.mode = "work"
  BY <1>1 DEF Parts, AnalysisInv, CardInv, ResentInv, AnalysisShape, Analyses
<1>4. /\ AnalysisShape' /\ analysis'.at = stage /\ analysis'.reply = reply
      /\ analysis'.mode = analysis.mode /\ Card(reply)' = Card(reply)
      /\ request.retries \in 0..MaxRetries
      /\ analysis'.resent = analysis.resent + request.retries
      /\ analysis'.retries = analysis.retries + request.retries
      /\ analysis'.switched <=> (analysis.switched \/ request.fellback)
      /\ analysis'.fellback <=> (analysis.fellback \/ request.fellback)
  <2> HIDE DEF stage
  <2> QED BY <1>1, <1>2, <1>3, RepliedFacts
<1>5. RequestInv' /\ AttemptsInv'
  BY <1>1 DEF AnalysisInv, RequestInv, Shape, BudgetInv, AttemptsInv
<1>6. ResentInv'
  BY <1>1, <1>4 DEF AnalysisInv, AnalysisShape, Analyses, ResentInv, MaxRetries
<1>7. CardInv'
  BY <1>3, <1>4 DEF CardInv, FailedRepair
<1> QED
  BY <1>4, <1>5, <1>6, <1>7 DEF AnalysisInv

(* A reply for the interview card leaves the base card as it was returned. *)
LEMMA InterviewedFacts ==
    ASSUME AnalysisInv, request.at = "answered", NEW stage \in Parts,
           NEW card \in Interviews \cup {SafeCard}, NEW repaired \in BOOLEAN,
           analysis' = [Counted(analysis) EXCEPT !.at = stage, !.interview = card,
                                                 !.repaired = repaired]
    PROVE  /\ AnalysisShape' /\ analysis'.at = stage /\ analysis'.interview = card
           /\ analysis'.mode = analysis.mode /\ analysis'.heard = analysis.heard
           /\ analysis'.profile = analysis.profile /\ analysis'.reply = analysis.reply
           /\ Card(analysis.reply)' = Card(analysis.reply)
           /\ request.retries \in 0..MaxRetries
           /\ analysis'.resent = analysis.resent + request.retries
           /\ analysis'.retries = analysis.retries
           /\ analysis'.switched <=> (analysis.switched \/ request.fellback)
           /\ analysis'.fellback <=> analysis.fellback
<1> DEFINE after == Counted(analysis)
<1>1. after \in Analyses /\ SameButCounts(after, analysis)
  BY CountedIs DEF AnalysisInv
<1>2. /\ request.retries \in 0..MaxRetries
      /\ after.resent = analysis.resent + request.retries
      /\ after.retries = analysis.retries
      /\ after.switched <=> (analysis.switched \/ request.fellback)
      /\ after.fellback <=> analysis.fellback
  BY CountedIs DEF AnalysisInv
<1>3. analysis' = [after EXCEPT !.at = stage, !.interview = card, !.repaired = repaired]
  OBVIOUS
<1> HIDE DEF after
<1>4. /\ analysis' \in Analyses /\ analysis'.at = stage /\ analysis'.interview = card
      /\ analysis'.mode = after.mode /\ analysis'.heard = after.heard
      /\ analysis'.profile = after.profile /\ analysis'.reply = after.reply
      /\ analysis'.resent = after.resent /\ analysis'.retries = after.retries
      /\ analysis'.switched = after.switched /\ analysis'.fellback = after.fellback
  BY <1>1, <1>3 DEF Analyses
<1>5. /\ analysis'.heard = analysis.heard /\ analysis'.profile = analysis.profile
      /\ analysis'.reply = analysis.reply
  BY <1>1, <1>4 DEF SameButCounts
<1>6. Card(analysis.reply)' = Card(analysis.reply)
  BY <1>5 DEF Card
<1> QED
  BY <1>1, <1>2, <1>4, <1>5, <1>6 DEF SameButCounts, AnalysisShape

LEMMA InterviewReplies ==
    ASSUME AnalysisInv, NEW card \in Interviews, InterviewReplied(card) PROVE AnalysisInv'
<1> DEFINE passes == PassesGate(card, analysis.heard, analysis.profile)
           stage == IF passes THEN "card" ELSE "repair"
           kept == IF passes THEN card ELSE analysis.interview
           repaired == ~passes
<1>1. analysis.at = "interview" /\ request.at = "answered"
  BY DEF InterviewReplied, Answered
<1>2. /\ analysis' = [Counted(analysis) EXCEPT !.at = stage, !.interview = kept,
                                               !.repaired = repaired]
      /\ IF passes THEN UNCHANGED request ELSE AsksAgain
  <2>1. Counted(analysis).interview = analysis.interview
    BY <1>1, CountedIs DEF AnalysisInv, SameButCounts
  <2> QED BY <2>1 DEF InterviewReplied
<1>3. stage \in Parts /\ kept \in Interviews \cup {SafeCard} /\ repaired \in BOOLEAN
  BY DEF Parts, AnalysisInv, AnalysisShape, Analyses
<1>4. /\ AnalysisShape' /\ analysis'.at = stage /\ analysis'.interview = kept
      /\ analysis'.mode = analysis.mode /\ analysis'.heard = analysis.heard
      /\ analysis'.profile = analysis.profile /\ analysis'.reply = analysis.reply
      /\ Card(analysis.reply)' = Card(analysis.reply)
      /\ request.retries \in 0..MaxRetries
      /\ analysis'.resent = analysis.resent + request.retries
      /\ analysis'.retries = analysis.retries
      /\ analysis'.switched <=> (analysis.switched \/ request.fellback)
      /\ analysis'.fellback <=> analysis.fellback
  <2> HIDE DEF stage, kept, repaired
  <2> QED BY <1>1, <1>2, <1>3, InterviewedFacts
<1>5. RequestInv' /\ AttemptsInv'
  <2>1. CASE AsksAgain
    BY <2>1, FreshInv, FreshAttempts DEF AsksAgain, RequestInv, Providers
  <2>2. CASE UNCHANGED request
    BY <2>2 DEF AnalysisInv, RequestInv, Shape, BudgetInv, AttemptsInv
  <2> QED BY <1>2, <2>1, <2>2
<1>6. analysis.mode = "interview"
  BY <1>1 DEF AnalysisInv, AnalysisShape, Analyses, ResentInv
<1>7. ResentInv'
  BY <1>1, <1>4, <1>6 DEF AnalysisInv, AnalysisShape, Analyses, ResentInv, MaxRetries
<1>8. CardInv'
  BY <1>1, <1>4 DEF AnalysisInv, CardInv, FailedRepair
<1> QED
  BY <1>4, <1>5, <1>7, <1>8 DEF AnalysisInv

LEMMA RepairReplies ==
    ASSUME AnalysisInv, NEW card \in Interviews, RepairReplied(card) PROVE AnalysisInv'
<1> DEFINE passes == PassesGate(card, analysis.heard, analysis.profile)
           kept == IF passes THEN card ELSE SafeCard
<1>1. analysis.at = "repair" /\ request.at = "answered" /\ UNCHANGED request
  BY DEF RepairReplied, Answered
<1>2. analysis' = [Counted(analysis) EXCEPT !.at = "card", !.interview = kept,
                                            !.repaired = Counted(analysis).repaired]
  <2>1. Counted(analysis) \in Analyses
    BY <1>1, CountedIs DEF AnalysisInv
  <2>2. analysis' = [Counted(analysis) EXCEPT !.at = "card", !.interview = kept]
    BY DEF RepairReplied
  <2> QED BY <2>1, <2>2 DEF Analyses
<1>3. /\ "card" \in Parts /\ kept \in Interviews \cup {SafeCard}
      /\ Counted(analysis).repaired \in BOOLEAN
  BY <1>1, CountedIs DEF Parts, AnalysisInv, Analyses
<1>4. /\ AnalysisShape' /\ analysis'.at = "card" /\ analysis'.interview = kept
      /\ analysis'.mode = analysis.mode /\ analysis'.heard = analysis.heard
      /\ analysis'.profile = analysis.profile /\ analysis'.reply = analysis.reply
      /\ Card(analysis.reply)' = Card(analysis.reply)
      /\ request.retries \in 0..MaxRetries
      /\ analysis'.resent = analysis.resent + request.retries
      /\ analysis'.retries = analysis.retries
      /\ analysis'.switched <=> (analysis.switched \/ request.fellback)
      /\ analysis'.fellback <=> analysis.fellback
  <2> HIDE DEF kept
  <2> QED BY <1>1, <1>2, <1>3, InterviewedFacts
<1>5. RequestInv' /\ AttemptsInv'
  BY <1>1 DEF AnalysisInv, RequestInv, Shape, BudgetInv, AttemptsInv
<1>6. analysis.mode = "interview"
  BY <1>1 DEF AnalysisInv, AnalysisShape, Analyses, ResentInv
<1>7. ResentInv'
  BY <1>1, <1>4, <1>6 DEF AnalysisInv, AnalysisShape, Analyses, ResentInv, MaxRetries
<1>8. PassesGate(kept, analysis.heard, analysis.profile)
  BY SafePasses DEF AnalysisInv, AnalysisShape, Analyses
<1>9. CardInv'
  BY <1>1, <1>4, <1>8 DEF AnalysisInv, CardInv, FailedRepair
<1> QED
  BY <1>4, <1>5, <1>7, <1>9 DEF AnalysisInv

(* The other steps keep what was counted and what the cards are. *)
LEMMA StageMoves ==
    ASSUME AnalysisInv, NEW stage \in Parts, analysis' = [analysis EXCEPT !.at = stage]
    PROVE  /\ AnalysisShape' /\ analysis'.at = stage
           /\ \A f \in {"mode", "heard", "profile", "reply", "interview", "retries", "resent",
                        "fellback", "switched"} : analysis'[f] = analysis[f]
           /\ Card(analysis.reply)' = Card(analysis.reply)
<1>1. /\ AnalysisShape' /\ analysis'.at = stage
      /\ \A f \in {"mode", "heard", "profile", "reply", "interview", "retries", "resent",
                   "fellback", "switched"} : analysis'[f] = analysis[f]
  BY DEF AnalysisInv, AnalysisShape, Analyses
<1> QED
  BY <1>1 DEF Card

LEMMA OtherSteps ==
    ASSUME AnalysisInv, Requesting \/ Silent \/ RequestFails \/ Transcribed \/ UNCHANGED analysisVars
    PROVE  AnalysisInv'
<1>1. CASE Requesting
  <2>1. RequestInv'
    BY <1>1, NextKeeps DEF AnalysisInv, RequestInv, AnalysisNext
  <2>2. AttemptsInv'
    BY <1>1, RequestingAttempts DEF AnalysisInv, Requesting, AnalysisShape, Analyses
  <2> QED
    BY <1>1, <2>1, <2>2
    DEF Requesting, AnalysisInv, AnalysisShape, ResentInv, CardInv, Card, FailedRepair
<1>2. CASE Silent \/ RequestFails
  <2>1. /\ analysis' = [analysis EXCEPT !.at = "failed"] /\ UNCHANGED request
        /\ request.at # "answered"
    BY <1>2 DEF Silent, RequestFails, AnalysisEnds, NewRequest
  <2>2. RequestInv' /\ AttemptsInv'
    BY <2>1 DEF AnalysisInv, RequestInv, Shape, BudgetInv, AttemptsInv
  <2>3. /\ AnalysisShape' /\ analysis'.at = "failed"
        /\ \A f \in {"mode", "heard", "profile", "reply", "interview", "retries", "resent",
                     "fellback", "switched"} : analysis'[f] = analysis[f]
    BY <2>1, StageMoves DEF Parts
  <2>4. ResentInv' /\ CardInv'
    BY <2>1, <2>3 DEF AnalysisInv, ResentInv, CardInv, FailedRepair
  <2> QED BY <2>2, <2>3, <2>4 DEF AnalysisInv
<1>3. CASE Transcribed
  <2>1. RequestInv' /\ AttemptsInv'
    BY <1>3, FreshInv, FreshAttempts DEF Transcribed, AsksAgain, RequestInv, Providers
  <2>2. analysis' = [analysis EXCEPT !.at = "base"] /\ analysis.at = "transcribing"
    BY <1>3 DEF Transcribed
  <2>3. /\ AnalysisShape' /\ analysis'.at = "base"
        /\ \A f \in {"mode", "heard", "profile", "reply", "interview", "retries", "resent",
                     "fellback", "switched"} : analysis'[f] = analysis[f]
    BY <2>2, StageMoves DEF Parts
  <2>4. ResentInv' /\ CardInv'
    BY <2>2, <2>3 DEF AnalysisInv, ResentInv, CardInv, FailedRepair
  <2> QED BY <2>1, <2>3, <2>4 DEF AnalysisInv
<1>4. CASE UNCHANGED analysisVars
  BY <1>4 DEF analysisVars, AnalysisInv, RequestInv, Shape, BudgetInv, AttemptsInv,
     AnalysisShape, ResentInv, CardInv, Card, FailedRepair
<1> QED
  BY <1>1, <1>2, <1>3, <1>4

LEMMA AnalysisStep == ASSUME AnalysisInv, [AnalysisNext]_analysisVars PROVE AnalysisInv'
  BY BaseReplies, RetryReplies, InterviewReplies, RepairReplies, OtherSteps DEF AnalysisNext

LEMMA AnalysisBegin == AnalysisInit => AnalysisInv
<1> SUFFICES ASSUME AnalysisInit PROVE AnalysisInv
  OBVIOUS
<1>1. RequestInv /\ AttemptsInv
  <2>1. request = NewRequest("stt")
    BY DEF AnalysisInit
  <2>2. Shape
    BY <2>1, FreshShape DEF Shape, Providers
  <2>3. BudgetInv
    BY <2>1, BudgetIsNat DEF BudgetInv, NewRequest, Stages, MaxRetries, Providers
  <2>4. AttemptsInv
    BY <2>1 DEF AttemptsInv, NewRequest
  <2> QED BY <2>2, <2>3, <2>4 DEF RequestInv
<1>2. PICK mode \in {"work", "interview"}, heard \in Heards, profile \in Profiles,
           second \in BOOLEAN : analysis = NewAnalysis(mode, heard, profile, second)
  BY DEF AnalysisInit
<1>3. AnalysisShape /\ ResentInv /\ CardInv
  BY <1>2 DEF NewAnalysis, AnalysisShape, Analyses, Parts, Repliable, ResentInv, CardInv,
     FailedRepair, MaxRetries
<1> QED
  BY <1>1, <1>3 DEF AnalysisInv

LEMMA AnalysisHolds == AnalysisSpec => []AnalysisInv
  BY AnalysisBegin, AnalysisStep, PTL DEF AnalysisSpec

(* What is reported of an answered request is what was sent for it, and what an
   analysis reports is what its requests for the base card add up to: the
   telemetry of request_card_raw_text_with_temperature and the outcome of the
   cards' generation. *)
THEOREM TelemetryReported == AnalysisSpec => []TelemetryIsTrue
<1>1. AnalysisInv => TelemetryIsTrue
  <2> SUFFICES ASSUME AnalysisInv PROVE TelemetryIsTrue
    OBVIOUS
  <2>1. request.at = "answered" =>
          /\ request.retries = Len(request.models) - 1
          /\ request.model = request.models[Len(request.models)]
          /\ request.fellback <=> request.model = "fallback"
    BY DEF AnalysisInv, AttemptsInv, RequestInv, Shape, MaxRetries
  <2> QED BY <2>1 DEF AnalysisInv, ResentInv, TelemetryIsTrue
<1> QED
  BY <1>1, AnalysisHolds, PTL

-------------------------------------------------------------------------------
(* A section that repair_section returns keeps its rule, whatever replaced it. *)
LEMMA CardKeepsRules ==
    ASSUME NEW reply, NEW heard, NEW profile, CardOfReply(reply, heard, profile).ok
    PROVE  /\ QuestionFault(CardOfReply(reply, heard, profile).gist) = "none"
           /\ StepFault(CardOfReply(reply, heard, profile).next_move, heard) = "none"
           /\ AnswerFault(CardOfReply(reply, heard, profile).say_now, heard, profile) = "none"
<1> DEFINE gist == QuestionSection(Brief(reply), heard)
           say_now == AnswerSection(SayNow(reply, heard), heard, profile)
           next_move == StepSection(reply.step, heard)
<1>1. /\ CardOfReply(reply, heard, profile).gist = gist.text
      /\ CardOfReply(reply, heard, profile).say_now = say_now.text
      /\ CardOfReply(reply, heard, profile).next_move = next_move.text
      /\ CardOfReply(reply, heard, profile).ok
            = ({gist.fault, say_now.fault, next_move.fault} = {"none"})
  BY DEF CardOfReply
<1>2. gist.fault = "none" /\ say_now.fault = "none" /\ next_move.fault = "none"
  <2> HIDE DEF gist, say_now, next_move
  <2> QED BY <1>1
<1>3. QuestionFault(gist.text) = "none"
  BY <1>2 DEF QuestionSection, Section
<1>4. AnswerFault(say_now.text, heard, profile) = "none"
  BY <1>2 DEF AnswerSection, Section
<1>5. StepFault(next_move.text, heard) = "none"
  BY <1>2 DEF StepSection, Section
<1> QED
  BY <1>1, <1>3, <1>4, <1>5

(* The words and the facts of a card that passes the gate. *)
LEMMA PassesKeeps ==
    ASSUME NEW card, NEW heard, NEW p, PassesGate(card, heard, p)
    PROVE  /\ card.metrics \cup card.anchors \subseteq heard.facts
           /\ card.main \in p.min..p.max
<1>1. InterviewFault(card, heard, p) = "none"
  BY DEF PassesGate, FailedReasons
<1>2. WordFault(card, p) = "none" /\ Ungrounded(card, heard) = "none"
  BY <1>1 DEF InterviewFault
<1>3. card.metrics \subseteq heard.facts /\ card.anchors \subseteq heard.facts
  BY <1>2 DEF Ungrounded
<1>4. card.main \in p.min..p.max
  BY <1>2 DEF WordFault
<1> QED
  BY <1>3, <1>4

(* Whatever the model replies, and however often, what is shown keeps the rules. *)
THEOREM CardKeepsItsRules == AnalysisSpec => []CardIsSound
<1>1. AnalysisInv => CardIsSound
  BY CardKeepsRules, PassesKeeps DEF AnalysisInv, CardInv, CardIsSound, Card
<1> QED
  BY <1>1, AnalysisHolds, PTL

-------------------------------------------------------------------------------
(* Trimming keeps the tokens, and at least four words if there were as many. *)
LEMMA WordsFit == ASSUME NEW chars \in Nat, chars >= 90 PROVE chars \div LettersPerWord >= 4
<1> DEFINE L == LettersPerWord
           q == chars \div L
<1>1. L \in Nat /\ L > 0 /\ L <= 20
  BY LettersAssumption
<1>2. q \in Nat /\ L * q <= chars /\ chars < L * (q + 1)
  BY <1>1
<1>3. ASSUME q <= 3 PROVE FALSE
  <2>1. L * (q + 1) <= 80
    <3> HIDE DEF q
    <3>1. q = 0 \/ q = 1 \/ q = 2 \/ q = 3
      BY <1>2, <1>3
    <3> QED BY <1>1, <3>1
  <2> HIDE DEF L, q
  <2>2. L * (q + 1) \in Nat
    BY <1>1, <1>2
  <2> QED BY <1>2, <2>1, <2>2
<1> QED
  BY <1>2, <1>3

LEMMA TrimKeeps ==
    ASSUME NEW text \in Sayings, NEW chars \in Nat, chars >= 90
    PROVE  LET cut == trim_line(text, chars)
           IN  /\ cut \in Sayings /\ cut.tokens = text.tokens /\ (cut.asks => text.asks)
               /\ cut.words = text.words \/ (cut.words >= 4 /\ text.words >= 4)
               /\ text.words <= 40 /\ chars >= 800 => cut = text
<1> DEFINE q == chars \div LettersPerWord
           size == text.words * LettersPerWord
<1>1. q \in Nat /\ q >= 4
  BY WordsFit, LettersAssumption
<1>2. size \in Nat
  BY LettersAssumption DEF Sayings
<1>3. ASSUME text.words <= 40 PROVE size <= 800
  <2>1. text.words \in Nat /\ LettersPerWord \in Nat /\ LettersPerWord <= 20
    BY LettersAssumption DEF Sayings
  <2> QED BY <1>3, <2>1
<1>4. ASSUME text.words <= 3 PROVE size <= 60
  <2>1. text.words \in Nat /\ LettersPerWord \in Nat /\ LettersPerWord <= 20
    BY LettersAssumption DEF Sayings
  <2>2. text.words = 0 \/ text.words = 1 \/ text.words = 2 \/ text.words = 3
    BY <1>4, <2>1
  <2> QED BY <2>1, <2>2
<1>5. trim_line(text, chars) = IF size <= chars THEN text
                               ELSE [text EXCEPT !.words = q, !.asks = FALSE]
  BY DEF trim_line
<1> HIDE DEF q, size
<1>6. text.words \in Nat /\ text.asks \in BOOLEAN
  BY DEF Sayings
<1>7. CASE size <= chars
  BY <1>5, <1>6, <1>7
<1>8. CASE ~(size <= chars)
  <2>1. text.words >= 4 /\ (chars >= 800 => ~(text.words <= 40))
    BY <1>2, <1>3, <1>4, <1>6, <1>8
  <2>2. trim_line(text, chars) = [text EXCEPT !.words = q, !.asks = FALSE]
    BY <1>5, <1>8
  <2>3. /\ trim_line(text, chars) \in Sayings
        /\ trim_line(text, chars).tokens = text.tokens
        /\ ~trim_line(text, chars).asks /\ trim_line(text, chars).words = q
    BY <1>1, <2>2 DEF Sayings
  <2> QED BY <1>1, <2>1, <2>3
<1> QED
  BY <1>7, <1>8

LEMMA LimitsAre ==
    ASSUME NEW heard \in Heards
    PROVE  LET band == Band(heard.chars)
           IN  /\ Chars.gist[band] \in Nat /\ Chars.gist[band] >= 90
               /\ Chars.say_now[band] \in Nat /\ Chars.say_now[band] >= 800
               /\ Chars.next_move[band] \in Nat /\ Chars.next_move[band] >= 90
<1>1. heard.chars \in Nat
  BY SayingsAssumption
<1>2. Band(heard.chars) \in {"short", "medium", "long"}
  BY <1>1 DEF Band
<1> QED
  BY <1>2 DEF Chars

(* The question can always be repaired, *)
LEMMA QuestionMends ==
    ASSUME NEW text \in Sayings, NEW heard \in Heards
    PROVE  QuestionSection(text, heard).fault = "none"
<1> DEFINE max == Chars.gist[Band(heard.chars)]
           given == trim_line(text, max)
           snippet == trim_line([given EXCEPT !.words = heard.words], 90)
           mended == RepairedQuestion(given, heard)
<1>1. max \in Nat /\ max >= 90 /\ heard.words \in Nat
  BY LimitsAre, SayingsAssumption
<1>2. given \in Sayings
  <2> HIDE DEF max
  <2> QED BY <1>1, TrimKeeps
<1>3. snippet \in Sayings
  <2> HIDE DEF given
  <2>1. [given EXCEPT !.words = heard.words] \in Sayings
    BY <1>1, <1>2 DEF Sayings
  <2> QED BY <2>1, TrimKeeps
<1>4. mended \in Sayings /\ mended.words >= 4
  <2> HIDE DEF given
  <2>1. mended = IF given.words >= 4 THEN given
                 ELSE [words |-> IF snippet.words > 0 THEN 4 + snippet.words ELSE 10,
                       sentences |-> 1, asks |-> FALSE, tokens |-> {}]
    BY DEF RepairedQuestion
  <2>2. snippet.words \in Nat
    BY <1>3 DEF Sayings
  <2> HIDE DEF snippet, mended
  <2> QED BY <1>2, <2>1, <2>2 DEF Sayings
<1>5. trim_line(mended, max) \in Sayings /\ trim_line(mended, max).words >= 4
  <2> HIDE DEF mended, max
  <2>1. mended.words \in Nat
    BY <1>4 DEF Sayings
  <2> QED BY <1>1, <1>4, <2>1, TrimKeeps
<1>6. QuestionFault(trim_line(mended, max)) = "none"
  <2> HIDE DEF mended, max
  <2> QED BY <1>5 DEF QuestionFault, Sayings
<1>7. QuestionSection(text, heard)
        = Section(given, QuestionFault(given), trim_line(mended, max), "none")
  BY <1>6 DEF QuestionSection
<1> HIDE DEF given, mended, max
<1> QED
  BY <1>7 DEF Section, QuestionFault

(* an answer but an apology or a question too, *)
LEMMA AnswerMends ==
    ASSUME NEW text \in Sayings, ~text.asks, NEW heard \in Heards, NEW profile \in Profiles
    PROVE  AnswerSection(text, heard, profile).fault \in {"none", "apology"}
<1> DEFINE max == Chars.say_now[Band(heard.chars)]
           given == trim_line(text, max)
           mended == RepairedAnswer(given, heard)
<1>1. max \in Nat /\ max >= 800
  BY LimitsAre
<1>2. given \in Sayings /\ ~given.asks
  <2> HIDE DEF max
  <2> QED BY <1>1, TrimKeeps
<1>3. PICK n \in 30..40 :
        mended = [words |-> n, sentences |-> 3, asks |-> FALSE, tokens |-> {"action"}]
  <2> HIDE DEF given
  <2>1. heard.variant \in 1..3
    BY SayingsAssumption
  <2>2. \A about \in {"date", "who", "other"} : AnswerWords[about][heard.variant] \in 30..40
    BY <2>1 DEF AnswerWords
  <2> QED BY <1>2, <2>2 DEF RepairedAnswer
<1> HIDE DEF mended
<1>4. mended \in Sayings /\ mended.words <= 40
  BY <1>3 DEF Sayings, Tokens, Marks
<1>5. trim_line(mended, max) = mended
  <2> HIDE DEF max
  <2> QED BY <1>1, <1>4, TrimKeeps
<1>6. /\ MinWords(profile, Band(heard.chars)) <= 30 /\ MinWords(profile, Band(heard.chars)) \in Nat
      /\ MaxWords(profile, Band(heard.chars)) >= 40 /\ MaxWords(profile, Band(heard.chars)) \in Nat
  BY ProfilesAssumption DEF MinWords, MaxWords, Smaller, SafeCard
<1>7. AnswerFault(mended, heard, profile) = "none"
  <2>1. ~ApologyOnly(mended) /\ "generic" \notin mended.tokens /\ "action" \in mended.tokens
    BY <1>3 DEF ApologyOnly
  <2>2. /\ mended.words > 0 /\ mended.words # 0 /\ mended.sentences = 3
        /\ ~(mended.words < MinWords(profile, Band(heard.chars)))
        /\ ~(mended.words > MaxWords(profile, Band(heard.chars)))
    BY <1>3, <1>6
  <2> QED BY <2>1, <2>2 DEF AnswerFault
<1>8. AnswerSection(text, heard, profile)
        = Section(given, AnswerFault(given, heard, profile), mended, "none")
  BY <1>5, <1>7 DEF AnswerSection, mended
<1> HIDE DEF given
<1> QED
  BY <1>8 DEF Section

(* and a next step but when the talk is of a blocker or a document. *)
LEMMA IntentIsFound ==
    ASSUME NEW text, NEW heard
    PROVE  \/ /\ FallbackIntent(text, heard) \in text.tokens \cup heard.tokens
              /\ FallbackIntent(text, heard) # "factual"
           \/ FallbackIntent(text, heard) = "factual" /\ QuestionLike(heard)
           \/ FallbackIntent(text, heard) = "default"
<1> DEFINE found == {i \in 1..Len(Topics) : Topics[i] \in text.tokens \cup heard.tokens}
           First(i) == \A j \in found : i <= j
<1>1. CASE found # {}
  <2>1. found \in SUBSET Nat
    BY DEF Topics
  <2>2. PICK i \in found : First(i)
    <3> HIDE DEF found
    <3> QED BY <1>1, <2>1, LeastNumber
  <2>3. (CHOOSE k \in found : First(k)) \in found
    <3> HIDE DEF found, First
    <3> QED BY <2>2
  <2>4. FallbackIntent(text, heard) = Topics[CHOOSE k \in found : First(k)]
    BY <1>1 DEF FallbackIntent
  <2>5. \A n \in 1..Len(Topics) : Topics[n] # "factual"
    BY DEF Topics
  <2> QED BY <2>3, <2>4, <2>5
<1>2. CASE found = {}
  BY <1>2 DEF FallbackIntent
<1> QED
  BY <1>1, <1>2

LEMMA StepMends ==
    ASSUME NEW text \in Sayings, NEW heard \in Heards,
           StepSection(text, heard).fault # "none"
    PROVE  /\ StepFault(text, heard) # "none"
           /\ (text.tokens \cup heard.tokens) \cap {"blocker", "document"} # {}
<1> DEFINE max == Chars.next_move[Band(heard.chars)]
           given == trim_line(text, max)
           mended == FallbackStep(given, heard)
           last == trim_line(mended, max)
           intent == FallbackIntent(given, heard)
<1>1. max \in Nat /\ max >= 90
  BY LimitsAre
<1>2. /\ given \in Sayings /\ given.tokens = text.tokens
      /\ given.words = text.words \/ (given.words >= 4 /\ text.words >= 4)
  <2> HIDE DEF max
  <2> QED BY <1>1, TrimKeeps
<1>3. StepSection(text, heard)
        = Section(given, StepFault(given, heard), last, StepFault(last, heard))
  BY DEF StepSection
<1>4. StepFault(given, heard) # "none" /\ StepFault(last, heard) # "none"
  <2> HIDE DEF given, last
  <2>1. StepFault(given, heard) # "apology"
    BY DEF StepFault
  <2> QED BY <1>3, <2>1 DEF Section
<1>5. StepFault(text, heard) # "none"
  <2> HIDE DEF given
  <2>1. given.words < 3 <=> text.words < 3
    BY <1>2 DEF Sayings
  <2> QED BY <1>2, <1>4, <2>1 DEF StepFault
<1>6. PICK tokens \in SUBSET {"coordination", "factual"} :
        /\ mended = [words |-> 8, sentences |-> 1, asks |-> FALSE, tokens |-> tokens]
        /\ "coordination" \notin tokens =>
             \/ intent = "factual" /\ "factual" \in tokens
             \/ intent # "factual" /\ <<intent, heard.variant>> \in LooseSteps
  BY DEF FallbackStep
<1> HIDE DEF given, mended, intent
<1>7. mended \in Sayings
  <2>1. tokens \in SUBSET Tokens
    BY DEF Tokens, Marks
  <2> QED BY <1>6, <2>1 DEF Sayings
<1>8. last.tokens = tokens /\ last.words >= 4 /\ last.words \in Nat
  <2>1. mended.words = 8 /\ mended.tokens = tokens
    BY <1>6
  <2> HIDE DEF max
  <2> QED BY <1>1, <1>7, <2>1, TrimKeeps DEF Sayings
<1> HIDE DEF last
<1>9. "coordination" \notin tokens /\ ~(QuestionLike(heard) /\ "factual" \in tokens)
  <2>1. "vague" \notin last.tokens /\ ~(last.words < 3)
    BY <1>6, <1>8
  <2> QED BY <1>4, <1>8, <2>1 DEF StepFault
<1>10. \/ intent \in text.tokens \cup heard.tokens /\ intent # "factual"
       \/ intent = "factual" /\ QuestionLike(heard)
       \/ intent = "default"
  BY <1>2, IntentIsFound DEF intent
<1>11. intent \in {"blocker", "document"} /\ intent \in text.tokens \cup heard.tokens
  <2>1. intent # "factual" => intent \in {"blocker", "document"}
    BY <1>6, <1>9 DEF LooseSteps
  <2>2. intent # "factual" /\ intent # "default"
    BY <1>6, <1>9, <1>10 DEF LooseSteps
  <2> QED BY <1>10, <2>1, <2>2
<1> QED
  BY <1>5, <1>11

LEMMA SayNowIs ==
    ASSUME NEW reply \in Replies, NEW heard \in Heards PROVE SayNow(reply, heard) \in Sayings
<1> DEFINE max == Chars.say_now[Band(heard.chars)]
           short == trim_line(reply.answer, max)
           full == trim_line(reply.full, max)
<1>1. max \in Nat /\ max >= 90
  BY LimitsAre
<1>2. short \in Sayings /\ full \in Sayings
  <2>1. reply.answer \in Sayings /\ reply.full \in Sayings
    BY SayingsAssumption
  <2> HIDE DEF max
  <2> QED BY <1>1, <2>1, TrimKeeps
<1>3. SayNow(reply, heard) =
        IF reply.schema # "v4" \/ full.words = 0 \/ full = short THEN short
        ELSE [words |-> short.words + full.words, sentences |-> short.sentences + full.sentences,
              asks |-> full.asks, tokens |-> short.tokens \cup full.tokens]
  BY DEF SayNow
<1> HIDE DEF short, full
<1> QED
  BY <1>2, <1>3 DEF Sayings

(* An analysis whose model replied with a card fails for no other reason. *)
THEOREM RepairsFailSeldom == AnalysisSpec => []FailsOnlyIrreparable
<1>1. ASSUME AnalysisInv, FailedRepair PROVE FailsOnlyIrreparable
  <2> DEFINE reply == analysis.reply
             heard == analysis.heard
             profile == analysis.profile
             gist == QuestionSection(Brief(reply), heard)
             say_now == AnswerSection(SayNow(reply, heard), heard, profile)
             next_move == StepSection(reply.step, heard)
  <2>1. reply \in Replies /\ heard \in Heards /\ profile \in Profiles
    BY <1>1 DEF FailedRepair, CardInv, AnalysisInv, AnalysisShape, Analyses
  <2>2. reply.brief \in Sayings /\ reply.step \in Sayings /\ SayNow(reply, heard) \in Sayings
    BY <2>1, SayingsAssumption, SayNowIs
  <2>3. Brief(reply) \in Sayings
    BY <2>2 DEF Brief, Sayings
  <2>4. gist.fault = "none"
    BY <2>1, <2>3, QuestionMends
  <2>5. ~({gist.fault, say_now.fault, next_move.fault} = {"none"})
    BY <1>1 DEF AnalysisInv, CardInv, Card, CardOfReply
  <2>6. SayNow(reply, heard).asks \/ say_now.fault \in {"none", "apology"}
    BY <2>1, <2>2, AnswerMends
  <2>7. next_move.fault = "none" \/ (/\ StepFault(reply.step, heard) # "none"
                                     /\ (reply.step.tokens \cup heard.tokens) \cap {"blocker", "document"} # {})
    BY <2>1, <2>2, StepMends
  <2> HIDE DEF gist, next_move
  <2>8. \/ say_now.fault = "apology"
        \/ SayNow(reply, heard).asks /\ say_now.fault # "none"
        \/ /\ say_now.fault = "none"
           /\ StepFault(reply.step, heard) # "none"
           /\ (reply.step.tokens \cup heard.tokens) \cap {"blocker", "document"} # {}
    <3> HIDE DEF say_now, reply, heard
    <3> QED BY <2>4, <2>5, <2>6, <2>7
  <2> QED BY <2>8 DEF FailsOnlyIrreparable
<1>2. AnalysisInv => FailsOnlyIrreparable
  BY <1>1 DEF FailsOnlyIrreparable
<1> QED
  BY <1>2, AnalysisHolds, PTL
===============================================================================
