---------------------------- MODULE AnswerAnalysis ----------------------------
(***************************************************************************)
(* From the recorded sound to the card (stt_provider.rs, llm_provider.rs): *)
(* a request to the speech provider, one to the language model whose reply *)
(* is made a card, and a second one when that fails; in an interview, the  *)
(* card of the question besides, with a second request of its own.         *)
(* CapturePipeline calls all this its provider steps.                      *)
(***************************************************************************)
EXTENDS ProviderRequests, AnswerCard, InterviewCard

CONSTANTS
    Heards,    \* the transcripts there may be
    Profiles,  \* the answer profiles
    Replies,   \* the replies to a request for a card
    Interviews \* the replies to a request for an interview card

\* Every profile of prompt_registry.rs admits the answers of the templates, of 30
\* to 40 words, and the safe card.
ASSUME ProfilesAssumption ==
    \A p \in Profiles : /\ p.min \in 0..30 /\ p.max \in Nat /\ p.max >= SafeCard.main
                       /\ p.short \in Nat /\ p.short >= 40
                       /\ p.strong \in Nat /\ p.strong >= SafeCard.strong

ASSUME SayingsAssumption ==
    /\ \A h \in Heards : h.chars \in Nat /\ h.words \in Nat /\ h.variant \in 1..3
    /\ \A r \in Replies : {r.brief, r.answer, r.full, r.step} \subseteq Sayings

VARIABLE analysis

analysisVars == <<request, analysis>>

\* Of an analysis: the stage it is at, what it was started with, what came back
\* for the base card and for the interview, the retries and the fallback that it
\* reports, and the history of those there were.
NewAnalysis(mode, heard, profile, second) ==
    [at |-> "transcribing", mode |-> mode, heard |-> heard, profile |-> profile,
     second |-> second, reply |-> [shape |-> "none"], interview |-> SafeCard,
     repaired |-> FALSE, retries |-> 0, fellback |-> FALSE, resent |-> 0, switched |-> FALSE]

AnalysisInit ==
    /\ request = NewRequest("stt")
    /\ \E mode \in {"work", "interview"}, heard \in Heards, profile \in Profiles,
          second \in BOOLEAN :
            analysis = NewAnalysis(mode, heard, profile, second)

Answered == request.at = "answered"
AnalysisEnds(stage) == analysis' = [analysis EXCEPT !.at = stage] /\ UNCHANGED request

\* The reply is in: another request, and what the telemetry of this one counts.
AsksAgain == request' = NewRequest("llm")
Counted(a) ==
    [a EXCEPT !.resent = @ + Len(request.models) - 1,
              !.switched = @ \/ request.model = "fallback"]
\* A bug of Reported: the telemetry is that of the last request.
ReportedLast(a) ==
    [Counted(a) EXCEPT !.retries = request.retries, !.fellback = request.fellback]

Reported(a) ==
    [Counted(a) EXCEPT !.retries = @ + request.retries, !.fellback = @ \/ request.fellback]

\* --- The steps ----------------------------------------------------------

Requesting ==
    /\ RequestStep(analysis.second)
    /\ analysis.at \notin {"card", "failed"}
    /\ UNCHANGED analysis

\* has_audible_signal: without one, nothing is asked.
Silent ==
    /\ analysis.at = "transcribing" /\ request = NewRequest("stt")
    /\ AnalysisEnds("failed")

\* Any request that fails is the end.
RequestFails ==
    /\ request.at = "failed" /\ analysis.at \notin {"card", "failed"}
    /\ AnalysisEnds("failed")

Transcribed ==
    /\ analysis.at = "transcribing" /\ Answered
    /\ AsksAgain
    /\ analysis' = [analysis EXCEPT !.at = "base"]

Card(reply) == CardOfReply(reply, analysis.heard, analysis.profile)

\* The reply to the request for the base card.
BaseReplied(reply) ==
    /\ analysis.at = "base" /\ Answered
    /\ LET after == [Reported(analysis) EXCEPT !.reply = reply]
       IN  CASE Parses(reply) /\ Card(reply).ok /\ analysis.mode = "work" ->
                    analysis' = [after EXCEPT !.at = "card"] /\ UNCHANGED request
             [] Parses(reply) /\ Card(reply).ok /\ analysis.mode = "interview" ->
                    analysis' = [after EXCEPT !.at = "interview"] /\ AsksAgain
             [] Parses(reply) /\ ~Card(reply).ok /\ analysis.mode = "work" ->
                    analysis' = [after EXCEPT !.at = "retry"] /\ AsksAgain
             [] OTHER -> analysis' = [after EXCEPT !.at = "failed"] /\ UNCHANGED request

\* The reply to the stricter request that follows an invalid card.
RetryReplied(reply) ==
    /\ analysis.at = "retry" /\ Answered
    /\ analysis' = [Reported(analysis) EXCEPT
            !.reply = reply,
            !.at = IF Parses(reply) /\ Card(reply).ok THEN "card" ELSE "failed"]
    /\ UNCHANGED request

\* The interview's requests are not in the telemetry.
InterviewReplied(card) ==
    /\ analysis.at = "interview" /\ Answered
    /\ LET passes == PassesGate(card, analysis.heard, analysis.profile)
       IN  /\ analysis' = [Counted(analysis) EXCEPT
                    !.at = IF passes THEN "card" ELSE "repair",
                    !.interview = IF passes THEN card ELSE @,
                    !.repaired = ~passes]
           /\ IF passes THEN UNCHANGED request ELSE AsksAgain

\* A bug of RepairReplied: the second card is taken as it is.
RepairRepliedUngated(card) ==
    /\ analysis.at = "repair" /\ Answered
    /\ analysis' = [Counted(analysis) EXCEPT !.at = "card", !.interview = card]
    /\ UNCHANGED request

RepairReplied(card) ==
    /\ analysis.at = "repair" /\ Answered
    /\ analysis' = [Counted(analysis) EXCEPT
            !.at = "card",
            !.interview = IF PassesGate(card, analysis.heard, analysis.profile)
                          THEN card ELSE SafeCard]
    /\ UNCHANGED request

AnalysisNext ==
    \/ Requesting \/ Silent \/ RequestFails \/ Transcribed
    \/ \E reply \in Replies : BaseReplied(reply) \/ RetryReplied(reply)
    \/ \E card \in Interviews : InterviewReplied(card) \/ RepairReplied(card)

AnalysisSpec == AnalysisInit /\ [][AnalysisNext]_analysisVars
-----------------------------------------------------------------------------
\* The retries and the second model that an answered request, and an analysis,
\* report are those there were; an interview's own requests are left out, so it
\* reports no more than there were (LlmRequestTelemetry, CardGenerationOutcome).
TelemetryIsTrue ==
    /\ request.at = "answered" =>
         /\ request.retries = Len(request.models) - 1
         /\ request.model = request.models[Len(request.models)]
         /\ request.fellback <=> request.model = "fallback"
    /\ analysis.retries <= analysis.resent /\ analysis.resent <= 3 * MaxRetries
    /\ analysis.fellback => analysis.switched
    /\ analysis.mode = "work" =>
         /\ analysis.retries = analysis.resent
         /\ analysis.fellback = analysis.switched

\* Whatever the model replies, the card that is returned keeps the rules of its
\* sections, also where a template replaced them, and in an interview what is to
\* be said claims no fact that was not heard, has the length the profile allows
\* and passes the gate, also when the safe card replaced it (repair_section,
\* generate_interview_card_with_conditional_repair, analyze_interview).
CardIsSound ==
    LET card == Card(analysis.reply)
        interview == analysis.interview
    IN  analysis.at = "card" =>
            /\ QuestionFault(card.gist) = "none"
            /\ StepFault(card.next_move, analysis.heard) = "none"
            /\ AnswerFault(card.say_now, analysis.heard, analysis.profile) = "none"
            /\ analysis.mode = "interview" =>
                 /\ interview.metrics \cup interview.anchors \subseteq analysis.heard.facts
                 /\ interview.main \in analysis.profile.min..analysis.profile.max
                 /\ PassesGate(interview, analysis.heard, analysis.profile)

\* The analysis failed with a reply that parses.
FailedRepair == analysis.at = "failed" /\ request.at = "answered" /\ Parses(analysis.reply)

\* With a reply that parses, an analysis fails only for an answer that is no more
\* than an apology, an answer that asks back, whose words are kept, or a next step
\* that has to be replaced when the talk is of a blocker or a document.
FailsOnlyIrreparable ==
    FailedRepair =>
        LET heard == analysis.heard
            answer == AnswerSection(SayNow(analysis.reply, heard), heard, analysis.profile)
        IN  \/ answer.fault = "apology"
            \/ SayNow(analysis.reply, heard).asks /\ answer.fault # "none"
            \/ /\ answer.fault = "none"
               /\ StepFault(analysis.reply.step, heard) # "none"
               /\ (analysis.reply.step.tokens \cup heard.tokens) \cap {"blocker", "document"} # {}

\* A vague next step is repaired before the card is shown (README.md:44): no
\* analysis fails for its next step alone.
VagueStepRepaired ==
    FailedRepair =>
        LET heard == analysis.heard
            answer == AnswerSection(SayNow(analysis.reply, heard), heard, analysis.profile)
        IN  answer.fault # "none"
===============================================================================
