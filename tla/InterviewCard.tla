----------------------------- MODULE InterviewCard -----------------------------
(***************************************************************************)
(* interview_card_v1.rs: the card of an interview question, validated,     *)
(* passed through a quality gate, asked for a second time when it fails,   *)
(* and replaced by a card that is safe to say when it fails again.         *)
(*                                                                         *)
(* Of a card the model keeps the words of its three answers, the facts it  *)
(* claims, and what the rules ask about the rest of it.                    *)
(***************************************************************************)
EXTENDS Integers

\* A profile gives the words of the answers: min, max, short and strong.
WordFault(card, profile) ==
    CASE card.main \notin profile.min..profile.max -> "main"
      [] card.main \in profile.min..profile.max /\ card.short > profile.short -> "short"
      [] OTHER -> IF card.strong \notin profile.min..profile.strong THEN "strong" ELSE "none"

\* The facts have to be in the transcript, whatever the context says.
Ungrounded(card, heard) ==
    IF ~(card.metrics \subseteq heard.facts) THEN "metric"
    ELSE IF ~(card.anchors \subseteq heard.facts) THEN "anchor" ELSE "none"

\* parse_interview_card_json and normalize_and_validate, up to the first error.
InterviewFault(card, heard, profile) ==
    IF ~card.parses THEN "json"
    ELSE IF ~card.filled THEN "empty"
    ELSE IF WordFault(card, profile) # "none" THEN WordFault(card, profile)
    ELSE IF card.generic THEN "generic"
    ELSE IF Ungrounded(card, heard) # "none" THEN Ungrounded(card, heard)
    ELSE IF card.clarifier = "textless" THEN "clarifier"
    ELSE "none"

\* How the gate calls an error; the ones it does not know count as bad JSON.
ReasonOfFault(fault) ==
    CASE fault = "main" -> "AnswerMainTooShort"
      [] fault = "generic" -> "AnswerMainTooGeneric"
      [] fault = "metric" -> "HallucinatedMetricDetected"
      [] fault = "clarifier" -> "MandatoryClarifierNotNeeded"
      [] fault = "empty" -> "EmptySignals"
      [] fault \in {"json", "short", "strong", "anchor"} -> "InvalidJsonAfterRepair"

\* evaluate_quality_gate: of a valid card, all that is wrong with it.
FailedReasons(card, heard, profile) ==
    LET fault == InterviewFault(card, heard, profile)
        signals == card.mentions \/ card.metrics # {} \/ card.anchors # {}
    IN  IF fault # "none" THEN {ReasonOfFault(fault)}
        ELSE {r \in {"MissingDirectAnswer", "BehavioralMissingStar",
                     "MandatoryClarifierNotNeeded", "EmptySignals"} :
                CASE r = "MissingDirectAnswer" -> ~card.direct
                  [] r = "BehavioralMissingStar" -> card.behavioral /\ ~card.star
                  [] r = "MandatoryClarifierNotNeeded" ->
                        card.clarifier = "asked" /\ ~heard.unclear
                  [] r = "EmptySignals" -> ~signals}

PassesGate(card, heard, profile) == FailedReasons(card, heard, profile) = {}

\* build_safe_fallback_card: it claims nothing.
SafeCard ==
    [parses |-> TRUE, filled |-> TRUE, main |-> 69, short |-> 13, strong |-> 55,
     generic |-> FALSE, metrics |-> {}, anchors |-> {}, clarifier |-> "none",
     mentions |-> TRUE, direct |-> TRUE, behavioral |-> FALSE, star |-> TRUE]
===============================================================================
