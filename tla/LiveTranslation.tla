--------------------------- MODULE LiveTranslation ---------------------------
(***************************************************************************)
(* What a bilingual session does with the utterances that the provider's   *)
(* stream declares final (segment_manager.rs, context_buffer.rs,           *)
(* translation.rs, capture_bilingual_answer): each joins the context of    *)
(* the next answer, and each is handed over an unbounded channel to the    *)
(* batcher, a task of its own that waits for a pause, translates what      *)
(* gathered in one request, and ends with the channel.  A report is made   *)
(* of the lists of a session that runs, or of their copy that a stop makes *)
(* before the session has come to its end.                                 *)
(*                                                                         *)
(* An utterance is its number within the session.                          *)
(***************************************************************************)
EXTENDS Integers, SequencesExt

CONSTANTS
    MaxFinals,    \* bound: utterances
    MaxSegments,  \* the utterances an answer is asked about at most
    Window,       \* their age at most, relative to the latest
    MaxStored,    \* the utterances, the batches and the answers kept for the report
    MaxAnswers,   \* bound: answers
    MaxStream,    \* bound: the clock of the stream
    Wall          \* the wall clock, far beyond that of any stream

ASSUME TranslationAssumption ==
    /\ MaxFinals \in Nat /\ MaxSegments \in Nat \ {0} /\ MaxStored \in Nat \ {0}
    /\ Window \in Nat /\ MaxStream \in Nat /\ MaxAnswers \in Nat
    /\ Wall \in Nat /\ Wall > MaxStream

VARIABLES
    streams,     \* the stream task runs
    place,       \* where the session is: held by the mutex, taken out of it, ...
    snapshot,    \* what the stop has copied of it
    endedAt,     \* the end times of the utterances, in the order heard
    clock,       \* the stream's time, from zero at every connection
    context,     \* the utterances the next answer is asked about
    transcript,  \* the utterances kept for the report
    asked,       \* those the answer in flight is asked about
    answers,     \* those of the answers that were kept
    asks,        \* how many answers were asked for
    channel,     \* the batcher's channel: off when translation is
    sent,        \* in the channel
    pending,     \* received by the batcher
    batch,       \* being translated
    failed,      \* the attempts at it that failed
    translated   \* the batches translated

contextVars == <<streams, endedAt, clock, context, transcript>>
answerVars == <<asked, answers, asks>>
placeVars == <<place, snapshot>>
batcherVars == <<channel, sent, pending, batch, failed, translated>>
translationVars == <<contextVars, placeVars, answerVars, batcherVars>>

MaxTranslationRetries == 1

NoReport == [transcript |-> <<>>, translated |-> <<>>, answers |-> <<>>]

TranslationInit ==
    /\ streams = TRUE /\ place = "held" /\ snapshot = NoReport
    /\ endedAt = <<>> /\ clock = 0 /\ context = <<>> /\ transcript = <<>>
    /\ asked = <<>> /\ answers = <<>> /\ asks = 0
    /\ channel \in {"open", "off"}
    /\ sent = <<>> /\ pending = <<>> /\ batch = <<>> /\ failed = 0
    /\ translated = <<>>

Heard == Len(endedAt)

\* --- The context of an answer -------------------------------------------

\* The subtraction of the unsigned type.
Before(t, d) == IF t < d THEN 0 ELSE t - d

Fitting(q) == IF Len(q) > MaxSegments THEN Tail(q) ELSE q

\* A bug of Recent: one whose age is the window's is left out.
RecentExclusive(q, times) ==
    LET oldest == Before(times[Last(q)], Window)
        young == {i \in 1..Len(q) : times[q[i]] > oldest \/ i = Len(q)}
    IN  SubSeq(q, CHOOSE i \in young : \A j \in young : i <= j, Len(q))

\* The utterances from the first that is young enough; the last one always is.
Recent(q, times) ==
    LET oldest == Before(times[Last(q)], Window)
        young == {i \in 1..Len(q) : times[q[i]] >= oldest}
    IN  SubSeq(q, CHOOSE i \in young : \A j \in young : i <= j, Len(q))

PushFinal(q, id, times) == Recent(Fitting(Append(q, id)), times)

PushBounded(q, x, max) ==
    LET all == Append(q, x)
    IN  SubSeq(all, IF Len(all) > max THEN Len(all) - max + 1 ELSE 1, Len(all))

\* --- The stream ---------------------------------------------------------

\* An utterance ends at the stream's time, or at the wall clock's when the
\* message lacks the duration.
Ends == clock..MaxStream \cup {Wall}

\* All under the lock of the context, so that no answer comes in between.
FinalSegment ==
    /\ streams /\ Heard < MaxFinals
    /\ \E end \in Ends :
        LET id == Heard + 1
            times == Append(endedAt, end)
        IN  /\ endedAt' = times
            /\ context' = PushFinal(context, id, times)
            /\ transcript' = PushBounded(transcript, id, MaxStored)
            /\ clock' = IF end = Wall THEN clock ELSE end
            /\ sent' = IF channel = "open" THEN Append(sent, id) ELSE sent
    /\ UNCHANGED <<streams, placeVars, answerVars, channel, pending, batch, failed, translated>>

\* The stream starts again; the segments, and the context, go on.
Reconnected ==
    /\ streams /\ clock > 0
    /\ clock' = 0
    /\ UNCHANGED <<streams, endedAt, context, transcript, placeVars, answerVars, batcherVars>>

\* The task ends, and with it the sender of the channel.
EndStream ==
    /\ streams
    /\ streams' = FALSE
    /\ channel' = IF channel = "open" THEN "closed" ELSE channel
    /\ UNCHANGED <<endedAt, clock, context, transcript, placeVars, answerVars>>
    /\ UNCHANGED <<sent, pending, batch, failed, translated>>

\* --- The batcher --------------------------------------------------------

\* Within the pause, or while there is nothing to translate.
ReceiveSegment ==
    /\ batch = <<>> /\ sent # <<>>
    /\ pending' = Append(pending, Head(sent))
    /\ sent' = Tail(sent)
    /\ UNCHANGED <<contextVars, placeVars, answerVars, channel, batch, failed, translated>>

\* A bug of StartBatch: the batch is a copy, and its segments keep gathering.
StartBatchCloned ==
    /\ batch = <<>> /\ sent = <<>> /\ pending # <<>>
    /\ batch' = pending /\ failed' = 0
    /\ UNCHANGED <<contextVars, placeVars, answerVars, channel, sent, pending, translated>>

\* The pause is over, or the channel closed: the receiver looks first.
StartBatch ==
    /\ batch = <<>> /\ sent = <<>> /\ pending # <<>>
    /\ batch' = pending /\ failed' = 0
    /\ pending' = <<>>
    /\ UNCHANGED <<contextVars, placeVars, answerVars, channel, sent, translated>>

\* A bug of RetryBatch: the attempts are not counted.
RetryBatchForever ==
    /\ batch # <<>>
    /\ failed' = (failed + 1) % 2
    /\ UNCHANGED <<contextVars, placeVars, answerVars, channel, sent, pending, batch, translated>>

\* The request failed or took too long: once more.
RetryBatch ==
    /\ batch # <<>> /\ failed < MaxTranslationRetries
    /\ failed' = failed + 1
    /\ UNCHANGED <<contextVars, placeVars, answerVars, channel, sent, pending, batch, translated>>

\* Translated, too short to be, or given up: the observer stores what there is.
FinishBatch ==
    /\ batch # <<>>
    /\ translated' = PushBounded(translated, batch, MaxStored)
    /\ batch' = <<>> /\ failed' = 0
    /\ UNCHANGED <<contextVars, placeVars, answerVars, channel, sent, pending>>

EndBatcher ==
    /\ channel = "closed" /\ batch = <<>> /\ sent = <<>> /\ pending = <<>>
    /\ channel' = "ended"
    /\ UNCHANGED <<contextVars, placeVars, answerVars, sent, pending, batch, failed, translated>>

\* --- The answer ---------------------------------------------------------

capture_bilingual_answer ==
    /\ place = "held" /\ asked = <<>> /\ context # <<>> /\ asks < MaxAnswers
    /\ asked' = context
    /\ asks' = asks + 1
    /\ UNCHANGED <<contextVars, placeVars, answers, batcherVars>>

\* The session keeps the answer if the mutex holds it.
Answered ==
    /\ asked # <<>>
    /\ answers' = IF place = "held" THEN PushBounded(answers, asked, MaxStored) ELSE answers
    /\ asked' = <<>>
    /\ UNCHANGED <<contextVars, placeVars, asks, batcherVars>>

AnswerFails ==
    /\ asked # <<>>
    /\ asked' = <<>>
    /\ UNCHANGED <<contextVars, placeVars, answers, asks, batcherVars>>

\* --- The commands and the report ----------------------------------------

Moves(from, to) ==
    /\ place = from /\ place' = to
    /\ UNCHANGED <<contextVars, answerVars, batcherVars>>

\* A start takes the session out of the mutex and, if it is active, puts it back.
TakeSession == Moves("held", "taken") /\ UNCHANGED snapshot
PutSessionBack == Moves("taken", "held") /\ UNCHANGED snapshot

\* A stop copies the lists of the session before it ends the session.
StopSession ==
    /\ Moves("held", "stopping")
    /\ snapshot' = [transcript |-> transcript, translated |-> translated, answers |-> answers]

\* A bug of SessionStopped: what was translated meanwhile joins the copy.
SessionStoppedLate ==
    /\ ~streams
    /\ Moves("stopping", "stopped")
    /\ snapshot' = [snapshot EXCEPT !.translated = translated]

SessionStopped ==
    /\ ~streams
    /\ Moves("stopping", "stopped") /\ UNCHANGED snapshot

\* A start ends a session that had ended by itself, or begins a new one;
\* another command puts back the state without it.
ForgetSession ==
    /\ Moves("taken", "gone") \/ Moves("stopped", "gone")
    /\ UNCHANGED snapshot

export_bilingual_interview_report ==
    CASE place = "held" -> [transcript |-> transcript, translated |-> translated, answers |-> answers]
      [] place = "stopped" -> snapshot
      [] OTHER -> NoReport

\* --- The specification --------------------------------------------------

Batcher == ReceiveSegment \/ StartBatch \/ RetryBatch \/ FinishBatch \/ EndBatcher

TranslationNext ==
    \/ FinalSegment \/ Reconnected \/ EndStream
    \/ Batcher
    \/ capture_bilingual_answer \/ Answered \/ AnswerFails
    \/ TakeSession \/ PutSessionBack
    \/ StopSession \/ SessionStopped \/ ForgetSession

\* The runtime polls the batcher's task, and each of its requests has a timeout.
BatcherFairness == WF_translationVars(Batcher)

TranslationSpec ==
    TranslationInit /\ [][TranslationNext]_translationVars /\ BatcherFairness
-----------------------------------------------------------------------------
\* No utterance is lost or translated twice on its way through the channel,
\* the batcher and the requests, and none overtakes another, whatever fails
\* and wherever the session is stopped (run_batch_loop, process_batch).
OnItsWay == FlattenSeq(translated) \o batch \o pending \o sent
TranslatedInOrder ==
    channel # "off" =>
        /\ IsSuffix(OnItsWay, [i \in 1..Heard |-> i])
        /\ Len(translated) < MaxStored => Len(OnItsWay) = Heard

\* An answer is asked about the latest utterances without a gap, and an older
\* one is left out only beyond the number or the age an answer may have, across
\* reconnects, where the stream's clock starts again (context_buffer.rs); the
\* answers kept for the report name the utterances they were asked about.
Run(first, n) == [i \in 1..n |-> first + i - 1]
ContextIsRecent ==
    LET first == Heard - Len(context) + 1
    IN  /\ context = Run(first, Len(context))
        /\ \A q \in ToSet(answers) \cup {context} : Len(q) <= MaxSegments
        /\ \A q \in ToSet(answers) : q # <<>> /\ q = Run(Head(q), Len(q))
        /\ Heard > 0 => context # <<>>
        /\ first > 1 /\ Len(context) < MaxSegments =>
            \E later \in first..Heard : endedAt[later] > endedAt[first - 1] + Window

\* A report is of one moment of the session: its utterances follow each other
\* without a gap, what it has translated and answered it has heard, and none of
\* that is missing among its utterances before their number is at the limit,
\* also when the stream and the batcher have gone on after the stop's copy
\* (BilingualSessionState::stop, export_bilingual_interview_report).
ReportIsOfOneMoment ==
    LET report == export_bilingual_interview_report
        utterances == ToSet(report.transcript)
        named == ToSet(FlattenSeq(report.translated)) \cup ToSet(FlattenSeq(report.answers))
    IN  IF utterances = {} THEN named = {}
        ELSE /\ report.transcript = Run(report.transcript[1], Len(report.transcript))
             /\ \A id \in named : id <= Last(report.transcript)
             /\ Len(report.transcript) < MaxStored => named \subseteq utterances

\* The batcher always catches up, in the pauses and after the session's end:
\* nothing stays in the channel, in the batch that gathers or in a request
\* (run_batch_loop, MicroTranslator::translate).
BatcherCatchesUp == []<>(sent \o pending \o batch = <<>>)
===============================================================================
