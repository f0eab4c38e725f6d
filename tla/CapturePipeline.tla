-------------------------- MODULE CapturePipeline --------------------------
(***************************************************************************)
(* The capture side of the Rust backend: the commands of                   *)
(* src-tauri/src/commands/capture.rs and commands/context.rs, the analysis *)
(* pipelines of services/capture_pipeline.rs, the recorder thread of       *)
(* audio.rs and the tray's "clear context" of lib.rs, over the mutexes of  *)
(* state.rs.                                                               *)
(*                                                                         *)
(* capture_start, clear_context and get_context_status are synchronous     *)
(* commands: one step each.  capture_stop_and_analyze and                  *)
(* retry_last_analysis are async: each invocation is a job, whose pc moves *)
(* at every await and at every acquisition of a mutex, so that any number  *)
(* of them interleave.  The events sent to the webview queue in events     *)
(* (status "capturing", which its listener drops, is left out); results    *)
(* of the synchronous commands wait in replies, that of an async command   *)
(* in its job.                                                             *)
(*                                                                         *)
(* A recording is a run id (next_run_id); its transcript bears the same    *)
(* number.  Run id 0 is None.                                              *)
(***************************************************************************)
EXTENDS ContextMemo, FiniteSets

CONSTANTS
    MaxRuns,     \* bound: recordings started
    MaxJobs,     \* bound: async commands in flight at one time
    RetryIds,    \* the run ids a client may give to retries
    Outside      \* what acts in the run: the clock, the tray, interviews

RunIds == 1..MaxRuns

ASSUME PipelineAssumption ==
    /\ MaxRuns \in Nat
    /\ MaxJobs \in Nat
    /\ RetryIds \subseteq Nat \ (0..MaxRuns)
    /\ Outside \subseteq {"clock", "tray", "interviews"}
    /\ Texts = RunIds

VARIABLES
    held,       \* CaptureController: active and active_run_id, 0 for None
    recording,  \* the runs whose recorder thread is still capturing audio
    runSeq,     \* RUN_SEQ
    memo,       \* the ConversationContext
    session,    \* the InterviewSessionState
    jobs,       \* the async commands in flight
    events,     \* the events the webview has not handled
    replies     \* the results of synchronous commands it has not handled

captureVars == <<held, recording, runSeq>>
backendVars == <<captureVars, memo, session, jobs, events, replies>>

NoRun == 0
Slots == 1..MaxJobs
AnyRun == RunIds \cup RetryIds \cup {NoRun}

\* Where an async command is:
\*   invoked    called, nothing done yet
\*   stopping   the CaptureRun taken, its thread being joined
\*   stt        waiting for the transcript
\*   reading    about to read the context and the session
\*   llm        waiting for the card
\*   recording  card committed, the question not yet appended
\*   ok, err    its result is on its way
\* and, on the webview's side once the result was handled,
\*   askOk, askErr    get_context_status called after a success or a failure
\*   toldOk, toldErr  its flags are on their way
Pcs == {"free", "invoked", "stopping", "stt", "reading", "llm", "recording",
        "ok", "err", "askOk", "askErr", "toldOk", "toldErr"}

\* The two fields of ContextStatusDto the frontend's guards read
Flags == [active : BOOLEAN, retry : BOOLEAN]
NoFlags == [active |-> FALSE, retry |-> FALSE]

Jobs == [kind  : {"none", "stop", "retry", "answer"},
         pc    : Pcs,
         owner : Nat,                   \* the hotkey registration that called
         run   : AnyRun,
         text  : Texts \cup {NoText},   \* the transcript being analysed
         mode  : Modes \cup {"none"},   \* the AnalysisMode chosen
         flags : Flags]                 \* what get_context_status returned

FreeJob == [kind |-> "none", pc |-> "free", owner |-> 0, run |-> NoRun,
            text |-> NoText, mode |-> "none", flags |-> NoFlags]

\* replyline://status with the phase what, sent by job; and, from the tray,
\* replyline://context-cleared
Events == [what : {"transcribing", "analyzing", "ready", "cleared"},
           job  : {0} \cup Slots,
           run  : AnyRun]

Status(j, run, what) == [what |-> what, job |-> j, run |-> run]
ClearedEvent == [what |-> "cleared", job |-> 0, run |-> NoRun]

\* What capture_start returns to the registration that called it (NoRun for
\* an error), and clear_context to the user interface
Replies == [to : Nat, run : RunIds \cup {NoRun}]
StartReply(owner, run) == [to |-> owner, run |-> run]
ClearReply == [to |-> 0, run |-> NoRun]

Sessions == [active : BOOLEAN, questions : Seq(Texts)]
NoSession == [active |-> FALSE, questions |-> <<>>]

\* The mutexes, queues and commands have their types; in particular a command
\* that analyses has something to analyse (retry_last_analysis, 728-742).
BackendTypeOK ==
    /\ held \in RunIds \cup {NoRun}
    /\ recording \subseteq RunIds
    /\ runSeq \in 0..MaxRuns
    /\ memo \in Contexts
    /\ session \in Sessions
    /\ jobs \in [Slots -> Jobs]
    /\ events \in Seq(Events)
    /\ replies \subseteq Replies

BackendInit ==
    /\ held = NoRun
    /\ recording = {}
    /\ runSeq = 0
    /\ memo = EmptyContext
    /\ session = NoSession
    /\ jobs = [j \in Slots |-> FreeJob]
    /\ events = <<>>
    /\ replies = {}

----------------------------------------------------------------------------
(* capture_start *)

\* A recorder thread starts and reports ready.
CaptureStartOk(owner) ==
    /\ held = NoRun
    /\ runSeq < MaxRuns
    /\ runSeq' = runSeq + 1
    /\ held' = runSeq'
    /\ recording' = recording \cup {runSeq'}
    /\ replies' = replies \cup {StartReply(owner, runSeq')}
    /\ UNCHANGED <<memo, session, jobs, events>>

\* A run is held already: the idempotent guard answers with its id.
CaptureStartAgain(owner) ==
    /\ held # NoRun
    /\ replies' = replies \cup {StartReply(owner, held)}
    /\ UNCHANGED <<captureVars, memo, session, jobs, events>>

\* settings::load fails, or with no run held CaptureRun::start does.
CaptureStartFails(owner) ==
    /\ replies' = replies \cup {StartReply(owner, NoRun)}
    /\ UNCHANGED <<captureVars, memo, session, jobs, events>>

CaptureStart(owner) ==
    CaptureStartOk(owner) \/ CaptureStartAgain(owner) \/ CaptureStartFails(owner)

\* Mutant: without capture_max_seconds only a stop ends the recorder.
RecorderWaitsForStop(r) ==
    /\ r \in recording \ {held}
    /\ recording' = recording \ {r}
    /\ UNCHANGED <<held, runSeq, memo, session, jobs, events, replies>>

\* Mutant: a recorder that ends gives up the run.
RecorderDropsRun(r) ==
    /\ r \in recording
    /\ recording' = recording \ {r}
    /\ held' = IF held = r THEN NoRun ELSE held
    /\ UNCHANGED <<runSeq, memo, session, jobs, events, replies>>

\* The recorder thread ends by itself at capture_max_seconds, or on a WASAPI
\* error; the CaptureRun stays in the controller.
RecorderEnds(r) ==
    /\ r \in recording
    /\ recording' = recording \ {r}
    /\ UNCHANGED <<held, runSeq, memo, session, jobs, events, replies>>

----------------------------------------------------------------------------
(* The async commands *)

Invoked(kind, owner, run) ==
    [FreeJob EXCEPT !.kind = kind, !.pc = "invoked", !.owner = owner, !.run = run]

\* A call takes the lowest free slot: which one carries no meaning.
IsNextSlot(j) == jobs[j].pc = "free" /\ \A i \in 1..(j - 1) : jobs[i].pc # "free"

At(j, kind, pcs) == jobs[j].kind = kind /\ jobs[j].pc \in pcs

Goes(j, pc) == [jobs EXCEPT ![j].pc = pc]

\* Any `?` or early return of command j while it is at one of the pcs
Fails(j, kind, pcs) ==
    /\ At(j, kind, pcs)
    /\ jobs' = Goes(j, "err")
    /\ UNCHANGED <<held, runSeq, session, events, replies>>

(* capture_stop_and_analyze *)

\* Mutant: the settings are loaded after the run was taken.
StopRefusedAfterTake(j) ==
    /\ At(j, "stop", {"invoked"})
    /\ jobs' = Goes(j, "err")
    /\ held' = NoRun
    /\ UNCHANGED <<recording, runSeq, memo, session, events, replies>>

\* The settings do not load, or no capture is active: the run, if there is
\* one, stays where it is.
StopRefused(j) == Fails(j, "stop", {"invoked"}) /\ UNCHANGED <<recording, memo>>

\* Mutant: the run is cloned, not taken.
StopClonesRun(j) ==
    /\ At(j, "stop", {"invoked"})
    /\ held # NoRun
    /\ jobs' = [jobs EXCEPT ![j].pc = "stopping", ![j].run = held]
    /\ events' = Append(events, Status(j, held, "transcribing"))
    /\ UNCHANGED <<captureVars, memo, session, replies>>

\* active.take() and active_run_id.take(), then status "transcribing"
StopTakesRun(j) ==
    /\ At(j, "stop", {"invoked"})
    /\ held # NoRun
    /\ jobs' = [jobs EXCEPT ![j].pc = "stopping", ![j].run = held]
    /\ held' = NoRun
    /\ events' = Append(events, Status(j, held, "transcribing"))
    /\ UNCHANGED <<recording, runSeq, memo, session, replies>>

\* CaptureRun::stop in the blocking pool: the recorder thread is gone, with
\* its audio (and both keys load) or with an error.
StopJoined(j) ==
    /\ At(j, "stop", {"stopping"})
    /\ jobs' = Goes(j, "stt")
    /\ recording' = recording \ {jobs[j].run}
    /\ UNCHANGED <<held, runSeq, memo, session, events, replies>>

StopJoinFails(j) ==
    /\ Fails(j, "stop", {"stopping"})
    /\ recording' = recording \ {jobs[j].run}
    /\ UNCHANGED memo

\* The transcript arrives: remember_transcript, status "analyzing"
TranscriptArrives(j) ==
    /\ At(j, "stop", {"stt"})
    /\ jobs' = [jobs EXCEPT ![j].pc = "reading", ![j].text = jobs[j].run]
    /\ memo' = Remembered(memo, jobs[j].run)
    /\ events' = Append(events, Status(j, jobs[j].run, "analyzing"))
    /\ UNCHANGED <<captureVars, session, replies>>

ModeNow == IF session.active THEN "interview" ELSE "work"

\* formatted_context, then the mode from the interview session
ContextRead(j) ==
    /\ At(j, "stop", {"reading"})
    /\ memo' = Unexpired(memo)
    /\ jobs' = [jobs EXCEPT ![j].pc = "llm", ![j].mode = ModeNow]
    /\ UNCHANGED <<captureVars, session, events, replies>>

\* The provider, or the making of the card, fails.
PipelineFails(j) ==
    Fails(j, "stop", {"stt", "llm"}) /\ UNCHANGED <<recording, memo>>

CardOf(j) == [text |-> jobs[j].text, mode |-> jobs[j].mode]

\* The card arrives: commit_transcript and remember_card under one lock
CardCommitted(j) ==
    /\ At(j, "stop", {"llm"})
    /\ memo' = WithCard(Committed(memo, jobs[j].text), CardOf(j))
    /\ jobs' = Goes(j, "recording")
    /\ UNCHANGED <<captureVars, session, events, replies>>

\* append_question, status "ready" and Ok(card)
CardReturned(j) ==
    /\ At(j, "stop", {"recording"})
    /\ session' = IF jobs[j].mode = "interview" /\ session.active
                  THEN [session EXCEPT !.questions = Append(@, jobs[j].text)]
                  ELSE session
    /\ jobs' = Goes(j, "ok")
    /\ events' = Append(events, Status(j, jobs[j].run, "ready"))
    /\ UNCHANGED <<captureVars, memo, replies>>

(* retry_last_analysis *)

\* Mutant: a retry without a transcript waits for one.
RetryWaits(j) == Fails(j, "retry", {"llm"}) /\ UNCHANGED <<recording, memo>>

\* The settings or the key do not load (nothing was read), the context holds
\* no transcript, or the provider fails.
RetryFails(j) ==
    /\ Fails(j, "retry", {"invoked", "llm"})
    /\ memo' \in {memo} \cup
                 {c \in {Unexpired(memo)} : jobs[j].pc = "invoked"
                                              /\ c.lastText = NoText}
    /\ UNCHANGED recording

\* Mutant: the missing transcript is not an error.
RetryReadsNothing(j) ==
    LET c == Unexpired(memo)
    IN  /\ At(j, "retry", {"invoked"})
        /\ memo' = c
        /\ jobs' = [jobs EXCEPT ![j].pc = "llm", ![j].text = c.lastText,
                               ![j].mode = ModeNow]
        /\ events' = Append(events, Status(j, jobs[j].run, "analyzing"))
        /\ UNCHANGED <<captureVars, session, replies>>

\* last_transcript, formatted_context and last_card under one lock; the mode
\* is the last card's, else the session's; status "analyzing"
RetryReads(j) ==
    LET c == Unexpired(memo)
    IN  /\ At(j, "retry", {"invoked"})
        /\ c.lastText # NoText
        /\ memo' = c
        /\ jobs' = [jobs EXCEPT
                      ![j].pc = "llm",
                      ![j].text = c.lastText,
                      ![j].mode = IF c.lastCard # NoCard THEN c.lastCard.mode
                                  ELSE ModeNow]
        /\ events' = Append(events, Status(j, jobs[j].run, "analyzing"))
        /\ UNCHANGED <<captureVars, session, replies>>

\* Mutant: a retry adds its question to the report.
RetryAppendsQuestion(j) ==
    /\ At(j, "retry", {"llm"})
    /\ memo' = WithCard(memo, CardOf(j))
    /\ session' = IF session.active
                  THEN [session EXCEPT !.questions = Append(@, jobs[j].text)]
                  ELSE session
    /\ jobs' = Goes(j, "ok")
    /\ events' = Append(events, Status(j, jobs[j].run, "ready"))
    /\ UNCHANGED <<captureVars, replies>>

\* remember_card, status "ready" and Ok(card); nothing is committed
RetryReturns(j) ==
    /\ At(j, "retry", {"llm"})
    /\ memo' = WithCard(memo, CardOf(j))
    /\ jobs' = Goes(j, "ok")
    /\ events' = Append(events, Status(j, jobs[j].run, "ready"))
    /\ UNCHANGED <<captureVars, session, replies>>

(* capture_bilingual_answer, whose own state is not modelled here *)

AnswerReturns(j) ==
    /\ At(j, "answer", {"invoked"})
    /\ jobs' = Goes(j, "ok")
    /\ UNCHANGED <<captureVars, memo, session, events, replies>>

(* get_context_status, called after the result of job j *)
ContextStatus(j) ==
    /\ jobs[j].pc \in {"askOk", "askErr"}
    /\ memo' = Unexpired(memo)
    /\ jobs' = [jobs EXCEPT
                  ![j].pc = IF @ = "askOk" THEN "toldOk" ELSE "toldErr",
                  ![j].flags = StatusOf(memo')]
    /\ UNCHANGED <<captureVars, session, events, replies>>

----------------------------------------------------------------------------
(* The other holders of the mutexes *)

\* clear_context
ClearContext ==
    /\ memo' = Cleared(memo)
    /\ replies' = replies \cup {ClearReply}
    /\ UNCHANGED <<captureVars, session, jobs, events>>

\* the tray menu's clear-context; bound: of an empty context, one at a time
TrayClear ==
    /\ "tray" \in Outside
    /\ memo # EmptyContext \/ ClearedEvent \notin Range(events)
    /\ memo' = Cleared(memo)
    /\ events' = Append(events, ClearedEvent)
    /\ UNCHANGED <<captureVars, session, jobs, replies>>

\* CONTEXT_TTL passes since last_touched
TtlPasses ==
    /\ "clock" \in Outside
    /\ memo.touched = "recent"
    /\ memo' = Aged(memo)
    /\ UNCHANGED <<captureVars, session, jobs, events, replies>>

StartInterview ==
    /\ "interviews" \in Outside
    /\ session' = [active |-> TRUE, questions |-> <<>>]
    /\ UNCHANGED <<captureVars, memo, jobs, events, replies>>

EndInterview ==
    /\ session.active
    /\ session' = NoSession
    /\ UNCHANGED <<captureVars, memo, jobs, events, replies>>

----------------------------------------------------------------------------

StopStep(j) ==
    \/ StopRefused(j) \/ StopTakesRun(j) \/ StopJoined(j) \/ StopJoinFails(j)
    \/ TranscriptArrives(j) \/ ContextRead(j) \/ PipelineFails(j)
    \/ CardCommitted(j) \/ CardReturned(j)

RetryStep(j) == RetryFails(j) \/ RetryReads(j) \/ RetryReturns(j)

JobStep(j) ==
    StopStep(j) \/ RetryStep(j) \/ AnswerReturns(j) \/ ContextStatus(j)

Environment ==
    \/ \E r \in RunIds : RecorderEnds(r)
    \/ TrayClear
    \/ TtlPasses
    \/ StartInterview
    \/ EndInterview

BackendStep == Environment \/ \E j \in Slots : JobStep(j)

=============================================================================
