--------------------------- MODULE CaptureClient ---------------------------
(***************************************************************************)
(* The backend of CapturePipeline under any webview at all: a client that  *)
(* calls the commands whenever it likes and handles what it is sent in any *)
(* order.  What holds here does not rest on the guards of the frontend;    *)
(* HotkeyController is one such client.                                    *)
(***************************************************************************)
EXTENDS CapturePipeline

CONSTANTS
    Kinds,     \* the async commands called
    Owners,    \* the hotkey registrations a call may come from
    Prompt     \* bound: it handles all it was sent before it calls again

ASSUME ClientAssumption ==
    /\ Kinds \subseteq {"stop", "retry", "answer"}
    /\ Owners \subseteq Nat
    /\ Prompt \in BOOLEAN

\* A call, perhaps made while a reply is handled
Calls(kind, o, run) ==
    \E j \in Slots :
        /\ IsNextSlot(j)
        /\ jobs' = [jobs EXCEPT ![j] = Invoked(kind, o, run)]
        /\ replies' \in {replies} \cup {replies \ {m} : m \in replies}
        /\ UNCHANGED <<captureVars, memo, session, events>>

ClientCalls ==
    /\ Prompt => events = <<>> /\ replies = {}
    /\ \/ \E o \in Owners : CaptureStart(o)
       \/ \E k \in {"stop", "answer"} \cap Kinds, o \in Owners : Calls(k, o, NoRun)
       \/ \E k \in {"retry"} \cap Kinds, r \in RetryIds : Calls(k, 0, r)
       \/ ClearContext

\* load_bootstrap asks for the context's status too.
ClientReloads ==
    /\ memo' = Unexpired(memo)
    /\ UNCHANGED <<captureVars, session, jobs, events, replies>>

\* The result of command j is handled: that ends the call, or
\* get_context_status follows it.
ClientTakesResult(j) ==
    /\ jobs[j].pc \in {"ok", "err", "toldOk", "toldErr"}
    /\ jobs' \in {[jobs EXCEPT ![j] = FreeJob]} \cup
                 {c \in {Goes(j, "askOk")} : jobs[j].pc = "ok"} \cup
                 {c \in {Goes(j, "askErr")} : jobs[j].pc = "err"}
    /\ UNCHANGED <<captureVars, memo, session, events, replies>>

ClientTakesReply ==
    /\ \E m \in replies : replies' = replies \ {m}
    /\ UNCHANGED <<captureVars, memo, session, jobs, events>>

ClientTakesEvent ==
    /\ events # <<>>
    /\ events' = Tail(events)
    /\ UNCHANGED <<captureVars, memo, session, jobs, replies>>

ClientStep ==
    \/ ClientCalls
    \/ ClientReloads
    \/ \E j \in Slots : ClientTakesResult(j)
    \/ ClientTakesReply
    \/ ClientTakesEvent

ClientNext == BackendStep \/ ClientStep

\* Every await of a command ends (each provider call has a time budget, and a
\* thread pool runs the join), and a recorder thread stops at
\* capture_max_seconds.  Nothing obliges the client, the user or the clock.
ClientFairness ==
    /\ \A j \in Slots : WF_backendVars(JobStep(j))
    /\ \A r \in RunIds : WF_backendVars(RecorderEnds(r))

ClientSpec == BackendInit /\ [][ClientNext]_backendVars /\ ClientFairness

----------------------------------------------------------------------------
(* Properties *)

Taken(pcs) == {jobs[j].run : j \in {i \in Slots : jobs[i].kind = "stop"
                                                   /\ jobs[i].pc \in pcs}}

\* A microphone that is still being recorded can be stopped: its run is held
\* by the controller or is being joined by a stop command, whatever failed
\* in between (capture.rs 33-59, capture_pipeline.rs 141-233).
RecordingHasOwner == recording \subseteq {held} \cup Taken({"stopping"})

\* A run is analysed at most once, however many stops and retries are in
\* flight: no two commands hold it, and none holds the one still recording.
RunTakenOnce ==
    \A i \in Slots : jobs[i].run \in RunIds =>
        /\ jobs[i].run # held
        /\ \A j \in Slots \ {i} : jobs[j].run # jobs[i].run

\* One utterance enters the conversation context, and the interview report,
\* at most once: retries and repeated stops never duplicate it
\* (capture_pipeline.rs 639-651 against 840-846).
CommittedOnce == IsInjective(memo.entries) /\ IsInjective(session.questions)

\* Every command returns, also when the recorder thread ended before the stop
\* or the context was cleared under the retry.
EveryCallReturns ==
    \A j \in Slots :
        jobs[j].pc \in {"invoked", "stopping", "stt", "reading", "llm",
                        "recording", "askOk", "askErr"}
            ~> jobs[j].pc \in {"ok", "err", "toldOk", "toldErr"}

\* No recording goes on for ever, a forgotten one (its stop failed to load
\* the settings) included.
RecordingBounded == \A r \in RunIds : r \in recording ~> r \notin recording

=============================================================================
