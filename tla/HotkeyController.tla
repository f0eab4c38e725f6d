-------------------------- MODULE HotkeyController --------------------------
(***************************************************************************)
(* The webview's side of push-to-talk (src/app/controller/hotkeys.ts,      *)
(* pipelineActions.ts, lifecycle.ts and the parts of settingsActions.ts,   *)
(* selectors.ts and index.ts they use) over the backend of                 *)
(* CapturePipeline.                                                        *)
(*                                                                         *)
(* JavaScript runs to the next await: each action is the code between two  *)
(* awaits.  A registration of the shortcut makes a closure with its own    *)
(* captureState; saving the settings registers a new one, and the old      *)
(* closure only finishes what it was awaiting.  An invoke reaches the      *)
(* backend, and its result the webview, in steps of their own.             *)
(*                                                                         *)
(* The window, notices, logging and the always-on-top flag are left out.   *)
(***************************************************************************)
EXTENDS CaptureClient

CONSTANTS
    MaxRegs,         \* bound: registrations of the shortcut
    MaxRetries,      \* bound: retries
    SetupMissing,    \* whether the setup may be found incomplete in this run
    SavesSettings,   \* whether the user saves settings in this run
    Bilingual,       \* whether bilingual sessions occur in this run
    Ordered          \* a command's events are handled before its result

ASSUME ControllerAssumption ==
    /\ MaxRegs \in Nat \ {0}
    /\ MaxRetries \in Nat
    /\ RetryIds = (MaxRuns + 1)..(MaxRuns + MaxRetries)
    /\ Kinds = {"stop", "retry", "answer"} /\ Owners = 1..MaxRegs /\ ~Prompt
    /\ SetupMissing \in BOOLEAN
    /\ SavesSettings \in BOOLEAN
    /\ Bilingual \in BOOLEAN
    /\ Ordered \in BOOLEAN

VARIABLES
    phase,      \* the phase signal
    activeRun,  \* activeRunId: NoRun for null, CancelId for cancel-...
    card,       \* the transcript of the card shown, or NoText
    offer,      \* contextActive and canRetryLastTranscript
    error,      \* whether an error is shown
    hk,         \* the closures of registerCurrentHotkey
    reg,        \* the one the shortcut calls, 0 for none
    ready,      \* setupReadinessState
    bilingual,  \* isBilingualHotkeyMode and not isBilingualDegraded
    retries,    \* the retries made
    clearing    \* clear_context invoked and not yet run

frontVars == <<phase, activeRun, card, offer, error, hk, reg, ready, bilingual,
               retries, clearing>>
vars == <<backendVars, frontVars>>

Regs == 1..MaxRegs
\* cancel-<timestamp>: a run id no backend command has
CancelId == MaxRuns + MaxRetries + 1

\* at: what the press handler awaits: the preflight's get_setup_status, or
\* capture_start, which has not run yet (calling) or has (called)
Closures == [state   : {"none", "idle", "starting", "armed", "stopping"},
             pending : BOOLEAN,
             run     : RunIds \cup {NoRun},
             at      : {"none", "preflight", "calling", "called"}]

Closure(state) ==
    [state |-> state, pending |-> FALSE, run |-> NoRun, at |-> "none"]

\* Only a phase of RuntimePhase is ever shown, whatever event arrives.
TypeOK ==
    /\ BackendTypeOK
    /\ phase \in {"booting", "idle", "capturing", "transcribing", "analyzing",
                  "ready"}
    /\ activeRun \in AnyRun \cup {CancelId}
    /\ card \in Texts \cup {NoText}
    /\ offer \in Flags
    /\ error \in BOOLEAN
    /\ hk \in [Regs -> Closures]
    /\ reg \in Regs \cup {0}
    /\ ready \in {"checking", "ready", "missing"}
    /\ bilingual \in BOOLEAN
    /\ retries \in 0..MaxRetries
    /\ clearing \in BOOLEAN

\* The shortcut was just registered by reloadBootstrap, which has not yet set
\* the readiness and the phase.
Init ==
    /\ BackendInit
    /\ phase = "booting"
    /\ activeRun = NoRun
    /\ card = NoText
    /\ offer = NoFlags
    /\ error = FALSE
    /\ hk = [r \in Regs |-> Closure(IF r = 1 THEN "idle" ELSE "none")]
    /\ reg = 1
    /\ ready = "checking"
    /\ bilingual = FALSE
    /\ retries = 0
    /\ clearing = FALSE

pipelineActive == phase \in {"capturing", "transcribing", "analyzing"}
setupRequired == ready = "missing" \/ reg = 0
canRetry == ~pipelineActive /\ offer.retry
canClear == ~pipelineActive /\ (offer.active \/ offer.retry \/ card # NoText)

----------------------------------------------------------------------------
(* handlePressed and handleReleased *)

\* What the release of closure r invokes
ReleaseKind == IF bilingual THEN "answer" ELSE "stop"

Invokes(kind, owner, run) ==
    \E j \in Slots :
        /\ IsNextSlot(j)
        /\ jobs' = [jobs EXCEPT ![j] = Invoked(kind, owner, run)]

\* handleReleased past its two early returns
Releases(r, run) ==
    /\ hk' = [hk EXCEPT ![r] = [Closure("stopping") EXCEPT !.run = run]]
    /\ phase' = "transcribing"
    /\ Invokes(ReleaseKind, r, NoRun)

\* captureState = "armed", and handleReleased at once if the release came
\* before
Arms(r, run, nextPhase) ==
    /\ card' = NoText
    /\ \/ /\ hk[r].pending
          /\ Releases(r, run)
       \/ /\ ~hk[r].pending
          /\ hk' = [hk EXCEPT ![r] = [Closure("armed") EXCEPT !.run = run]]
          /\ phase' = nextPhase
          /\ UNCHANGED jobs

\* The press handler past the preflight: armed for a bilingual answer, or
\* about to start a capture
PastPreflight(r) ==
    \/ /\ bilingual
       /\ Arms(r, hk[r].run, "capturing")
    \/ /\ ~bilingual
       /\ hk' = [hk EXCEPT ![r].state = "starting", ![r].at = "calling"]
       /\ phase' = "capturing"
       /\ UNCHANGED <<card, jobs>>

\* Mutant: the phase alone guards the press.
PressUnguarded ==
    /\ reg # 0
    /\ ~pipelineActive
    /\ error' = FALSE
    /\ ready = "ready"
    /\ PastPreflight(reg)
    /\ UNCHANGED <<captureVars, memo, session, events, replies, activeRun, offer,
                   reg, ready, bilingual, retries, clearing>>

Press ==
    /\ reg # 0
    /\ hk[reg].state = "idle"
    /\ ~pipelineActive
    /\ error' = FALSE
    /\ \/ /\ ready = "ready"
          /\ PastPreflight(reg)
       \/ /\ ready # "ready"
          /\ hk' = [hk EXCEPT ![reg].state = "starting", ![reg].at = "preflight"]
          /\ UNCHANGED <<phase, card, jobs>>
    /\ UNCHANGED <<captureVars, memo, session, events, replies, activeRun, offer,
                   reg, ready, bilingual, retries, clearing>>

\* get_setup_status answers the preflight: go on, or to the settings (a release
\* pending then is forgotten by the next press).
PreflightPasses(r) ==
    /\ hk[r].at = "preflight"
    /\ ~setupRequired
    /\ PastPreflight(r)
    /\ UNCHANGED <<captureVars, memo, session, events, replies, activeRun, offer,
                   error, reg, ready, bilingual, retries, clearing>>

PreflightRedirects(r) ==
    /\ hk[r].at = "preflight"
    /\ hk' = [hk EXCEPT ![r] = Closure("idle")]
    /\ phase' = "idle"
    /\ UNCHANGED <<backendVars, activeRun, card, offer, error, reg, ready,
                   bilingual, retries, clearing>>

\* The catch of handlePressed
PressFails(r) ==
    /\ hk' = [hk EXCEPT ![r] = Closure("idle")]
    /\ phase' = "idle"
    /\ activeRun' = NoRun
    /\ error' = TRUE

PreflightFails(r) ==
    /\ hk[r].at = "preflight"
    /\ PressFails(r)
    /\ UNCHANGED <<backendVars, card, offer, reg, ready, bilingual, retries,
                   clearing>>

\* capture_start runs.
StartCalled(r) ==
    /\ hk[r].at = "calling"
    /\ CaptureStart(r)
    /\ hk' = [hk EXCEPT ![r].at = "called"]
    /\ UNCHANGED <<phase, activeRun, card, offer, error, reg, ready, bilingual,
                   retries, clearing>>

\* Mutant: a deferred release is handled before currentRunId is set.
StartRepliedLate(r) ==
    \E m \in replies :
        /\ m.to = r
        /\ m.run # NoRun
        /\ replies' = replies \ {m}
        /\ activeRun' = m.run
        /\ Arms(r, IF hk[r].pending THEN hk[r].run ELSE m.run, phase)
        /\ UNCHANGED <<captureVars, memo, session, events, offer, error, reg,
                       ready, bilingual, retries, clearing>>

StartReplied(r) ==
    \E m \in replies :
        /\ m.to = r
        /\ m.run # NoRun
        /\ replies' = replies \ {m}
        /\ activeRun' = m.run
        /\ Arms(r, m.run, phase)
        /\ UNCHANGED <<captureVars, memo, session, events, offer, error, reg,
                       ready, bilingual, retries, clearing>>

StartFailed(r) ==
    /\ StartReply(r, NoRun) \in replies
    /\ replies' = replies \ {StartReply(r, NoRun)}
    /\ PressFails(r)
    /\ UNCHANGED <<captureVars, memo, session, jobs, events, card, offer, reg,
                   ready, bilingual, retries, clearing>>

Release ==
    /\ reg # 0
    /\ \/ /\ hk[reg].state = "starting"
          /\ hk' = [hk EXCEPT ![reg].pending = TRUE]
          /\ UNCHANGED <<jobs, phase>>
       \/ /\ hk[reg].state = "armed"
          /\ Releases(reg, hk[reg].run)
    /\ UNCHANGED <<captureVars, memo, session, events, replies, activeRun, card,
                   offer, error, reg, ready, bilingual, retries, clearing>>

\* The result of job j can be handled.
Arrived(j, kind, pc) ==
    /\ At(j, kind, {pc})
    /\ Ordered => \A i \in DOMAIN events : events[i].job # j

\* The closure of job j is done with it.
Rests(j) == hk' = [hk EXCEPT ![jobs[j].owner] = Closure("idle")]

Frees(j) == jobs' = [jobs EXCEPT ![j] = FreeJob]

\* Mutant: the bilingual branch forgets the closure.
AnswerTriggeredOnly(j) ==
    /\ Arrived(j, "answer", "ok")
    /\ Frees(j)
    /\ phase' = "ready"
    /\ activeRun' = NoRun
    /\ UNCHANGED <<captureVars, memo, session, events, replies, card, offer,
                   error, hk, reg, ready, bilingual, retries, clearing>>

\* Whatever the answer was, triggerHotkeyAnswer does not throw.
AnswerTriggered(j) ==
    /\ Arrived(j, "answer", "ok")
    /\ Frees(j) /\ Rests(j)
    /\ phase' = "ready"
    /\ activeRun' = NoRun
    /\ UNCHANGED <<captureVars, memo, session, events, replies, card, offer,
                   error, reg, ready, bilingual, retries, clearing>>

\* Mutant: any other active run discards the card.
ResultMismatched(j) ==
    /\ Arrived(j, "stop", "ok")
    /\ activeRun # jobs[j].run
    /\ Frees(j) /\ Rests(j)
    /\ activeRun' = NoRun
    /\ UNCHANGED <<captureVars, memo, session, events, replies, phase, card,
                   offer, error, reg, ready, bilingual, retries, clearing>>

\* A cancel id is active: the card is dropped.
ResultDiscarded(j) ==
    /\ Arrived(j, "stop", "ok")
    /\ activeRun = CancelId
    /\ Frees(j) /\ Rests(j)
    /\ activeRun' = NoRun
    /\ UNCHANGED <<captureVars, memo, session, events, replies, phase, card,
                   offer, error, reg, ready, bilingual, retries, clearing>>

CardShown(j) ==
    /\ Arrived(j, "stop", "ok")
    /\ activeRun # CancelId
    /\ card' = jobs[j].text
    /\ offer' = [offer EXCEPT !.active = TRUE]
    /\ jobs' = Goes(j, "askOk")
    /\ UNCHANGED <<captureVars, memo, session, events, replies, phase, activeRun,
                   error, hk, reg, ready, bilingual, retries, clearing>>

CaptureReady(j) ==
    /\ Arrived(j, "stop", "toldOk")
    /\ Frees(j) /\ Rests(j)
    /\ offer' = jobs[j].flags
    /\ phase' = "ready"
    /\ activeRun' = NoRun
    /\ UNCHANGED <<captureVars, memo, session, events, replies, card, error, reg,
                   ready, bilingual, retries, clearing>>

\* The first step of the catch of either handler
FailureSeen(j) ==
    /\ Arrived(j, "stop", "err") \/ Arrived(j, "retry", "err")
    /\ jobs' = Goes(j, "askErr")
    /\ UNCHANGED <<captureVars, memo, session, events, replies, frontVars>>

CaptureFailed(j) ==
    /\ Arrived(j, "stop", "toldErr")
    /\ Frees(j) /\ Rests(j)
    /\ offer' = jobs[j].flags
    /\ error' = TRUE
    /\ phase' = "idle"
    /\ activeRun' = NoRun
    /\ UNCHANGED <<captureVars, memo, session, events, replies, card, reg, ready,
                   bilingual, retries, clearing>>

----------------------------------------------------------------------------
(* pipelineActions.ts *)

Retry ==
    /\ canRetry
    /\ retries < MaxRetries
    /\ retries' = retries + 1
    /\ error' = FALSE
    /\ phase' = "analyzing"
    /\ activeRun' = MaxRuns + retries'
    /\ Invokes("retry", 0, activeRun')
    /\ UNCHANGED <<captureVars, memo, session, events, replies, card, offer, hk,
                   reg, ready, bilingual, clearing>>

\* No look at activeRun here: the card of a cancelled retry is shown.
RetryCardShown(j) ==
    /\ Arrived(j, "retry", "ok")
    /\ card' = jobs[j].text
    /\ jobs' = Goes(j, "askOk")
    /\ UNCHANGED <<captureVars, memo, session, events, replies, phase, activeRun,
                   offer, error, hk, reg, ready, bilingual, retries, clearing>>

RetryReady(j) ==
    /\ Arrived(j, "retry", "toldOk")
    /\ Frees(j)
    /\ offer' = jobs[j].flags
    /\ phase' = "ready"
    /\ activeRun' = NoRun
    /\ UNCHANGED <<captureVars, memo, session, events, replies, card, error, hk,
                   reg, ready, bilingual, retries, clearing>>

\* Mutant: a failed retry leaves the phase.
RetryFailedOnly(j) ==
    /\ Arrived(j, "retry", "toldErr")
    /\ Frees(j)
    /\ offer' = jobs[j].flags
    /\ error' = TRUE
    /\ activeRun' = NoRun
    /\ UNCHANGED <<captureVars, memo, session, events, replies, phase, card, hk,
                   reg, ready, bilingual, retries, clearing>>

RetryFailed(j) ==
    /\ Arrived(j, "retry", "toldErr")
    /\ Frees(j)
    /\ offer' = jobs[j].flags
    /\ error' = TRUE
    /\ phase' = "idle"
    /\ activeRun' = NoRun
    /\ UNCHANGED <<captureVars, memo, session, events, replies, card, hk, reg,
                   ready, bilingual, retries, clearing>>

\* Mutant: cancelling also gives up the command.
CancelAborts ==
    /\ phase \in {"transcribing", "analyzing"}
    /\ activeRun' = CancelId
    /\ phase' = "idle"
    /\ error' = FALSE
    /\ jobs' = [j \in Slots |-> IF jobs[j].run = activeRun THEN FreeJob ELSE jobs[j]]
    /\ UNCHANGED <<captureVars, memo, session, events, replies, card, offer, hk,
                   reg, ready, bilingual, retries, clearing>>

\* cancelPipeline, offered by ProcessingState while its button is shown
Cancel ==
    /\ phase \in {"transcribing", "analyzing"}
    /\ activeRun' = CancelId
    /\ phase' = "idle"
    /\ error' = FALSE
    /\ UNCHANGED <<backendVars, card, offer, hk, reg, ready, bilingual, retries,
                   clearing>>

\* clearContext: the click, the command, and what follows its result
ClearClicked ==
    /\ canClear
    /\ ~clearing /\ ClearReply \notin replies
    /\ clearing' = TRUE
    /\ error' = FALSE
    /\ UNCHANGED <<backendVars, phase, activeRun, card, offer, hk, reg, ready,
                   bilingual, retries>>

ClearRuns ==
    /\ clearing
    /\ ClearContext
    /\ clearing' = FALSE
    /\ UNCHANGED <<phase, activeRun, card, offer, error, hk, reg, ready,
                   bilingual, retries>>

ClearReplied ==
    /\ ClearReply \in replies
    /\ replies' = replies \ {ClearReply}
    /\ offer' = StatusOf(EmptyContext)
    /\ card' = NoText
    /\ phase' = "idle"
    /\ activeRun' = NoRun
    /\ UNCHANGED <<captureVars, memo, session, jobs, events, error, hk, reg,
                   ready, bilingual, retries, clearing>>

----------------------------------------------------------------------------
(* The listeners of lifecycle.ts *)

\* Mutant: no event is stale.
acceptAnyStatusEvent(eventRun) == TRUE

shouldAcceptStatusEvent(eventRun) ==
    ~(activeRun # NoRun /\ eventRun # NoRun /\ eventRun # activeRun)

\* Mutant: every event is taken for a phase.
StatusListenerUnfiltered ==
    /\ events # <<>>
    /\ events' = Tail(events)
    /\ phase' = IF shouldAcceptStatusEvent(Head(events).run)
                THEN Head(events).what ELSE phase
    /\ UNCHANGED <<captureVars, memo, session, jobs, replies, activeRun, card,
                   offer, error, hk, reg, ready, bilingual, retries, clearing>>

StatusListener ==
    /\ events # <<>>
    /\ Head(events).what # "cleared"
    /\ events' = Tail(events)
    /\ phase' = IF shouldAcceptStatusEvent(Head(events).run)
                THEN Head(events).what ELSE phase
    /\ UNCHANGED <<captureVars, memo, session, jobs, replies, activeRun, card,
                   offer, error, hk, reg, ready, bilingual, retries, clearing>>

ClearedListener ==
    /\ events # <<>>
    /\ Head(events).what = "cleared"
    /\ events' = Tail(events)
    /\ offer' = NoFlags
    /\ card' = NoText
    /\ phase' = "idle"
    /\ UNCHANGED <<captureVars, memo, session, jobs, replies, activeRun, error,
                   hk, reg, ready, bilingual, retries, clearing>>

----------------------------------------------------------------------------
(* Readiness, settings and the bilingual mode *)

\* refreshSetupStatus, called by showWindow and the startup timer at any time;
\* the end of reloadBootstrap does the same.
RefreshSetup ==
    /\ ready' \in {"ready"} \cup {m \in {"missing"} : SetupMissing}
    /\ phase' = "idle"
    /\ UNCHANGED <<backendVars, activeRun, card, offer, error, hk, reg, bilingual,
                   retries, clearing>>

\* persistSettings: load_bootstrap, then registerCurrentHotkey
SettingsSaved ==
    /\ SavesSettings
    /\ memo' = Unexpired(memo)
    /\ offer' = [offer EXCEPT !.active = StatusOf(memo').active]
    /\ \/ \E r \in Regs :
            /\ hk[r].state = "none" /\ \A q \in 1..(r - 1) : hk[q].state # "none"
            /\ reg' = r
            /\ hk' = [hk EXCEPT ![r] = Closure("idle")]
            /\ error' = FALSE
            /\ ready' \in {"ready", "missing"}
       \/ /\ reg' = 0
          /\ error' = TRUE
          /\ ready' = "missing"
          /\ UNCHANGED hk
    /\ UNCHANGED <<captureVars, session, jobs, events, replies, phase, activeRun,
                   card, bilingual, retries, clearing>>

SettingsNotSaved ==
    /\ SavesSettings
    /\ ready' = "missing"
    /\ UNCHANGED <<backendVars, phase, activeRun, card, offer, error, hk, reg,
                   bilingual, retries, clearing>>

\* The bilingual session starts, ends or degrades, or its setting changes.
BilingualChanges ==
    /\ Bilingual
    /\ bilingual' = ~bilingual
    /\ UNCHANGED <<backendVars, phase, activeRun, card, offer, error, hk, reg,
                   ready, retries, clearing>>

----------------------------------------------------------------------------

PressContinues(r) ==
    \/ PreflightPasses(r) \/ PreflightRedirects(r) \/ PreflightFails(r)
    \/ StartCalled(r) \/ StartReplied(r) \/ StartFailed(r)

ResultHandled(j) ==
    \/ AnswerTriggered(j) \/ ResultDiscarded(j) \/ CardShown(j)
    \/ CaptureReady(j) \/ FailureSeen(j) \/ CaptureFailed(j)
    \/ RetryCardShown(j) \/ RetryReady(j) \/ RetryFailed(j)

Listener == StatusListener \/ ClearedListener

User ==
    \/ Press \/ Release \/ Retry \/ Cancel \/ ClearClicked
    \/ RefreshSetup \/ SettingsSaved \/ SettingsNotSaved \/ BilingualChanges

Next ==
    \/ BackendStep /\ UNCHANGED frontVars
    \/ \E r \in Regs : PressContinues(r)
    \/ \E j \in Slots : ResultHandled(j)
    \/ ClearRuns
    \/ ClearReplied
    \/ Listener
    \/ User

\* What was invoked runs and returns, and the webview's event loop handles what
\* arrived.  Nothing obliges the user, the tray, the clock or a recorder.
Fairness ==
    /\ \A j \in Slots :
         WF_vars((JobStep(j) /\ UNCHANGED frontVars) \/ ResultHandled(j))
    /\ \A r \in Regs : WF_vars(PressContinues(r))
    /\ WF_vars(ClearRuns \/ ClearReplied)
    /\ WF_vars(Listener)

Spec == Init /\ [][Next]_vars
FairSpec == Spec /\ Fairness

----------------------------------------------------------------------------
(* Properties *)

\* While the hotkey shows a capture, the backend records that very run for it.
ArmedMeansHeld ==
    \A r \in Regs : hk[r].state = "armed" /\ hk[r].run # NoRun =>
        held = hk[r].run

\* The run a release had analysed is the one its press had started: a stop
\* never takes a recording another press made.
ReleaseStopsOwnRun ==
    \A j \in Slots : jobs[j].kind = "stop" /\ jobs[j].run # NoRun =>
        /\ hk[jobs[j].owner].state = "stopping"
        /\ hk[jobs[j].owner].run = jobs[j].run

\* The context keeps the utterances in the order they were spoken.
MemoryInCaptureOrder ==
    \A i, k \in DOMAIN memo.entries : i < k => memo.entries[i] < memo.entries[k]

\* A cancelled pipeline stays quiet: while the cancel id is active no status
\* event brings the processing screen back (pipelineActions.ts 142-147).
CancelKeepsQuiet ==
    [][ activeRun = CancelId /\ Listener => phase' \in {phase, "idle"} ]_vars

\* The hotkey can always be used again without a restart.
HotkeyReturns ==
    \A r \in Regs : hk[r].state \in {"starting", "stopping"}
                        ~> hk[r].state \in {"idle", "armed"}

\* The processing screen always ends by itself.
ProcessingEnds ==
    phase \in {"transcribing", "analyzing"} ~>
        phase \notin {"transcribing", "analyzing"}

\* What was said is answered: the card of the released run is shown, or an
\* error is, unless a pipeline was cancelled.  Clearing the context, window
\* refreshes and changes of mode in between never lose it (hotkeys.ts 235-271).
Unanswered(j, u) ==
    /\ jobs[j].kind = "stop"
    /\ jobs[j].pc \notin {"askOk", "toldOk", "askErr", "toldErr"}
    /\ hk[jobs[j].owner].run = u

AnswerDelivered ==
    \A u \in RunIds :
        (\E j \in Slots : Unanswered(j, u))
            ~> card = u \/ error \/ activeRun = CancelId

\* The webview is a client of the backend: what CaptureClient shows of it, and
\* the theorems about it, hold here.
ImplementsClient == BackendInit /\ [][ClientNext]_backendVars

=============================================================================
