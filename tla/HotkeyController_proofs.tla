------------------------ MODULE HotkeyController_proofs ------------------------
(***************************************************************************)
(* What the webview's push-to-talk promises, for any number of recordings, *)
(* commands, transcripts and retries, on top of what CaptureClient         *)
(* promises under any webview.                                             *)
(***************************************************************************)
EXTENDS HotkeyController, CaptureClient_proofs

\* The webview's own part of TypeOK
FrontTypeOK ==
    /\ phase \in {"booting", "idle", "capturing", "transcribing", "analyzing",
                  "ready"}
    /\ activeRun \in AnyRun \cup {CancelId}
    /\ card \in Texts \cup {NoText}
    /\ offer \in Flags
    /\ error \in BOOLEAN
    /\ hk \in [Regs -> Closures]
    /\ reg \in Regs \cup {0}
    /\ ready \in {"checking", "ready", "missing"}
    /\ bilingual \in BOOLEAN
    /\ retries \in 0..MaxRetries
    /\ clearing \in BOOLEAN

----------------------------------------------------------------------------
(* The webview is a client of the backend *)

\* The commands it calls and the registrations that call them are the client's.
LEMMA Called ==
    ASSUME NEW r \in Regs, NEW m \in {replies} \cup {replies \ {n} : n \in replies},
           Invokes(ReleaseKind, r, NoRun), replies' = m,
           UNCHANGED <<captureVars, memo, session, events>>
    PROVE  ClientCalls
<1>1. r \in Owners /\ ReleaseKind \in {"stop", "answer"} \cap Kinds /\ ~Prompt
  BY ControllerAssumption DEF Regs, ReleaseKind
<1>2. Calls(ReleaseKind, r, NoRun)
  BY DEF Invokes, Calls
<1>3. QED
  BY <1>1, <1>2 DEF ClientCalls

\* An armed shortcut has called at most the command of its release.
LEMMA ArmsIsClient ==
    ASSUME NEW r \in Regs, NEW run, NEW p, Arms(r, run, p),
           replies' = replies \/ \E m \in replies : replies' = replies \ {m},
           UNCHANGED <<captureVars, memo, session, events>>
    PROVE  ClientNext \/ UNCHANGED backendVars
<1>1. CASE Releases(r, run)
  <2>1. replies' \in {replies} \cup {replies \ {n} : n \in replies}
    OBVIOUS
  <2>2. Invokes(ReleaseKind, r, NoRun)
    BY <1>1 DEF Releases
  <2> QED BY <2>1, <2>2, Called DEF ClientNext, ClientStep
<1>2. CASE UNCHANGED jobs
  BY <1>2 DEF ClientNext, ClientStep, ClientTakesReply, backendVars
<1>3. QED
  BY <1>1, <1>2 DEF Arms

\* The steps of a press
LEMMA PressIsClient ==
    ASSUME NEW r \in Regs, PressContinues(r)
    PROVE  ClientNext \/ UNCHANGED backendVars
<1>1. CASE PreflightPasses(r)
  <2>1. CASE Arms(r, hk[r].run, "capturing")
    BY <1>1, <2>1, ArmsIsClient DEF PreflightPasses
  <2>2. CASE UNCHANGED jobs
    BY <1>1, <2>2 DEF PreflightPasses, backendVars
  <2> QED BY <1>1, <2>1, <2>2 DEF PreflightPasses, PastPreflight
<1>2. CASE PreflightRedirects(r) \/ PreflightFails(r)
  BY <1>2 DEF PreflightRedirects, PreflightFails
<1>3. CASE StartCalled(r)
  <2>1. r \in Owners /\ ~Prompt
    BY ControllerAssumption DEF Regs
  <2> QED BY <1>3, <2>1 DEF StartCalled, ClientNext, ClientStep, ClientCalls
<1>4. CASE StartReplied(r)
  <2>1. PICK m \in replies : replies' = replies \ {m} /\ Arms(r, m.run, phase)
    BY <1>4 DEF StartReplied
  <2>2. UNCHANGED <<captureVars, memo, session, events>>
    BY <1>4 DEF StartReplied
  <2> QED BY <2>1, <2>2, ArmsIsClient
<1>5. CASE StartFailed(r)
  BY <1>5 DEF StartFailed, ClientNext, ClientStep, ClientTakesReply
<1>6. QED
  BY <1>1, <1>2, <1>3, <1>4, <1>5 DEF PressContinues

\* The results of commands
LEMMA ResultIsClient ==
    ASSUME NEW j \in Slots, ResultHandled(j)
    PROVE  ClientTakesResult(j)
<1>1. /\ UNCHANGED <<captureVars, memo, session, events, replies>>
      /\ jobs[j].pc \in {"ok", "err", "toldOk", "toldErr"}
      /\ \/ jobs' = [jobs EXCEPT ![j] = FreeJob]
         \/ jobs[j].pc = "ok" /\ jobs' = Goes(j, "askOk")
         \/ jobs[j].pc = "err" /\ jobs' = Goes(j, "askErr")
  BY DEF ResultHandled, Arrived, At, Frees, AnswerTriggered, ResultDiscarded,
     CardShown, CaptureReady, FailureSeen, CaptureFailed, RetryCardShown,
     RetryReady, RetryFailed
<1>2. QED
  BY <1>1 DEF ClientTakesResult

\* A retry has a run id of its own.
LEMMA RetryIdType ==
    ASSUME FrontTypeOK, Retry
    PROVE  activeRun' \in RetryIds /\ retries' \in 0..MaxRetries
<1>1. /\ activeRun' = MaxRuns + retries' /\ retries' = retries + 1
      /\ retries < MaxRetries /\ retries \in 0..MaxRetries
  BY DEF Retry, FrontTypeOK
<1>2. RetryIds = (MaxRuns + 1)..(MaxRuns + MaxRetries)
      /\ MaxRuns \in Nat /\ MaxRetries \in Nat
  BY ControllerAssumption, PipelineAssumption
<1>3. QED
  BY <1>1, <1>2

\* What the user does
LEMMA UserIsClient ==
    ASSUME FrontTypeOK, User
    PROVE  ClientNext \/ UNCHANGED backendVars
<1>1. CASE Press
  <2>1. reg \in Regs
    BY <1>1 DEF Press, FrontTypeOK
  <2>2. UNCHANGED <<captureVars, memo, session, events, replies>>
    BY <1>1 DEF Press
  <2>3. CASE Arms(reg, hk[reg].run, "capturing")
    BY <2>1, <2>2, <2>3, ArmsIsClient
  <2>4. CASE UNCHANGED jobs
    BY <2>2, <2>4 DEF backendVars
  <2> QED BY <1>1, <2>3, <2>4 DEF Press, PastPreflight
<1>2. CASE Release
  <2>1. reg \in Regs
    BY <1>2 DEF Release, FrontTypeOK
  <2>2. UNCHANGED <<captureVars, memo, session, events, replies>>
    BY <1>2 DEF Release
  <2>3. CASE Releases(reg, hk[reg].run)
    <3>1. Invokes(ReleaseKind, reg, NoRun)
      BY <2>3 DEF Releases
    <3> QED BY <2>1, <2>2, <3>1, Called DEF ClientNext, ClientStep
  <2>4. CASE UNCHANGED jobs
    BY <2>2, <2>4 DEF backendVars
  <2> QED BY <1>2, <2>3, <2>4 DEF Release
<1>3. CASE Retry
  <2>1. /\ Invokes("retry", 0, activeRun')
        /\ UNCHANGED <<captureVars, memo, session, events, replies>>
    BY <1>3 DEF Retry
  <2>2. activeRun' \in RetryIds
    BY <1>3, RetryIdType
  <2>3. "retry" \in {"retry"} \cap Kinds /\ ~Prompt
    BY ControllerAssumption
  <2>4. Calls("retry", 0, activeRun')
    BY <2>1 DEF Invokes, Calls
  <2> QED BY <2>2, <2>3, <2>4 DEF ClientNext, ClientStep, ClientCalls
<1>4. CASE SettingsSaved
  BY <1>4 DEF SettingsSaved, ClientNext, ClientStep, ClientReloads
<1>5. CASE \/ Cancel \/ ClearClicked \/ RefreshSetup \/ SettingsNotSaved
           \/ BilingualChanges
  BY <1>5 DEF Cancel, ClearClicked, RefreshSetup, SettingsNotSaved,
     BilingualChanges
<1>6. QED
  BY <1>1, <1>2, <1>3, <1>4, <1>5 DEF User

\* Every step of the webview and of the backend is one of the client's or
\* leaves the backend alone.
LEMMA NextIsClient ==
    ASSUME FrontTypeOK, [Next]_vars
    PROVE  [ClientNext]_backendVars
<1>1. CASE BackendStep
  BY <1>1 DEF ClientNext
<1>2. ASSUME NEW r \in Regs, PressContinues(r)
      PROVE  [ClientNext]_backendVars
  BY <1>2, PressIsClient
<1>3. ASSUME NEW j \in Slots, ResultHandled(j)
      PROVE  [ClientNext]_backendVars
  BY <1>3, ResultIsClient DEF ClientNext, ClientStep
<1>4. CASE ClearRuns
  <2>1. ~Prompt
    BY ControllerAssumption
  <2> QED BY <1>4, <2>1 DEF ClearRuns, ClientNext, ClientStep, ClientCalls
<1>5. CASE ClearReplied
  BY <1>5 DEF ClearReplied, ClientNext, ClientStep, ClientTakesReply
<1>6. CASE Listener
  BY <1>6 DEF Listener, StatusListener, ClearedListener, ClientNext, ClientStep,
     ClientTakesEvent
<1>7. CASE User
  BY <1>7, UserIsClient
<1>8. CASE UNCHANGED vars
  BY <1>8 DEF vars
<1>9. QED
  BY <1>1, <1>2, <1>3, <1>4, <1>5, <1>6, <1>7, <1>8 DEF Next

----------------------------------------------------------------------------
(* Types *)

\* The closures the code assigns
LEMMA ClosureType ==
    ASSUME NEW s \in {"none", "idle", "starting", "armed", "stopping"}
    PROVE  /\ Closure(s) \in Closures
           /\ Closure(s).state = s /\ Closure(s).run = NoRun
           /\ Closure(s).at = "none"
BY DEF Closure, Closures

LEMMA ClosureOfRun ==
    ASSUME NEW s \in {"none", "idle", "starting", "armed", "stopping"},
           NEW run \in RunIds \cup {NoRun}
    PROVE  /\ [Closure(s) EXCEPT !.run = run] \in Closures
           /\ [Closure(s) EXCEPT !.run = run].state = s
           /\ [Closure(s) EXCEPT !.run = run].run = run
           /\ [Closure(s) EXCEPT !.run = run].at = "none"
<1> DEFINE c == Closure(s)
<1>1. c \in Closures /\ c.state = s /\ c.at = "none"
  BY ClosureType
<1> HIDE DEF c
<1>2. QED
  BY <1>1 DEF Closures, c

\* Initially
LEMMA FrontInit == Init => FrontTypeOK
<1> SUFFICES ASSUME Init PROVE FrontTypeOK
  OBVIOUS
<1>1. /\ 1 \in Regs /\ 0 \in 0..MaxRetries
      /\ \A r \in Regs : Closure(IF r = 1 THEN "idle" ELSE "none") \in Closures
  BY ControllerAssumption DEF Regs, Closure, Closures
<1>2. NoFlags \in Flags
  BY DEF NoFlags, Flags
<1>3. QED
  BY <1>1, <1>2 DEF Init, FrontTypeOK, AnyRun

\* A shortcut that arms, or is released
LEMMA ArmsType ==
    ASSUME FrontTypeOK, NEW r \in Regs, NEW run \in RunIds \cup {NoRun},
           NEW p \in {phase, "capturing"}, Arms(r, run, p)
    PROVE  /\ hk' \in [Regs -> Closures]
           /\ card' = NoText
           /\ phase' \in {phase, "capturing", "transcribing"}
<1> DEFINE c == [Closure("stopping") EXCEPT !.run = run]
           d == [Closure("armed") EXCEPT !.run = run]
<1>1. c \in Closures /\ d \in Closures /\ hk \in [Regs -> Closures]
  BY ClosureOfRun DEF FrontTypeOK
<1>2. /\ card' = NoText
      /\ \/ hk' = [hk EXCEPT ![r] = c] /\ phase' = "transcribing"
         \/ hk' = [hk EXCEPT ![r] = d] /\ phase' = p
  BY DEF Arms, Releases
<1> HIDE DEF c, d
<1>3. QED
  BY <1>1, <1>2

\* A press past the preflight
LEMMA PastPreflightType ==
    ASSUME FrontTypeOK, NEW r \in Regs, PastPreflight(r)
    PROVE  /\ hk' \in [Regs -> Closures]
           /\ card' \in Texts \cup {NoText}
           /\ phase' \in {"capturing", "transcribing"} \cup {phase}
<1>1. CASE Arms(r, hk[r].run, "capturing")
  <2>1. hk[r].run \in RunIds \cup {NoRun}
    BY DEF FrontTypeOK, Closures
  <2> QED BY <1>1, <2>1, ArmsType
<1>2. CASE /\ hk' = [hk EXCEPT ![r].state = "starting", ![r].at = "calling"]
           /\ phase' = "capturing"
           /\ UNCHANGED <<card, jobs>>
  BY <1>2 DEF FrontTypeOK, Closures
<1>3. QED
  BY <1>1, <1>2 DEF PastPreflight

\* The steps of a press keep the types.
LEMMA PressType ==
    ASSUME TypeInv, FrontTypeOK, NEW r \in Regs, PressContinues(r)
    PROVE  FrontTypeOK'
<1>0. hk \in [Regs -> Closures] /\ Closure("idle") \in Closures
      /\ NoRun \in AnyRun
  BY ClosureType DEF FrontTypeOK, AnyRun
<1>1. CASE PreflightPasses(r)
  <2>1. /\ hk' \in [Regs -> Closures]
        /\ card' \in Texts \cup {NoText}
        /\ phase' \in {"capturing", "transcribing"} \cup {phase}
    BY <1>1, PastPreflightType DEF PreflightPasses
  <2> QED BY <1>1, <2>1 DEF PreflightPasses, FrontTypeOK
<1>2. CASE PreflightRedirects(r)
  BY <1>0, <1>2 DEF PreflightRedirects, FrontTypeOK
<1>3. CASE PreflightFails(r)
  BY <1>0, <1>3 DEF PreflightFails, PressFails, FrontTypeOK
<1>4. CASE StartCalled(r)
  <2>1. hk' \in [Regs -> Closures]
    BY <1>0, <1>4 DEF StartCalled, Closures
  <2> QED BY <1>4, <2>1 DEF StartCalled, FrontTypeOK
<1>5. CASE StartReplied(r)
  <2>1. PICK m \in replies :
            m.run # NoRun /\ activeRun' = m.run /\ Arms(r, m.run, phase)
    BY <1>5 DEF StartReplied
  <2>2. m.run \in RunIds
    BY <2>1 DEF TypeInv, BackendTypeOK, Replies
  <2>3. /\ hk' \in [Regs -> Closures]
        /\ card' = NoText
        /\ phase' \in {phase, "capturing", "transcribing"}
    BY <2>1, <2>2, ArmsType
  <2>4. UNCHANGED <<offer, error, reg, ready, bilingual, retries, clearing>>
    BY <1>5 DEF StartReplied
  <2> QED BY <2>1, <2>2, <2>3, <2>4 DEF FrontTypeOK, AnyRun
<1>6. CASE StartFailed(r)
  BY <1>0, <1>6 DEF StartFailed, PressFails, FrontTypeOK
<1>7. QED
  BY <1>1, <1>2, <1>3, <1>4, <1>5, <1>6 DEF PressContinues

\* So does what follows a result,
LEMMA ResultType ==
    ASSUME TypeInv, FrontTypeOK, NEW j \in Slots, ResultHandled(j)
    PROVE  FrontTypeOK'
<1>1. /\ hk \in [Regs -> Closures] /\ Closure("idle") \in Closures
      /\ NoRun \in AnyRun
  BY ClosureType DEF FrontTypeOK, AnyRun
<1>2. jobs[j].text \in Texts \cup {NoText} /\ jobs[j].flags \in Flags
  BY DEF TypeInv, BackendTypeOK, Jobs
<1>3. Rests(j) => hk' \in [Regs -> Closures]
  BY <1>1 DEF Rests
<1>4. [offer EXCEPT !.active = TRUE] \in Flags
  BY DEF FrontTypeOK, Flags
<1>5. CASE \/ AnswerTriggered(j) \/ ResultDiscarded(j) \/ CaptureReady(j)
           \/ CaptureFailed(j) \/ RetryReady(j) \/ RetryFailed(j)
  BY <1>1, <1>2, <1>3, <1>5
  DEF AnswerTriggered, ResultDiscarded, CaptureReady, CaptureFailed, RetryReady,
      RetryFailed, FrontTypeOK
<1>6. CASE CardShown(j)
  BY <1>2, <1>4, <1>6 DEF CardShown, FrontTypeOK
<1>7. CASE RetryCardShown(j) \/ FailureSeen(j)
  BY <1>2, <1>7 DEF RetryCardShown, FailureSeen, frontVars, FrontTypeOK
<1>8. QED
  BY <1>5, <1>6, <1>7 DEF ResultHandled

\* an event,
LEMMA ListenerType ==
    ASSUME TypeInv, FrontTypeOK, Listener
    PROVE  FrontTypeOK'
<1>1. Head(events) \in Events
  BY DEF TypeInv, BackendTypeOK, Listener, StatusListener, ClearedListener
<1>2. NoFlags \in Flags
  BY DEF NoFlags, Flags
<1>3. QED
  BY <1>1, <1>2
  DEF Listener, StatusListener, ClearedListener, Events, FrontTypeOK

\* and what the user does.
LEMMA UserType ==
    ASSUME TypeInv, FrontTypeOK, User
    PROVE  FrontTypeOK'
<1>0. /\ hk \in [Regs -> Closures] /\ reg \in Regs \cup {0}
      /\ Closure("idle") \in Closures
  BY ClosureType DEF FrontTypeOK
<1>1. CASE Press
  <2>1. reg \in Regs
    BY <1>0, <1>1 DEF Press
  <2>2. CASE PastPreflight(reg)
    <3>1. /\ hk' \in [Regs -> Closures]
          /\ card' \in Texts \cup {NoText}
          /\ phase' \in {"capturing", "transcribing"} \cup {phase}
      BY <2>1, <2>2, PastPreflightType
    <3> QED BY <1>1, <3>1 DEF Press, FrontTypeOK
  <2>3. CASE hk' = [hk EXCEPT ![reg].state = "starting", ![reg].at = "preflight"]
             /\ UNCHANGED <<phase, card, jobs>>
    <3>1. hk' \in [Regs -> Closures]
      BY <1>0, <2>1, <2>3 DEF Closures
    <3> QED BY <1>1, <2>3, <3>1 DEF Press, FrontTypeOK
  <2> QED BY <1>1, <2>2, <2>3 DEF Press
<1>2. CASE Release
  <2>1. reg \in Regs
    BY <1>0, <1>2 DEF Release
  <2>2. CASE hk' = [hk EXCEPT ![reg].pending = TRUE] /\ UNCHANGED phase
    <3>1. hk' \in [Regs -> Closures]
      BY <1>0, <2>1, <2>2 DEF Closures
    <3> QED BY <1>2, <2>2, <3>1 DEF Release, FrontTypeOK
  <2>3. CASE Releases(reg, hk[reg].run)
    <3>1. hk[reg].run \in RunIds \cup {NoRun}
      BY <1>0, <2>1 DEF Closures
    <3>2. [Closure("stopping") EXCEPT !.run = hk[reg].run] \in Closures
      BY <3>1, ClosureOfRun
    <3>3. hk' \in [Regs -> Closures] /\ phase' = "transcribing"
      BY <1>0, <2>3, <3>2 DEF Releases
    <3> QED BY <1>2, <3>3 DEF Release, FrontTypeOK
  <2> QED BY <1>2, <2>2, <2>3 DEF Release
<1>3. CASE Retry
  <2>1. activeRun' \in AnyRun /\ retries' \in 0..MaxRetries
    BY <1>3, RetryIdType DEF AnyRun
  <2> QED BY <1>3, <2>1 DEF Retry, FrontTypeOK
<1>4. CASE SettingsSaved
  <2>1. offer' \in Flags
    BY <1>4 DEF SettingsSaved, FrontTypeOK, Flags, StatusOf
  <2>2. hk' \in [Regs -> Closures] /\ reg' \in Regs \cup {0}
    BY <1>0, <1>4 DEF SettingsSaved
  <2>3. error' \in BOOLEAN /\ ready' \in {"ready", "missing"}
    BY <1>4 DEF SettingsSaved
  <2>4. UNCHANGED <<phase, activeRun, card, bilingual, retries, clearing>>
    BY <1>4 DEF SettingsSaved
  <2> QED BY <2>1, <2>2, <2>3, <2>4 DEF FrontTypeOK
<1>5. CASE \/ Cancel \/ ClearClicked \/ RefreshSetup \/ SettingsNotSaved
  BY <1>5 DEF Cancel, ClearClicked, RefreshSetup, SettingsNotSaved, FrontTypeOK
<1>6. CASE BilingualChanges
  BY <1>6 DEF BilingualChanges, FrontTypeOK
<1>7. QED
  BY <1>1, <1>2, <1>3, <1>4, <1>5, <1>6 DEF User

\* Every step keeps the types of the webview.
LEMMA FrontStep ==
    ASSUME TypeInv, FrontTypeOK, [Next]_vars
    PROVE  FrontTypeOK'
<1>1. CASE UNCHANGED frontVars
  BY <1>1 DEF frontVars, FrontTypeOK
<1>2. ASSUME NEW r \in Regs, PressContinues(r) PROVE FrontTypeOK'
  BY <1>2, PressType
<1>3. ASSUME NEW j \in Slots, ResultHandled(j) PROVE FrontTypeOK'
  BY <1>3, ResultType
<1>4. CASE ClearRuns
  BY <1>4 DEF ClearRuns, FrontTypeOK
<1>5. CASE ClearReplied
  <2>1. StatusOf(EmptyContext) \in Flags
    BY DEF StatusOf, Flags
  <2> QED BY <1>5, <2>1 DEF ClearReplied, FrontTypeOK, AnyRun
<1>6. CASE Listener
  BY <1>6, ListenerType
<1>7. CASE User
  BY <1>7, UserType
<1>8. QED
  BY <1>1, <1>2, <1>3, <1>4, <1>5, <1>6, <1>7 DEF Next, vars

\* Initial states, and steps, keep both types.
LEMMA TypesHold ==
    /\ Init => TypeInv /\ FrontTypeOK
    /\ TypeInv /\ FrontTypeOK /\ [Next]_vars => TypeInv' /\ FrontTypeOK'
<1>1. Init => TypeInv /\ FrontTypeOK
  BY TypeInit, FrontInit DEF Init
<1>2. TypeInv /\ FrontTypeOK /\ [Next]_vars => TypeInv' /\ FrontTypeOK'
  BY NextIsClient, TypeStep, FrontStep
<1>3. QED
  BY <1>1, <1>2

\* The webview is one of the clients of CaptureClient: what holds of the
\* backend under any webview holds under this one.
THEOREM HotkeyIsClient == Spec => ImplementsClient
<1>1. Init => BackendInit
  BY DEF Init
<1>2. FrontTypeOK /\ [Next]_vars => [ClientNext]_backendVars
  BY NextIsClient
<1>3. QED
  BY <1>1, <1>2, TypesHold, PTL DEF Spec, ImplementsClient

\* Whatever is called, sent and answered in whatever order, the webview and
\* the backend keep their types.
THEOREM HotkeyTypeCorrect == Spec => []TypeOK
<1>1. TypeInv /\ FrontTypeOK => TypeOK
  BY DEF TypeInv, FrontTypeOK, TypeOK
<1>2. QED
  BY <1>1, TypesHold, PTL DEF Spec

\* The client's invariant, and the types, in every state
LEMMA SafeHere == Spec => [](IInv /\ FrontTypeOK)
<1>1. ImplementsClient => []IInv
  BY SafeInvariant DEF ImplementsClient
<1>2. QED
  BY <1>1, HotkeyIsClient, TypesHold, PTL DEF Spec

\* Under the hotkey, too, every recording can be stopped, no run is analysed
\* twice, and no utterance is committed twice.
THEOREM HotkeyOwnsRuns ==
    Spec => [](RecordingHasOwner /\ RunTakenOnce /\ CommittedOnce)
<1>1. IInv => RecordingHasOwner /\ RunTakenOnce /\ CommittedOnce
  BY DEF IInv, OwnerInv, CommitInv
<1>2. QED
  BY <1>1, SafeHere, PTL

----------------------------------------------------------------------------
(* What a step of one command does to the rest *)

\* Only a stop at the mutex takes the held run, and only the commit of a card
\* adds to the context; the status a command sends bears its own run.
Progress(j) ==
    /\ \A i \in Slots \ {j} : jobs'[i] = jobs[i]
    /\ jobs'[j].kind = jobs[j].kind /\ jobs'[j].owner = jobs[j].owner
    /\ jobs'[j].pc \notin {"free", "invoked"}
    /\ UNCHANGED <<runSeq, replies>>
    /\ \/ /\ At(j, "stop", {"invoked"}) /\ held # NoRun
          /\ jobs'[j].run = held /\ held' = NoRun /\ memo' = memo
       \/ /\ jobs'[j].run = jobs[j].run /\ held' = held
          /\ jobs'[j].pc \in BeforeCommit => jobs[j].pc \in BeforeCommit
                                             \/ jobs[j].kind # "stop"
          /\ CardCommitted(j) \/ memo'.entries \in {memo.entries, <<>>}

Announces(j) ==
    \/ events' = events
    \/ /\ jobs[j].kind = "retry" \/ jobs'[j].run \in RunIds
       /\ \E w \in {"transcribing", "analyzing", "ready"} :
              events' = Append(events, Status(j, jobs'[j].run, w))

LEMMA StopProgress ==
    ASSUME TypeInv, NEW j \in Slots, StopStep(j)
    PROVE  Progress(j) /\ Announces(j)
<1> USE DEF At, BeforeCommit
<1>0. \A pc \in Pcs : Moved(jobs, Goes(j, pc), j,
                            pc, jobs[j].run, jobs[j].text, jobs[j].mode)
  BY GoesMoves DEF TypeInv
<1>1. CASE StopRefused(j) \/ StopJoinFails(j) \/ PipelineFails(j)
  <2>1. jobs' = Goes(j, "err") /\ UNCHANGED <<held, runSeq, replies, events, memo>>
    BY <1>1 DEF StopRefused, StopJoinFails, PipelineFails, Fails
  <2>2. Moved(jobs, jobs', j, "err", jobs[j].run, jobs[j].text, jobs[j].mode)
    BY <1>0, <2>1 DEF Pcs
  <2> QED BY <2>1, <2>2 DEF Moved, Progress, Announces
<1>2. CASE StopJoined(j)
  <2>1. Moved(jobs, jobs', j, "stt", jobs[j].run, jobs[j].text, jobs[j].mode)
    BY <1>0, <1>2 DEF StopJoined, Pcs
  <2> QED BY <1>2, <2>1 DEF StopJoined, Moved, Progress, Announces
<1>3. CASE StopTakesRun(j)
  <2>1. held \in RunIds
    BY <1>3 DEF StopTakesRun, TypeInv, BackendTypeOK
  <2>2. Moved(jobs, jobs', j, "stopping", held, jobs[j].text, jobs[j].mode)
    BY <1>3, StopTakesRunMoves
  <2> QED BY <1>3, <2>1, <2>2 DEF StopTakesRun, Moved, Progress, Announces
<1>4. CASE TranscriptArrives(j)
  <2>1. jobs[j].run \in RunIds /\ jobs[j].run \in Texts
    BY <1>4, PipelineAssumption DEF TypeInv, JobsReady, Ready, TranscriptArrives
  <2>2. memo'.entries = memo.entries
    BY <1>4, <2>1, RememberedType DEF TranscriptArrives, TypeInv, BackendTypeOK
  <2>3. Moved(jobs, jobs', j, "reading", jobs[j].run, jobs[j].run, jobs[j].mode)
    BY <1>4, TranscriptArrivesMoves
  <2> QED
    BY <1>4, <2>1, <2>2, <2>3
    DEF TranscriptArrives, Moved, Progress, Announces, captureVars
<1>5. CASE ContextRead(j)
  <2>1. memo'.entries \in {memo.entries, <<>>}
    BY <1>5, UnexpiredEntries DEF ContextRead
  <2>2. Moved(jobs, jobs', j, "llm", jobs[j].run, jobs[j].text, ModeNow)
    BY <1>5, ContextReadMoves
  <2> QED
    BY <1>5, <2>1, <2>2 DEF ContextRead, Moved, Progress, Announces, captureVars
<1>6. CASE CardCommitted(j)
  <2>1. Moved(jobs, jobs', j,
              "recording", jobs[j].run, jobs[j].text, jobs[j].mode)
    BY <1>0, <1>6 DEF CardCommitted, Pcs
  <2>2. UNCHANGED <<captureVars, events, replies>>
    BY <1>6 DEF CardCommitted
  <2> QED
    BY <1>6, <2>1, <2>2 DEF Moved, Progress, Announces, captureVars
<1>7. CASE CardReturned(j)
  <2>1. jobs[j].run \in RunIds
    BY <1>7 DEF TypeInv, JobsReady, Ready, CardReturned
  <2>2. Moved(jobs, jobs', j, "ok", jobs[j].run, jobs[j].text, jobs[j].mode)
    BY <1>0, <1>7 DEF CardReturned, Pcs
  <2>3. /\ UNCHANGED <<captureVars, memo, replies>>
        /\ events' = Append(events, Status(j, jobs[j].run, "ready"))
    BY <1>7 DEF CardReturned
  <2> QED
    BY <2>1, <2>2, <2>3 DEF Moved, Progress, Announces, captureVars
<1>8. QED
  BY <1>1, <1>2, <1>3, <1>4, <1>5, <1>6, <1>7 DEF StopStep

LEMMA JobProgress ==
    ASSUME TypeInv, NEW j \in Slots, JobStep(j)
    PROVE  Progress(j) /\ Announces(j)
<1> USE DEF At, BeforeCommit
<1>0. \A pc \in Pcs : Moved(jobs, Goes(j, pc), j,
                            pc, jobs[j].run, jobs[j].text, jobs[j].mode)
  BY GoesMoves DEF TypeInv
<1>1. CASE RetryFails(j)
  <2>1. Moved(jobs, jobs', j, "err", jobs[j].run, jobs[j].text, jobs[j].mode)
    BY <1>0, <1>1 DEF RetryFails, Fails, Pcs
  <2>2. memo'.entries \in {memo.entries, <<>>}
    BY <1>1, UnexpiredEntries DEF RetryFails
  <2> QED
    BY <1>1, <2>1, <2>2 DEF RetryFails, Fails, Moved, Progress, Announces
<1>2. CASE RetryReads(j)
  <2>1. PICK t \in Texts, m \in Modes :
            Moved(jobs, jobs', j, "llm", jobs[j].run, t, m)
    BY <1>2, RetryReadsMoves
  <2>2. memo'.entries \in {memo.entries, <<>>}
    BY <1>2, UnexpiredEntries DEF RetryReads
  <2>3. /\ jobs[j].kind = "retry"
        /\ UNCHANGED <<captureVars, session, replies>>
        /\ events' = Append(events, Status(j, jobs[j].run, "analyzing"))
    BY <1>2 DEF RetryReads
  <2> QED BY <2>1, <2>2, <2>3 DEF Moved, Progress, Announces, captureVars
<1>3. CASE RetryReturns(j)
  <2>1. CardOf(j) \in Cards
    BY <1>3 DEF TypeInv, JobsReady, Ready, RetryReturns, CardOf, Cards
  <2>2. memo'.entries = memo.entries
    BY <1>3, <2>1, WithCardType DEF RetryReturns, TypeInv, BackendTypeOK
  <2>3. Moved(jobs, jobs', j, "ok", jobs[j].run, jobs[j].text, jobs[j].mode)
    BY <1>0, <1>3 DEF RetryReturns, Pcs
  <2>4. /\ jobs[j].kind = "retry"
        /\ UNCHANGED <<captureVars, session, replies>>
        /\ events' = Append(events, Status(j, jobs[j].run, "ready"))
    BY <1>3 DEF RetryReturns
  <2> QED BY <2>2, <2>3, <2>4 DEF Moved, Progress, Announces, captureVars
<1>4. CASE AnswerReturns(j)
  <2>1. Moved(jobs, jobs', j, "ok", jobs[j].run, jobs[j].text, jobs[j].mode)
    BY <1>0, <1>4 DEF AnswerReturns, Pcs
  <2> QED BY <1>4, <2>1 DEF AnswerReturns, Moved, Progress, Announces, captureVars
<1>5. CASE ContextStatus(j)
  <2>1. PICK pc \in {"toldOk", "toldErr"} :
            Moved(jobs, jobs', j, pc, jobs[j].run, jobs[j].text, jobs[j].mode)
    BY <1>5, ContextStatusMoves
  <2>2. memo'.entries \in {memo.entries, <<>>}
    BY <1>5, UnexpiredEntries DEF ContextStatus
  <2>3. UNCHANGED <<captureVars, session, events, replies>>
    BY <1>5 DEF ContextStatus
  <2> QED BY <2>1, <2>2, <2>3 DEF Moved, Progress, Announces, captureVars
<1>6. QED
  BY <1>1, <1>2, <1>3, <1>4, <1>5, StopProgress DEF JobStep, RetryStep

----------------------------------------------------------------------------
(* A cancelled pipeline stays quiet *)

\* A status event bears the run it is about: a recording's or a retry's.
SaidInv ==
    /\ \A i \in DOMAIN events :
          events[i].what = "cleared" \/ events[i].run \in RunIds \cup RetryIds
    /\ \A j \in Slots : jobs[j].kind = "retry" => jobs[j].run \in RetryIds

\* What is in a queue after an event was added, or the first was handled
LEMMA QueueElements ==
    ASSUME NEW S, NEW s \in Seq(S), NEW e \in S
    PROVE  /\ \A i \in DOMAIN Append(s, e) :
                 \/ Append(s, e)[i] = e
                 \/ i \in DOMAIN s /\ Append(s, e)[i] = s[i]
           /\ s # <<>> =>
                /\ 1 \in DOMAIN s /\ Head(s) = s[1]
                /\ \A i \in DOMAIN Tail(s) :
                      i + 1 \in DOMAIN s /\ Tail(s)[i] = s[i + 1]
<1>1. /\ DOMAIN Append(s, e) = 1..(Len(s) + 1) /\ Append(s, e)[Len(s) + 1] = e
      /\ \A i \in 1..Len(s) : Append(s, e)[i] = s[i]
      /\ Len(s) \in Nat /\ DOMAIN s = 1..Len(s)
  OBVIOUS
<1>2. ASSUME s # <<>>
      PROVE  /\ 1 \in DOMAIN s /\ Head(s) = s[1]
             /\ \A i \in DOMAIN Tail(s) :
                   i + 1 \in DOMAIN s /\ Tail(s)[i] = s[i + 1]
  <2>1. Len(s) \in Nat \ {0}
    BY <1>2, EmptySeq
  <2>2. /\ Head(s) = s[1] /\ DOMAIN Tail(s) = 1..(Len(s) - 1)
        /\ \A i \in 1..(Len(s) - 1) : Tail(s)[i] = s[i + 1]
    BY <1>2, <2>1
  <2> QED BY <1>1, <2>1, <2>2
<1>3. QED
  BY <1>1, <1>2

\* A step of the backend, and of any client, keeps that.
LEMMA SaidStep ==
    ASSUME TypeInv, SaidInv, [ClientNext]_backendVars
    PROVE  SaidInv'
<1>0. events \in Seq(Events) /\ BackendTypeOK
  BY DEF TypeInv, BackendTypeOK
<1>1. CASE UNCHANGED <<events, jobs>>
  BY <1>1 DEF SaidInv
<1>2. ASSUME NEW j \in Slots, JobStep(j) PROVE SaidInv'
  <2>1. Progress(j) /\ Announces(j)
    BY <1>2, JobProgress
  <2>2. jobs[j].kind = "retry" => jobs'[j].run \in RetryIds
    BY <2>1 DEF Progress, SaidInv, At
  <2>3. \A i \in Slots : jobs'[i].kind = "retry" => jobs'[i].run \in RetryIds
    BY <2>1, <2>2 DEF Progress, SaidInv
  <2>4. ASSUME NEW w \in {"transcribing", "analyzing", "ready"},
               events' = Append(events, Status(j, jobs'[j].run, w)),
               jobs'[j].run \in RunIds \cup RetryIds
        PROVE  \A i \in DOMAIN events' :
                  events'[i].what = "cleared" \/ events'[i].run \in RunIds \cup RetryIds
    <3> DEFINE e == Status(j, jobs'[j].run, w)
    <3>1. e \in Events /\ e.run = jobs'[j].run
      BY <2>4, StatusType DEF Status, AnyRun
    <3> HIDE DEF e
    <3>2. \A i \in DOMAIN Append(events, e) :
              \/ Append(events, e)[i] = e
              \/ i \in DOMAIN events /\ Append(events, e)[i] = events[i]
      BY <1>0, <3>1, QueueElements
    <3> QED BY <2>4, <3>1, <3>2 DEF SaidInv, e
  <2>5. \A i \in DOMAIN events' :
            events'[i].what = "cleared" \/ events'[i].run \in RunIds \cup RetryIds
    BY <2>1, <2>2, <2>4 DEF Announces, SaidInv
  <2> QED BY <2>3, <2>5 DEF SaidInv
<1>3. CASE TrayClear
  <2>1. ClearedEvent \in Events /\ ClearedEvent.what = "cleared"
    BY DEF ClearedEvent, Events, AnyRun
  <2>2. \A i \in DOMAIN Append(events, ClearedEvent) :
            \/ Append(events, ClearedEvent)[i] = ClearedEvent
            \/ /\ i \in DOMAIN events
               /\ Append(events, ClearedEvent)[i] = events[i]
    BY <1>0, <2>1, QueueElements
  <2> QED BY <1>3, <2>1, <2>2 DEF TrayClear, SaidInv
<1>4. CASE Environment /\ ~TrayClear
  BY <1>1, <1>4
  DEF Environment, RecorderEnds, TtlPasses, StartInterview, EndInterview
<1>5. CASE ClientCalls
  <2>1. CASE \/ \E o \in Nat : CaptureStart(o)
             \/ ClearContext
    BY <1>1, <2>1 DEF CaptureStart, CaptureStartOk, CaptureStartAgain,
       CaptureStartFails, ClearContext
  <2>2. ASSUME NEW kind \in {"stop", "retry", "answer"}, NEW o \in Nat,
               NEW run \in AnyRun, Calls(kind, o, run),
               kind = "retry" => run \in RetryIds
        PROVE  SaidInv'
    <3>1. /\ \E j \in Slots :
                /\ \A i \in Slots \ {j} : jobs'[i] = jobs[i]
                /\ jobs'[j].kind = kind /\ jobs'[j].run = run
          /\ UNCHANGED events
      BY <1>0, <2>2, CallsMoves
    <3> QED BY <2>2, <3>1 DEF SaidInv
  <2> QED BY <1>5, <2>1, <2>2, CallsOfClient
<1>6. ASSUME NEW j \in Slots, ClientTakesResult(j) PROVE SaidInv'
  <2>1. /\ \A i \in Slots \ {j} : jobs'[i] = jobs[i]
        /\ \/ jobs'[j] = FreeJob
           \/ jobs'[j].kind = jobs[j].kind /\ jobs'[j].run = jobs[j].run
        /\ UNCHANGED events
    BY <1>0, <1>6, TakesResultMoves
  <2>2. FreeJob.kind = "none"
    BY DEF FreeJob
  <2> QED BY <2>1, <2>2 DEF SaidInv
<1>7. CASE ClientTakesEvent
  <2>1. \A i \in DOMAIN Tail(events) :
            i + 1 \in DOMAIN events /\ Tail(events)[i] = events[i + 1]
    BY <1>0, <1>7, QueueElements DEF ClientTakesEvent
  <2> QED BY <1>7, <2>1 DEF ClientTakesEvent, SaidInv
<1>8. CASE ClientReloads \/ ClientTakesReply
  BY <1>1, <1>8 DEF ClientReloads, ClientTakesReply
<1>9. CASE UNCHANGED backendVars
  BY <1>1, <1>9 DEF backendVars
<1>10. QED
  BY <1>2, <1>3, <1>4, <1>5, <1>6, <1>7, <1>8, <1>9
  DEF ClientNext, BackendStep, ClientStep

\* While the cancel id is active every status event is about another run.
LEMMA QuietStep ==
    ASSUME TypeInv, SaidInv, activeRun = CancelId, Listener
    PROVE  phase' \in {phase, "idle"}
<1>1. CASE ClearedListener
  BY <1>1 DEF ClearedListener
<1>2. CASE StatusListener
  <2>1. /\ events # <<>> /\ Head(events).what # "cleared"
        /\ ~shouldAcceptStatusEvent(Head(events).run) => phase' = phase
    BY <1>2 DEF StatusListener
  <2>2. PICK e \in Events : TRUE
    BY <2>1 DEF TypeInv, BackendTypeOK
  <2>3. 1 \in DOMAIN events /\ Head(events) = events[1]
    BY <2>1, <2>2, QueueElements DEF TypeInv, BackendTypeOK
  <2>4. Head(events).run \in RunIds \cup RetryIds
    BY <2>1, <2>3 DEF SaidInv
  <2>5. \A r \in RunIds \cup RetryIds : r # NoRun /\ r # CancelId
    BY PipelineAssumption, ControllerAssumption DEF RunIds, NoRun, CancelId
  <2>6. CancelId # NoRun
    BY PipelineAssumption, ControllerAssumption DEF NoRun, CancelId
  <2> QED BY <2>1, <2>4, <2>5, <2>6 DEF shouldAcceptStatusEvent
<1>3. QED
  BY <1>1, <1>2 DEF Listener

\* A cancelled pipeline never brings the processing screen back, whatever its
\* command still sends.
THEOREM CancelStaysQuiet == Spec => CancelKeepsQuiet
<1>1. Init => SaidInv
  BY DEF Init, BackendInit, SaidInv, FreeJob
<1>2. TypeInv /\ FrontTypeOK /\ SaidInv /\ [Next]_vars => SaidInv'
  BY NextIsClient, SaidStep
<1>3. TypeInv /\ SaidInv /\ [Next]_vars =>
          [activeRun = CancelId /\ Listener => phase' \in {phase, "idle"}]_vars
  BY QuietStep
<1>4. QED
  BY <1>1, <1>2, <1>3, TypesHold, PTL DEF Spec, CancelKeepsQuiet

----------------------------------------------------------------------------
(* One registration of the shortcut *)

\* While no settings are saved the shortcut calls the closure it was first
\* registered with, and that closure alone acts.
OneClosure ==
    /\ reg = 1
    /\ \A r \in Regs \ {1} : hk[r] = Closure("none")
    /\ hk[1].state # "none"
    /\ hk[1].at # "none" <=> hk[1].state = "starting"
    /\ hk[1].state \in {"idle", "starting"} => hk[1].run = NoRun

\* A capture_start that has run is awaited, and returned the run held now.
StartAwaited ==
    \A m \in replies : m.to # 0 =>
        /\ m.to = 1 /\ hk[1].at = "called"
        /\ m.run # NoRun => m.run = held
        /\ \A n \in replies : n.to # 0 => n = m

ReleaseKinds == {"stop", "answer"}

\* The closure awaits the one command its release invoked.
ReleaseAwaited ==
    \A j \in Slots : jobs[j].kind \in ReleaseKinds =>
        /\ jobs[j].owner = 1 /\ hk[1].state = "stopping"
        /\ \A i \in Slots : jobs[i].kind \in ReleaseKinds => i = j

ShortcutHeld == hk[1].state = "armed" /\ hk[1].run # NoRun => held = hk[1].run

ShortcutInv == OneClosure /\ StartAwaited /\ ReleaseAwaited /\ ShortcutHeld

\* The command an invoke adds to the table
LEMMA InvokesMoves ==
    ASSUME TypeInv, NEW kind \in {"stop", "retry", "answer"}, NEW o \in Nat,
           NEW run \in AnyRun, Invokes(kind, o, run)
    PROVE  \E j \in Slots :
              /\ \A i \in Slots \ {j} : jobs'[i] = jobs[i]
              /\ jobs'[j].kind = kind /\ jobs'[j].pc = "invoked"
              /\ jobs'[j].run = run /\ jobs'[j].owner = o
<1> DEFINE new == Invoked(kind, o, run)
<1>1. /\ new.kind = kind /\ new.pc = "invoked"
      /\ new.run = run /\ new.owner = o
  BY InvokedType
<1>2. PICK j \in Slots : jobs' = [jobs EXCEPT ![j] = new]
  BY DEF Invokes
<1>3. jobs \in [Slots -> Jobs]
  BY DEF TypeInv, BackendTypeOK
<1> HIDE DEF new
<1>4. QED
  BY <1>1, <1>2, <1>3

\* A step that leaves the shortcut, its commands and the recording alone
LEMMA ShortcutQuiet ==
    ASSUME ShortcutInv, UNCHANGED <<hk, reg, held, jobs>>,
           replies' \subseteq replies \cup {ClearReply}
    PROVE  ShortcutInv'
<1>1. \A m \in replies' : m.to # 0 => m \in replies
  BY DEF ClearReply
<1>2. QED
  BY <1>1 DEF ShortcutInv, OneClosure, StartAwaited, ReleaseAwaited, ShortcutHeld

\* Only the stop at the mutex gives up the recording, and then the shortcut is
\* not armed and awaits no capture_start.
LEMMA ShortcutJob ==
    ASSUME ShortcutInv, NEW j \in Slots, Progress(j), UNCHANGED <<hk, reg>>
    PROVE  ShortcutInv'
<1>1. OneClosure'
  BY DEF ShortcutInv, OneClosure
<1>2. ReleaseAwaited'
  BY DEF ShortcutInv, ReleaseAwaited, Progress
<1>3. CASE held' = held
  BY <1>1, <1>2, <1>3 DEF ShortcutInv, StartAwaited, ShortcutHeld, Progress
<1>4. CASE At(j, "stop", {"invoked"})
  <2>1. hk[1].state = "stopping" /\ hk[1].at = "none"
    BY <1>4 DEF ShortcutInv, OneClosure, ReleaseAwaited, ReleaseKinds, At
  <2> QED
    BY <1>1, <1>2, <2>1 DEF ShortcutInv, StartAwaited, ShortcutHeld, Progress
<1>5. QED
  BY <1>3, <1>4 DEF Progress

\* A release awaits the command it invokes,
LEMMA ShortcutReleases ==
    ASSUME TypeInv, FrontTypeOK, ShortcutInv, NEW run \in RunIds \cup {NoRun},
           Releases(1, run),
           hk[1].state # "stopping",
           \A m \in replies' : m.to = 0,
           UNCHANGED reg
    PROVE  ShortcutInv'
<1> DEFINE c == [Closure("stopping") EXCEPT !.run = run]
<1>1. c.state = "stopping" /\ c.run = run /\ c.at = "none"
  BY ClosureOfRun
<1>2. 1 \in Regs /\ hk \in [Regs -> Closures] /\ NoRun \in AnyRun
  BY ControllerAssumption DEF FrontTypeOK, Regs, AnyRun
<1>3. hk' = [hk EXCEPT ![1] = c]
  BY DEF Releases
<1>4. PICK kind \in ReleaseKinds : Invokes(kind, 1, NoRun)
  BY DEF Releases, ReleaseKind, ReleaseKinds
<1>5. PICK j \in Slots :
          /\ \A i \in Slots \ {j} : jobs'[i] = jobs[i]
          /\ jobs'[j].kind = kind /\ jobs'[j].owner = 1
  BY <1>2, <1>4, InvokesMoves DEF ReleaseKinds
<1> HIDE DEF c
<1>6. hk'[1] = c /\ \A r \in Regs \ {1} : hk'[r] = hk[r]
  BY <1>2, <1>3
<1>7. OneClosure' /\ ShortcutHeld'
  BY <1>1, <1>6 DEF ShortcutInv, OneClosure, ShortcutHeld
<1>8. ReleaseAwaited'
  <2>1. \A i \in Slots : jobs[i].kind \notin ReleaseKinds
    BY DEF ShortcutInv, ReleaseAwaited
  <2> QED BY <1>1, <1>5, <1>6, <2>1 DEF ReleaseAwaited
<1>9. QED
  BY <1>7, <1>8 DEF ShortcutInv, StartAwaited

\* and a shortcut that arms nothing, unless the release came before.
LEMMA ShortcutArms ==
    ASSUME TypeInv, FrontTypeOK, ShortcutInv, NEW run \in RunIds \cup {NoRun},
           NEW p, Arms(1, run, p),
           run # NoRun => run = held,
           hk[1].state # "stopping",
           \A m \in replies' : m.to = 0,
           UNCHANGED <<held, reg>>
    PROVE  ShortcutInv'
<1> DEFINE d == [Closure("armed") EXCEPT !.run = run]
<1>1. d.state = "armed" /\ d.run = run /\ d.at = "none"
  BY ClosureOfRun
<1>2. 1 \in Regs /\ hk \in [Regs -> Closures]
  BY ControllerAssumption DEF FrontTypeOK, Regs
<1>3. CASE hk' = [hk EXCEPT ![1] = d] /\ UNCHANGED jobs
  <2> HIDE DEF d
  <2>1. hk'[1] = d /\ \A r \in Regs \ {1} : hk'[r] = hk[r]
    BY <1>2, <1>3
  <2>2. OneClosure' /\ ShortcutHeld'
    BY <1>1, <2>1 DEF ShortcutInv, OneClosure, ShortcutHeld
  <2>3. ReleaseAwaited'
    BY <1>3 DEF ShortcutInv, ReleaseAwaited
  <2> QED BY <2>2, <2>3 DEF ShortcutInv, StartAwaited
<1>4. CASE Releases(1, run)
  BY <1>4, ShortcutReleases
<1>5. QED
  BY <1>3, <1>4 DEF Arms

\* A shortcut that becomes idle awaits nothing.
LEMMA ShortcutIdles ==
    ASSUME FrontTypeOK, ShortcutInv, hk' = [hk EXCEPT ![1] = Closure("idle")],
           \A m \in replies' : m.to = 0,
           \A j \in Slots : jobs'[j].kind \notin ReleaseKinds,
           UNCHANGED reg
    PROVE  ShortcutInv'
<1>1. 1 \in Regs /\ hk \in [Regs -> Closures]
  BY ControllerAssumption DEF FrontTypeOK, Regs
<1> DEFINE c == Closure("idle")
<1>2. c.state = "idle" /\ c.run = NoRun /\ c.at = "none"
  BY ClosureType
<1>3. hk' = [hk EXCEPT ![1] = c]
  OBVIOUS
<1> HIDE DEF c
<1>4. hk'[1] = c /\ \A r \in Regs \ {1} : hk'[r] = hk[r]
  BY <1>1, <1>3
<1>5. QED
  BY <1>2, <1>4 DEF ShortcutInv, OneClosure, StartAwaited, ReleaseAwaited,
     ShortcutHeld

\* A press that waits for its preflight, or for capture_start, awaits nothing
\* else yet.
LEMMA ShortcutStarts ==
    ASSUME FrontTypeOK, ShortcutInv,
           NEW a \in {"preflight", "calling"},
           hk' = [hk EXCEPT ![1].state = "starting", ![1].at = a],
           hk[1].state \in {"idle", "starting"}, hk[1].at # "called",
           UNCHANGED <<reg, jobs, replies, held>>
    PROVE  ShortcutInv'
<1>1. 1 \in Regs /\ hk \in [Regs -> Closures]
  BY ControllerAssumption DEF FrontTypeOK, Regs
<1>2. /\ hk'[1].state = "starting" /\ hk'[1].at = a /\ hk'[1].run = hk[1].run
      /\ \A r \in Regs \ {1} : hk'[r] = hk[r]
  BY <1>1 DEF Closures
<1>3. OneClosure'
  BY <1>2 DEF ShortcutInv, OneClosure
<1>4. \A m \in replies : m.to = 0
  BY DEF ShortcutInv, StartAwaited
<1>5. \A j \in Slots : jobs[j].kind \notin ReleaseKinds
  BY DEF ShortcutInv, ReleaseAwaited
<1>6. QED
  BY <1>2, <1>3, <1>4, <1>5 DEF ShortcutInv, StartAwaited, ReleaseAwaited,
     ShortcutHeld

\* The press past the preflight
LEMMA ShortcutPastPreflight ==
    ASSUME TypeInv, FrontTypeOK, ShortcutInv, PastPreflight(1),
           hk[1].state \in {"idle", "starting"}, hk[1].at # "called",
           UNCHANGED <<reg, replies, held>>
    PROVE  ShortcutInv'
<1>1. hk[1].run = NoRun /\ \A m \in replies' : m.to = 0
  BY DEF ShortcutInv, OneClosure, StartAwaited
<1>2. CASE Arms(1, hk[1].run, "capturing")
  <2>1. Arms(1, NoRun, "capturing")
    BY <1>1, <1>2
  <2> QED BY <1>1, <2>1, ShortcutArms
<1>3. CASE /\ hk' = [hk EXCEPT ![1].state = "starting", ![1].at = "calling"]
           /\ UNCHANGED jobs
  BY <1>3, ShortcutStarts
<1>4. QED
  BY <1>2, <1>3 DEF PastPreflight

\* A press that goes on is one of the shortcut, which awaits no release.
LEMMA PressOfShortcut ==
    ASSUME ShortcutInv, NEW r \in Regs, PressContinues(r)
    PROVE  /\ r = 1 /\ hk[1].state = "starting"
           /\ \A j \in Slots : jobs[j].kind \notin ReleaseKinds
<1>1. CASE hk[r].at # "none"
  BY <1>1, ClosureType DEF ShortcutInv, OneClosure, ReleaseAwaited
<1>2. ASSUME NEW m \in replies, m.to = r PROVE r = 1 /\ hk[1].state = "starting"
  BY <1>2 DEF ShortcutInv, StartAwaited, OneClosure, Regs
<1>3. QED
  BY <1>1, <1>2 DEF PressContinues, PreflightPasses, PreflightRedirects,
     PreflightFails, StartCalled, StartReplied, StartFailed, StartReply,
     ShortcutInv, ReleaseAwaited

\* The steps of a press
LEMMA ShortcutPress ==
    ASSUME TypeInv, FrontTypeOK, ShortcutInv, NEW r \in Regs, PressContinues(r)
    PROVE  ShortcutInv'
<1>1. r = 1 /\ hk[1].state = "starting"
  BY PressOfShortcut
<1>2. \A j \in Slots : jobs[j].kind \notin ReleaseKinds
  BY PressOfShortcut
<1>3. hk \in [Regs -> Closures] /\ 1 \in Regs
  BY <1>1 DEF FrontTypeOK
<1>4. CASE PreflightPasses(r)
  <2>1. /\ PastPreflight(1) /\ hk[1].at # "called"
        /\ UNCHANGED <<reg, replies, held>>
    BY <1>1, <1>4 DEF PreflightPasses, captureVars
  <2> QED BY <1>1, <2>1, ShortcutPastPreflight
<1>5. CASE PreflightRedirects(r) \/ PreflightFails(r)
  <2>1. /\ hk' = [hk EXCEPT ![1] = Closure("idle")] /\ hk[1].at = "preflight"
        /\ UNCHANGED <<reg, replies, jobs>>
    BY <1>1, <1>5 DEF PreflightRedirects, PreflightFails, PressFails, backendVars
  <2>2. \A m \in replies' : m.to = 0
    BY <2>1 DEF ShortcutInv, StartAwaited
  <2> QED BY <1>2, <2>1, <2>2, ShortcutIdles
<1>6. CASE StartCalled(r)
  <2>1. /\ hk' = [hk EXCEPT ![1].at = "called"] /\ hk[1].at = "calling"
        /\ UNCHANGED <<reg, jobs>>
    BY <1>1, <1>6 DEF StartCalled, CaptureStart, CaptureStartOk,
       CaptureStartAgain, CaptureStartFails
  <2>2. /\ hk'[1].at = "called" /\ hk'[1].state = hk[1].state
        /\ hk'[1].run = hk[1].run
        /\ \A q \in Regs \ {1} : hk'[q] = hk[q]
    BY <1>3, <2>1 DEF Closures
  <2>3. \A m \in replies : m.to = 0
    BY <2>1 DEF ShortcutInv, StartAwaited
  <2>4. \E u : replies' = replies \cup {StartReply(1, u)} /\ (u # NoRun => u = held')
    BY <1>1, <1>6 DEF StartCalled, CaptureStart, CaptureStartOk,
       CaptureStartAgain, CaptureStartFails, captureVars
  <2>5. StartAwaited'
    BY <2>2, <2>3, <2>4 DEF StartAwaited, StartReply
  <2> QED
    BY <1>1, <1>2, <2>1, <2>2, <2>5
    DEF ShortcutInv, OneClosure, ReleaseAwaited, ShortcutHeld
<1>7. CASE StartReplied(r)
  <2>1. PICK m \in replies : /\ m.to = 1 /\ m.run # NoRun
                             /\ replies' = replies \ {m}
                             /\ Arms(1, m.run, phase)
    BY <1>1, <1>7 DEF StartReplied
  <2>2. m.run \in RunIds \cup {NoRun}
    BY DEF TypeInv, BackendTypeOK, Replies
  <2>3. m.run = held /\ \A n \in replies' : n.to = 0
    BY <2>1 DEF ShortcutInv, StartAwaited
  <2>4. UNCHANGED <<held, reg>>
    BY <1>7 DEF StartReplied, captureVars
  <2> QED BY <1>1, <2>1, <2>2, <2>3, <2>4, ShortcutArms
<1>8. CASE StartFailed(r)
  <2>1. /\ hk' = [hk EXCEPT ![1] = Closure("idle")]
        /\ StartReply(1, NoRun) \in replies
        /\ replies' = replies \ {StartReply(1, NoRun)}
        /\ UNCHANGED <<reg, jobs>>
    BY <1>1, <1>8 DEF StartFailed, PressFails
  <2>2. StartReply(1, NoRun).to = 1
    BY DEF StartReply
  <2>3. \A m \in replies' : m.to = 0
    BY <2>1, <2>2 DEF ShortcutInv, StartAwaited
  <2> QED BY <1>2, <2>1, <2>3, ShortcutIdles
<1>9. QED
  BY <1>4, <1>5, <1>6, <1>7, <1>8 DEF PressContinues

\* The results: that of its one command makes the shortcut idle.
LEMMA ShortcutResult ==
    ASSUME TypeInv, FrontTypeOK, ShortcutInv, NEW j \in Slots, ResultHandled(j)
    PROVE  ShortcutInv'
<1>1. jobs \in [Slots -> Jobs] /\ FreeJob.kind = "none"
  BY DEF TypeInv, BackendTypeOK, FreeJob
<1>2. UNCHANGED <<held, replies, reg>>
  BY DEF ResultHandled, AnswerTriggered, ResultDiscarded, CardShown, CaptureReady,
     FailureSeen, CaptureFailed, RetryCardShown, RetryReady, RetryFailed,
     captureVars, frontVars
<1>3. CASE /\ jobs[j].kind \in ReleaseKinds
           /\ Frees(j) /\ Rests(j)
  <2>1. jobs[j].owner = 1 /\ hk[1].at = "none"
    BY <1>3 DEF ShortcutInv, ReleaseAwaited, OneClosure
  <2>2. \A m \in replies' : m.to = 0
    BY <1>2, <2>1 DEF ShortcutInv, StartAwaited
  <2>3. \A i \in Slots : jobs'[i].kind \notin ReleaseKinds
    BY <1>1, <1>3 DEF Frees, ShortcutInv, ReleaseAwaited, ReleaseKinds
  <2>4. hk' = [hk EXCEPT ![1] = Closure("idle")]
    BY <1>3, <2>1 DEF Rests
  <2> QED BY <1>2, <2>2, <2>3, <2>4, ShortcutIdles
<1>4. CASE /\ jobs[j].kind = "retry"
           /\ Frees(j) /\ UNCHANGED hk
  <2>1. /\ \A i \in Slots \ {j} : jobs'[i] = jobs[i]
        /\ jobs'[j].kind \notin ReleaseKinds
    BY <1>1, <1>4 DEF Frees, ReleaseKinds
  <2> QED
    BY <1>2, <1>4, <2>1 DEF ShortcutInv, OneClosure, StartAwaited,
       ReleaseAwaited, ShortcutHeld
<1>5. ASSUME NEW pc \in {"askOk", "askErr"}, jobs' = Goes(j, pc), UNCHANGED hk
      PROVE  ShortcutInv'
  <2>1. Moved(jobs, jobs', j, pc, jobs[j].run, jobs[j].text, jobs[j].mode)
    BY <1>5, GoesMoves DEF TypeInv, Pcs
  <2>2. /\ \A i \in Slots \ {j} : jobs'[i] = jobs[i]
        /\ jobs'[j].kind = jobs[j].kind /\ jobs'[j].owner = jobs[j].owner
    BY <2>1 DEF Moved
  <2> QED
    BY <1>2, <1>5, <2>2 DEF ShortcutInv, OneClosure, StartAwaited,
       ReleaseAwaited, ShortcutHeld
<1>6. CASE \/ AnswerTriggered(j) \/ ResultDiscarded(j) \/ CaptureReady(j)
           \/ CaptureFailed(j)
  BY <1>3, <1>6 DEF AnswerTriggered, ResultDiscarded, CaptureReady, CaptureFailed,
     Arrived, At, ReleaseKinds
<1>7. CASE RetryReady(j) \/ RetryFailed(j)
  BY <1>4, <1>7 DEF RetryReady, RetryFailed, Arrived, At
<1>8. CASE CardShown(j) \/ RetryCardShown(j) \/ FailureSeen(j)
  BY <1>5, <1>8 DEF CardShown, RetryCardShown, FailureSeen, frontVars
<1>9. QED
  BY <1>6, <1>7, <1>8 DEF ResultHandled

\* What the user does
LEMMA ShortcutUser ==
    ASSUME ~SavesSettings, TypeInv, FrontTypeOK, ShortcutInv, User
    PROVE  ShortcutInv'
<1>1. reg = 1 /\ hk \in [Regs -> Closures] /\ 1 \in Regs
  BY ControllerAssumption DEF ShortcutInv, OneClosure, FrontTypeOK, Regs
<1>2. CASE Press
  <2>1. /\ hk[1].state = "idle" /\ hk[1].at = "none"
        /\ UNCHANGED <<reg, replies, held>>
    BY <1>1, <1>2 DEF Press, ShortcutInv, OneClosure, captureVars
  <2>2. CASE PastPreflight(1)
    BY <2>1, <2>2, ShortcutPastPreflight
  <2>3. CASE /\ hk' = [hk EXCEPT ![1].state = "starting", ![1].at = "preflight"]
             /\ UNCHANGED jobs
    BY <2>1, <2>3, ShortcutStarts
  <2> QED BY <1>1, <1>2, <2>2, <2>3 DEF Press
<1>3. CASE Release
  <2>1. UNCHANGED <<reg, replies, held>>
    BY <1>3 DEF Release, captureVars
  <2>2. CASE /\ hk' = [hk EXCEPT ![1].pending = TRUE]
             /\ UNCHANGED jobs
    <3>1. /\ hk'[1].at = hk[1].at /\ hk'[1].state = hk[1].state
          /\ hk'[1].run = hk[1].run
          /\ \A q \in Regs \ {1} : hk'[q] = hk[q]
      BY <1>1, <2>2 DEF Closures
    <3> QED
      BY <2>1, <2>2, <3>1 DEF ShortcutInv, OneClosure, StartAwaited,
         ReleaseAwaited, ShortcutHeld
  <2>3. CASE hk[1].state = "armed" /\ Releases(1, hk[1].run)
    <3> DEFINE run == hk[1].run
    <3>1. /\ run \in RunIds \cup {NoRun} /\ (run # NoRun => run = held)
          /\ hk[1].at = "none"
      BY <1>1, <2>3 DEF Closures, ShortcutInv, ShortcutHeld, OneClosure
    <3>2. \A m \in replies' : m.to = 0
      BY <2>1, <3>1 DEF ShortcutInv, StartAwaited
    <3> QED BY <2>1, <2>3, <3>1, <3>2, ShortcutReleases
  <2> QED BY <1>1, <1>3, <2>2, <2>3 DEF Release
<1>4. CASE Retry
  <2>1. activeRun' \in AnyRun
    BY <1>4, RetryIdType DEF AnyRun
  <2>2. PICK run \in AnyRun : Invokes("retry", 0, run)
    BY <1>4, <2>1 DEF Retry
  <2>3. \E j \in Slots : /\ \A i \in Slots \ {j} : jobs'[i] = jobs[i]
                         /\ jobs'[j].kind = "retry"
    BY <2>2, InvokesMoves
  <2>4. UNCHANGED <<hk, reg, replies, held>>
    BY <1>4 DEF Retry, captureVars
  <2> QED
    BY <2>3, <2>4 DEF ShortcutInv, OneClosure, StartAwaited, ReleaseAwaited,
       ShortcutHeld, ReleaseKinds
<1>5. CASE \/ Cancel \/ ClearClicked \/ RefreshSetup \/ SettingsNotSaved
           \/ BilingualChanges
  <2>1. UNCHANGED <<hk, reg, held, jobs, replies>>
    BY <1>5 DEF Cancel, ClearClicked, RefreshSetup, SettingsNotSaved,
       BilingualChanges, backendVars, captureVars
  <2> QED BY <2>1, ShortcutQuiet
<1>6. QED
  BY <1>2, <1>3, <1>4, <1>5 DEF User, SettingsSaved

\* Every step keeps the shortcut's awaited results and its recording.
LEMMA ShortcutStep ==
    ASSUME ~SavesSettings, TypeInv, FrontTypeOK, ShortcutInv, [Next]_vars
    PROVE  ShortcutInv'
<1>1. ASSUME UNCHANGED <<hk, reg, held, jobs>>,
             replies' \subseteq replies \cup {ClearReply}
      PROVE  ShortcutInv'
  BY <1>1, ShortcutQuiet
<1>2. CASE BackendStep /\ UNCHANGED frontVars
  <2>1. CASE Environment
    BY <1>1, <1>2, <2>1 DEF Environment, RecorderEnds, TrayClear, TtlPasses,
       StartInterview, EndInterview, captureVars, frontVars
  <2>2. ASSUME NEW j \in Slots, JobStep(j) PROVE ShortcutInv'
    BY <1>2, <2>2, JobProgress, ShortcutJob DEF frontVars
  <2> QED BY <1>2, <2>1, <2>2 DEF BackendStep
<1>3. ASSUME NEW r \in Regs, PressContinues(r) PROVE ShortcutInv'
  BY <1>3, ShortcutPress
<1>4. ASSUME NEW j \in Slots, ResultHandled(j) PROVE ShortcutInv'
  BY <1>4, ShortcutResult
<1>5. CASE ClearRuns \/ ClearReplied
  BY <1>1, <1>5 DEF ClearRuns, ClearContext, ClearReplied, captureVars
<1>6. CASE Listener
  BY <1>1, <1>6 DEF Listener, StatusListener, ClearedListener, captureVars
<1>7. CASE User
  BY <1>7, ShortcutUser
<1>8. CASE UNCHANGED vars
  BY <1>1, <1>8 DEF vars, frontVars, backendVars, captureVars
<1>9. QED
  BY <1>2, <1>3, <1>4, <1>5, <1>6, <1>7, <1>8 DEF Next

LEMMA ShortcutInit ==
    ASSUME Init
    PROVE  ShortcutInv
<1>1. 1 \in Regs
  BY ControllerAssumption DEF Regs
<1>2. hk[1] = Closure("idle") /\ \A r \in Regs \ {1} : hk[r] = Closure("none")
  BY <1>1 DEF Init
<1>3. \A j \in Slots : jobs[j].kind = "none"
  BY DEF Init, BackendInit, FreeJob
<1>4. QED
  BY <1>2, <1>3, ClosureType DEF Init, BackendInit, ShortcutInv, OneClosure,
     StartAwaited, ReleaseAwaited, ReleaseKinds, ShortcutHeld

\* The shortcut's invariant, with the client's
LEMMA ShortcutInvariant ==
    ASSUME ~SavesSettings
    PROVE  Spec => [](IInv /\ FrontTypeOK /\ ShortcutInv)
<1>1. Init => ShortcutInv
  BY ShortcutInit
<1>2. TypeInv /\ FrontTypeOK /\ ShortcutInv /\ [Next]_vars => ShortcutInv'
  BY ShortcutStep
<1>3. QED
  BY <1>1, <1>2, TypesHold, SafeHere, PTL DEF Spec

\* While the hotkey shows a capture the backend records that very run for it,
\* in every mode and whatever is cancelled, retried or cleared meanwhile, as
\* long as no saved settings register the shortcut anew.
THEOREM ArmedHoldsItsRun ==
    ASSUME ~SavesSettings
    PROVE  Spec => []ArmedMeansHeld
<1>1. ShortcutInv => ArmedMeansHeld
  BY ClosureType DEF ShortcutInv, OneClosure, ShortcutHeld, ArmedMeansHeld
<1>2. QED
  BY <1>1, ShortcutInvariant, PTL

----------------------------------------------------------------------------
(* A release has its own run analysed *)

\* The command of a release finds the run of its press at the mutex, and keeps
\* it.
OwnRunInv ==
    /\ ~bilingual
    /\ hk[1].state \in {"armed", "stopping"} => hk[1].run # NoRun
    /\ \A j \in Slots : jobs[j].kind = "stop" =>
         /\ jobs[j].pc = "invoked" => held = hk[1].run
         /\ jobs[j].run \in {NoRun, hk[1].run}

\* The run of an armed shortcut is the held one, so its release's command
\* finds it;
LEMMA OwnRelease ==
    ASSUME TypeInv, FrontTypeOK, ShortcutInv, OwnRunInv,
           NEW run \in RunIds \cup {NoRun}, run # NoRun, run = held,
           Releases(1, run), hk[1].state # "stopping", UNCHANGED <<held, bilingual>>
    PROVE  OwnRunInv'
<1> DEFINE c == [Closure("stopping") EXCEPT !.run = run]
<1>1. c.run = run
  BY ClosureOfRun
<1>2. 1 \in Regs /\ hk \in [Regs -> Closures] /\ NoRun \in AnyRun
  BY ControllerAssumption DEF FrontTypeOK, Regs, AnyRun
<1>3. hk' = [hk EXCEPT ![1] = c]
  BY DEF Releases
<1>4. Invokes("stop", 1, NoRun)
  BY DEF Releases, ReleaseKind, OwnRunInv
<1>5. PICK j \in Slots :
          /\ \A i \in Slots \ {j} : jobs'[i] = jobs[i]
          /\ jobs'[j].run = NoRun
  BY <1>2, <1>4, InvokesMoves
<1> HIDE DEF c
<1>6. hk'[1] = c
  BY <1>2, <1>3
<1>7. \A i \in Slots : jobs[i].kind # "stop"
  BY DEF ShortcutInv, ReleaseAwaited, ReleaseKinds
<1>8. QED
  BY <1>1, <1>5, <1>6, <1>7 DEF OwnRunInv

\* so a shortcut that arms has a run to stop.
LEMMA OwnArms ==
    ASSUME TypeInv, FrontTypeOK, ShortcutInv, OwnRunInv,
           NEW run \in RunIds \cup {NoRun}, NEW p, Arms(1, run, p),
           run # NoRun, run = held,
           hk[1].state # "stopping", UNCHANGED <<held, bilingual>>
    PROVE  OwnRunInv'
<1> DEFINE d == [Closure("armed") EXCEPT !.run = run]
<1>1. CASE hk' = [hk EXCEPT ![1] = d] /\ UNCHANGED jobs
  <2>1. d.run = run
    BY ClosureOfRun
  <2>2. 1 \in Regs /\ hk \in [Regs -> Closures]
    BY ControllerAssumption DEF FrontTypeOK, Regs
  <2> HIDE DEF d
  <2>3. hk'[1] = d
    BY <1>1, <2>2
  <2>4. \A i \in Slots : jobs[i].kind # "stop"
    BY DEF ShortcutInv, ReleaseAwaited, ReleaseKinds
  <2> QED BY <1>1, <2>1, <2>3, <2>4 DEF OwnRunInv
<1>2. CASE Releases(1, run)
  BY <1>2, OwnRelease
<1>3. QED
  BY <1>1, <1>2 DEF Arms

\* A command that goes on
LEMMA OwnJob ==
    ASSUME ShortcutInv, OwnRunInv, NEW j \in Slots, Progress(j),
           UNCHANGED <<hk, bilingual>>
    PROVE  OwnRunInv'
<1>1. CASE held' = held /\ jobs'[j].run = jobs[j].run
  BY <1>1 DEF OwnRunInv, Progress
<1>2. CASE At(j, "stop", {"invoked"}) /\ jobs'[j].run = held
  <2>1. jobs'[j].run = hk[1].run
    BY <1>2 DEF OwnRunInv, At
  <2>2. \A i \in Slots \ {j} : jobs[i].kind # "stop"
    BY <1>2 DEF ShortcutInv, ReleaseAwaited, ReleaseKinds, At
  <2> QED BY <2>1, <2>2 DEF OwnRunInv, Progress
<1>3. QED
  BY <1>1, <1>2 DEF Progress

\* A shortcut that awaits no command of its own can change as it likes, short
\* of arming.
LEMMA OwnFree ==
    ASSUME OwnRunInv, UNCHANGED bilingual,
           hk'[1].state \notin {"armed", "stopping"},
           \A j \in Slots : jobs'[j].kind # "stop"
    PROVE  OwnRunInv'
BY DEF OwnRunInv

\* The steps of a press
LEMMA OwnPress ==
    ASSUME TypeInv, FrontTypeOK, ShortcutInv, OwnRunInv,
           NEW r \in Regs, PressContinues(r)
    PROVE  OwnRunInv'
<1>1. /\ r = 1 /\ hk[1].state = "starting"
      /\ \A j \in Slots : jobs[j].kind # "stop"
  BY PressOfShortcut DEF ReleaseKinds
<1>2. /\ 1 \in Regs /\ hk \in [Regs -> Closures]
      /\ Closure("idle").state = "idle" /\ ~bilingual
  BY <1>1, ClosureType DEF FrontTypeOK, OwnRunInv
<1>3. CASE PreflightPasses(r)
  <2>1. /\ hk' = [hk EXCEPT ![1].state = "starting", ![1].at = "calling"]
        /\ UNCHANGED <<jobs, bilingual>>
    BY <1>1, <1>2, <1>3 DEF PreflightPasses, PastPreflight
  <2>2. hk'[1].state = "starting"
    BY <1>2, <2>1 DEF Closures
  <2> QED BY <1>1, <2>1, <2>2, OwnFree
<1>4. CASE PreflightRedirects(r) \/ PreflightFails(r) \/ StartFailed(r)
  <2>1. hk' = [hk EXCEPT ![1] = Closure("idle")] /\ UNCHANGED <<jobs, bilingual>>
    BY <1>1, <1>4 DEF PreflightRedirects, PreflightFails, StartFailed, PressFails,
       backendVars
  <2> QED BY <1>1, <1>2, <2>1, OwnFree
<1>5. CASE StartCalled(r)
  <2>1. hk' = [hk EXCEPT ![1].at = "called"] /\ UNCHANGED <<jobs, bilingual>>
    BY <1>1, <1>5 DEF StartCalled, CaptureStart, CaptureStartOk,
       CaptureStartAgain, CaptureStartFails
  <2>2. hk'[1].state = "starting"
    BY <1>1, <1>2, <2>1 DEF Closures
  <2> QED BY <1>1, <2>1, <2>2, OwnFree
<1>6. CASE StartReplied(r)
  <2>1. PICK m \in replies :
            m.to = 1 /\ m.run # NoRun /\ Arms(1, m.run, phase)
    BY <1>1, <1>6 DEF StartReplied
  <2>2. m.run \in RunIds \cup {NoRun} /\ m.run = held
    BY <2>1 DEF TypeInv, BackendTypeOK, Replies, ShortcutInv, StartAwaited
  <2>3. UNCHANGED <<held, bilingual>>
    BY <1>6 DEF StartReplied, captureVars
  <2> QED BY <1>1, <2>1, <2>2, <2>3, OwnArms
<1>7. QED
  BY <1>3, <1>4, <1>5, <1>6 DEF PressContinues

\* The results
LEMMA OwnResult ==
    ASSUME TypeInv, FrontTypeOK, ShortcutInv, OwnRunInv,
           NEW j \in Slots, ResultHandled(j)
    PROVE  OwnRunInv'
<1>1. /\ jobs \in [Slots -> Jobs] /\ FreeJob.kind = "none"
      /\ 1 \in Regs /\ hk \in [Regs -> Closures]
      /\ Closure("idle").state = "idle"
  BY ClosureType, ControllerAssumption
  DEF TypeInv, BackendTypeOK, FreeJob, FrontTypeOK, Regs
<1>2. UNCHANGED <<held, bilingual>>
  BY DEF ResultHandled, AnswerTriggered, ResultDiscarded, CardShown, CaptureReady,
     FailureSeen, CaptureFailed, RetryCardShown, RetryReady, RetryFailed,
     captureVars, frontVars
<1>3. CASE /\ jobs[j].kind \in ReleaseKinds
           /\ Frees(j) /\ Rests(j)
  <2>1. hk'[1].state = "idle"
    BY <1>1, <1>3 DEF Rests, ShortcutInv, ReleaseAwaited
  <2>2. \A i \in Slots : jobs'[i].kind # "stop"
    BY <1>1, <1>3 DEF Frees, ShortcutInv, ReleaseAwaited, ReleaseKinds
  <2> QED BY <1>2, <2>1, <2>2, OwnFree
<1>4. CASE Frees(j) /\ UNCHANGED hk
  <2>1. /\ \A i \in Slots \ {j} : jobs'[i] = jobs[i]
        /\ jobs'[j].kind = "none"
    BY <1>1, <1>4 DEF Frees
  <2> QED BY <1>2, <1>4, <2>1 DEF OwnRunInv
<1>5. ASSUME NEW pc \in {"askOk", "askErr"}, jobs' = Goes(j, pc), UNCHANGED hk
      PROVE  OwnRunInv'
  <2>1. Moved(jobs, jobs', j, pc, jobs[j].run, jobs[j].text, jobs[j].mode)
    BY <1>5, GoesMoves DEF TypeInv, Pcs
  <2> QED BY <1>2, <1>5, <2>1 DEF OwnRunInv, Moved
<1>6. CASE \/ AnswerTriggered(j) \/ ResultDiscarded(j) \/ CaptureReady(j)
           \/ CaptureFailed(j)
  BY <1>3, <1>6 DEF AnswerTriggered, ResultDiscarded, CaptureReady, CaptureFailed,
     Arrived, At, ReleaseKinds
<1>7. CASE RetryReady(j) \/ RetryFailed(j)
  BY <1>4, <1>7 DEF RetryReady, RetryFailed
<1>8. CASE CardShown(j) \/ RetryCardShown(j) \/ FailureSeen(j)
  BY <1>5, <1>8 DEF CardShown, RetryCardShown, FailureSeen, frontVars
<1>9. QED
  BY <1>6, <1>7, <1>8 DEF ResultHandled

\* What the user does
LEMMA OwnUser ==
    ASSUME ~SavesSettings, ~Bilingual,
           TypeInv, FrontTypeOK, ShortcutInv, OwnRunInv, User
    PROVE  OwnRunInv'
<1>1. /\ reg = 1 /\ 1 \in Regs /\ hk \in [Regs -> Closures]
      /\ ~bilingual
  BY ControllerAssumption DEF ShortcutInv, OneClosure, FrontTypeOK, Regs, OwnRunInv
<1>2. CASE Press
  <2>1. /\ hk[1].state = "idle"
        /\ \E a : hk' = [hk EXCEPT ![1].state = "starting", ![1].at = a]
        /\ UNCHANGED <<jobs, bilingual>>
    BY <1>1, <1>2 DEF Press, PastPreflight
  <2>2. hk'[1].state = "starting"
    BY <1>1, <2>1 DEF Closures
  <2>3. \A j \in Slots : jobs[j].kind # "stop"
    BY <2>1 DEF ShortcutInv, ReleaseAwaited, ReleaseKinds
  <2> QED BY <2>1, <2>2, <2>3, OwnFree
<1>3. CASE Release
  <2>1. UNCHANGED <<held, bilingual>>
    BY <1>3 DEF Release, captureVars
  <2>2. CASE hk' = [hk EXCEPT ![1].pending = TRUE] /\ UNCHANGED jobs
    <3>1. hk'[1].state = hk[1].state /\ hk'[1].run = hk[1].run
      BY <1>1, <2>2 DEF Closures
    <3> QED BY <2>1, <2>2, <3>1 DEF OwnRunInv
  <2>3. CASE hk[1].state = "armed" /\ Releases(1, hk[1].run)
    <3> DEFINE run == hk[1].run
    <3>1. run \in RunIds \cup {NoRun} /\ run # NoRun /\ run = held
      BY <1>1, <2>3 DEF Closures, ShortcutInv, ShortcutHeld, OwnRunInv
    <3> QED BY <2>1, <2>3, <3>1, OwnRelease
  <2> QED BY <1>1, <1>3, <2>2, <2>3 DEF Release
<1>4. CASE Retry
  <2>1. activeRun' \in AnyRun
    BY <1>4, RetryIdType DEF AnyRun
  <2>2. PICK run \in AnyRun : Invokes("retry", 0, run)
    BY <1>4, <2>1 DEF Retry
  <2>3. \E j \in Slots : /\ \A i \in Slots \ {j} : jobs'[i] = jobs[i]
                         /\ jobs'[j].kind = "retry"
    BY <2>2, InvokesMoves
  <2>4. UNCHANGED <<hk, bilingual, held>>
    BY <1>4 DEF Retry, captureVars
  <2> QED BY <2>3, <2>4 DEF OwnRunInv
<1>5. CASE Cancel \/ ClearClicked \/ RefreshSetup \/ SettingsNotSaved
  BY <1>5 DEF Cancel, ClearClicked, RefreshSetup, SettingsNotSaved, backendVars,
     captureVars, OwnRunInv
<1>6. QED
  BY <1>2, <1>3, <1>4, <1>5 DEF User, SettingsSaved, BilingualChanges

\* Every step
LEMMA OwnStep ==
    ASSUME ~SavesSettings, ~Bilingual,
           TypeInv, FrontTypeOK, ShortcutInv, OwnRunInv, [Next]_vars
    PROVE  OwnRunInv'
<1>1. ASSUME UNCHANGED <<hk, held, jobs, bilingual>>
      PROVE  OwnRunInv'
  BY <1>1 DEF OwnRunInv
<1>2. CASE BackendStep /\ UNCHANGED frontVars
  <2>1. CASE Environment
    BY <1>1, <1>2, <2>1 DEF Environment, RecorderEnds, TrayClear, TtlPasses,
       StartInterview, EndInterview, captureVars, frontVars
  <2>2. ASSUME NEW j \in Slots, JobStep(j) PROVE OwnRunInv'
    BY <1>2, <2>2, JobProgress, OwnJob DEF frontVars
  <2> QED BY <1>2, <2>1, <2>2 DEF BackendStep
<1>3. ASSUME NEW r \in Regs, PressContinues(r) PROVE OwnRunInv'
  BY <1>3, OwnPress
<1>4. ASSUME NEW j \in Slots, ResultHandled(j) PROVE OwnRunInv'
  BY <1>4, OwnResult
<1>5. CASE ClearRuns \/ ClearReplied \/ Listener \/ UNCHANGED vars
  BY <1>1, <1>5 DEF ClearRuns, ClearContext, ClearReplied, Listener,
     StatusListener, ClearedListener, captureVars, vars, frontVars, backendVars
<1>6. CASE User
  BY <1>6, OwnUser
<1>7. QED
  BY <1>2, <1>3, <1>4, <1>5, <1>6 DEF Next

\* A stop never takes a recording another press made, while the capture has
\* one use (no bilingual session) and one shortcut (no settings saved).
THEOREM ReleaseStopsItsPress ==
    ASSUME ~SavesSettings, ~Bilingual
    PROVE  Spec => []ReleaseStopsOwnRun
<1>1. Init => OwnRunInv
  <2> SUFFICES ASSUME Init PROVE OwnRunInv
    OBVIOUS
  <2>1. hk[1] = Closure("idle")
    BY ControllerAssumption DEF Init, Regs
  <2>2. \A j \in Slots : jobs[j].kind = "none"
    BY DEF Init, BackendInit, FreeJob
  <2> QED BY <2>1, <2>2, ClosureType DEF Init, OwnRunInv
<1>2. /\ TypeInv /\ FrontTypeOK /\ ShortcutInv /\ OwnRunInv /\ [Next]_vars
      => OwnRunInv'
  BY OwnStep
<1>3. ShortcutInv /\ OwnRunInv => ReleaseStopsOwnRun
  BY DEF ShortcutInv, ReleaseAwaited, ReleaseKinds, OwnRunInv, ReleaseStopsOwnRun
<1>4. IInv => TypeInv
  BY DEF IInv
<1>5. QED
  BY <1>1, <1>2, <1>3, <1>4, ShortcutInvariant, PTL DEF Spec

----------------------------------------------------------------------------
(* The context keeps the order of the captures *)

\* What is in the window was captured before the run that is held, or being
\* analysed; and that one before the run held now.
OrderInv ==
    /\ Ascending(memo.entries)
    /\ held # NoRun => Below(memo.entries, held)
    /\ \A j \in Slots : At(j, "stop", BeforeCommit) =>
         /\ Below(memo.entries, jobs[j].run)
         /\ held # NoRun => jobs[j].run < held

\* At most one stop is in flight.
OneStop == \A i, j \in Slots : jobs[i].kind = "stop" /\ jobs[j].kind = "stop" => i = j

\* A step that commits nothing and takes no run
LEMMA OrderKeeps ==
    ASSUME OrderInv, memo'.entries \in {memo.entries, <<>>}, held' = held,
           \A j \in Slots : At(j, "stop", BeforeCommit)'
               => At(j, "stop", BeforeCommit) /\ jobs'[j].run = jobs[j].run
    PROVE  OrderInv'
<1>1. Ascending(<<>>) /\ \A n : Below(<<>>, n)
  BY DEF Ascending, Below, Range
<1>2. QED
  BY <1>1 DEF OrderInv

\* A command that goes on
LEMMA OrderJob ==
    ASSUME IInv, OneStop, OrderInv, NEW j \in Slots, JobStep(j)
    PROVE  OrderInv'
<1>1. Progress(j)
  BY JobProgress DEF IInv
<1>2. CASE /\ At(j, "stop", {"invoked"}) /\ held # NoRun
           /\ jobs'[j].run = held /\ held' = NoRun /\ memo' = memo
  <2>1. \A i \in Slots \ {j} : jobs'[i].kind # "stop"
    BY <1>1, <1>2 DEF OneStop, At, Progress
  <2> QED BY <1>2, <2>1 DEF OrderInv, At
<1>3. CASE CardCommitted(j)
  <2> DEFINE t == jobs[j].run
             old == memo.entries
             new == memo'.entries
  <2>1. At(j, "stop", {"llm"}) /\ UNCHANGED <<held, runSeq>>
    BY <1>3 DEF CardCommitted, captureVars
  <2>2. /\ t \in RunIds /\ t \in Texts /\ jobs[j].text = t
        /\ CardOf(j) \in Cards /\ memo \in Contexts
    BY <2>1, PipelineAssumption
    DEF IInv, TypeInv, BackendTypeOK, JobsReady, Ready, At, CardOf, Cards
  <2>3. new = Committed(memo, t).entries
    <3>1. Committed(memo, t) \in Contexts
      BY <2>2, CommittedType
    <3>2. memo' = WithCard(Committed(memo, t), CardOf(j))
      BY <1>3, <2>2 DEF CardCommitted
    <3> QED BY <2>2, <3>1, <3>2, WithCardType
  <2>4. /\ Below(old, t) /\ Ascending(old) /\ (held # NoRun => t < held)
        /\ t \notin Range(old) /\ IsInjective(old)
    BY <2>1 DEF OrderInv, At, BeforeCommit, IInv, CommitInv, HoldsPast, CommittedOnce
  <2>5. Ascending(new) /\ Range(new) \subseteq Range(old) \cup {t}
    BY <2>2, <2>3, <2>4, CommittedAscending, CommittedInjective
  <2>6. held # NoRun => Below(new, held)
    BY <2>4, <2>5 DEF OrderInv, Below
  <2>7. \A i \in Slots : ~At(i, "stop", BeforeCommit)'
    <3>1. jobs'[j].pc = "recording"
      BY <1>3, GoesMoves DEF CardCommitted, IInv, TypeInv, Moved, Pcs
    <3> QED BY <1>1, <2>1, <3>1 DEF OneStop, At, BeforeCommit, Progress
  <2> QED BY <2>1, <2>5, <2>6, <2>7 DEF OrderInv
<1>4. CASE /\ jobs'[j].run = jobs[j].run /\ held' = held
           /\ memo'.entries \in {memo.entries, <<>>}
           /\ jobs'[j].pc \in BeforeCommit => jobs[j].pc \in BeforeCommit
                                              \/ jobs[j].kind # "stop"
  BY <1>1, <1>4, OrderKeeps DEF Progress, At
<1>5. QED
  BY <1>1, <1>2, <1>3, <1>4 DEF Progress

\* A new recording comes after all others; whatever else a client does commits
\* nothing.
LEMMA OrderClient ==
    ASSUME IInv, OrderInv, ClientStep
    PROVE  OrderInv'
<1>0. BackendTypeOK /\ TypeInv
  BY DEF IInv, TypeInv
<1>1. ASSUME NEW o \in Nat, CaptureStart(o) PROVE OrderInv'
  <2>1. CASE CaptureStartOk(o)
    <3>1. /\ runSeq \in Nat /\ held' = runSeq + 1
          /\ UNCHANGED <<memo, jobs>>
      BY <1>0, <2>1, PipelineAssumption DEF CaptureStartOk, BackendTypeOK
    <3>2. \A t \in Range(memo.entries) : t \in RunIds /\ t <= runSeq
      BY <1>0, EntriesType DEF IInv, CommitInv, HoldsPast
    <3>3. Below(memo.entries, held')
      BY <3>1, <3>2 DEF Below, RunIds
    <3>4. \A j \in Slots : At(j, "stop", BeforeCommit)
              => jobs[j].run \in RunIds /\ jobs[j].run <= runSeq
      BY <1>0 DEF TypeInv, JobsReady, Ready, At, BeforeCommit, IInv, OwnerInv,
         RunsStarted
    <3>5. \A j \in Slots : At(j, "stop", BeforeCommit) => jobs[j].run < held'
      BY <3>1, <3>4 DEF RunIds
    <3> QED BY <3>1, <3>3, <3>5 DEF OrderInv, At
  <2>2. CASE CaptureStartAgain(o) \/ CaptureStartFails(o)
    BY <2>2, OrderKeeps DEF CaptureStartAgain, CaptureStartFails, captureVars, At
  <2> QED BY <1>1, <2>1, <2>2 DEF CaptureStart
<1>2. ASSUME NEW kind \in {"stop", "retry", "answer"}, NEW o \in Nat,
             NEW run \in AnyRun, Calls(kind, o, run)
      PROVE  OrderInv'
  <2>1. /\ \E j \in Slots :
              /\ \A i \in Slots \ {j} : jobs'[i] = jobs[i]
              /\ jobs'[j].pc = "invoked"
        /\ UNCHANGED <<captureVars, memo>>
    BY <1>0, <1>2, CallsMoves
  <2> QED BY <2>1, OrderKeeps DEF At, BeforeCommit, captureVars
<1>3. CASE ClearContext
  BY <1>3, OrderKeeps DEF ClearContext, Cleared, EmptyContext, captureVars, At
<1>4. CASE ClientReloads \/ ClientTakesReply \/ ClientTakesEvent
  BY <1>0, <1>4, UnexpiredEntries, OrderKeeps
  DEF ClientReloads, ClientTakesReply, ClientTakesEvent, captureVars, At
<1>5. ASSUME NEW j \in Slots, ClientTakesResult(j) PROVE OrderInv'
  <2>1. /\ \A i \in Slots \ {j} : jobs'[i] = jobs[i]
        /\ jobs'[j].pc \notin BeforeCommit
        /\ UNCHANGED <<captureVars, memo>>
    BY <1>0, <1>5, TakesResultMoves DEF BeforeCommit, FreeJob
  <2> QED BY <2>1, OrderKeeps DEF At, captureVars
<1>6. QED
  BY <1>1, <1>2, <1>3, <1>4, <1>5, CallsOfClient DEF ClientStep

LEMMA OrderStep ==
    ASSUME IInv, OneStop, OrderInv, [ClientNext]_backendVars
    PROVE  OrderInv'
<1>1. CASE Environment
  <2>1. memo'.entries \in {memo.entries, <<>>} /\ UNCHANGED <<held, jobs>>
    BY <1>1, UnexpiredEntries, AgedType
    DEF IInv, TypeInv, BackendTypeOK, Environment, RecorderEnds, TrayClear, Cleared,
        TtlPasses, StartInterview, EndInterview, captureVars
  <2> QED BY <2>1, OrderKeeps DEF At
<1>2. CASE UNCHANGED backendVars
  BY <1>2, OrderKeeps DEF backendVars, captureVars, At
<1>3. QED
  BY <1>1, <1>2, OrderJob, OrderClient DEF ClientNext, BackendStep

\* The context keeps what was said in the order in which it was spoken, however
\* many captures, retries, cancels and clears there are, as long as no saved
\* settings let a second shortcut capture while the first one's is analysed.
THEOREM ContextInCaptureOrder ==
    ASSUME ~SavesSettings
    PROVE  Spec => []MemoryInCaptureOrder
<1>1. Init => OrderInv
  <2> SUFFICES ASSUME Init PROVE OrderInv
    OBVIOUS
  <2>1. \A j \in Slots : jobs[j].kind = "none"
    BY DEF Init, BackendInit, FreeJob
  <2> QED
    BY <2>1 DEF Init, BackendInit, EmptyContext, OrderInv, Ascending, At
<1>2. ShortcutInv => OneStop
  BY DEF ShortcutInv, ReleaseAwaited, ReleaseKinds, OneStop
<1>3. IInv /\ FrontTypeOK /\ ShortcutInv /\ OrderInv /\ [Next]_vars => OrderInv'
  BY <1>2, NextIsClient, OrderStep
<1>4. OrderInv => MemoryInCaptureOrder
  BY DEF OrderInv, Ascending, MemoryInCaptureOrder
<1>5. QED
  BY <1>1, <1>3, <1>4, ShortcutInvariant, PTL DEF Spec

=============================================================================
