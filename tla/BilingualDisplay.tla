-------------------------- MODULE BilingualDisplay --------------------------
(***************************************************************************)
(* What the window shows of a bilingual session: the commands the user     *)
(* calls through bilingualInterviewController.ts, and the events the       *)
(* backend of BilingualSession sends, handled in the order sent.           *)
(***************************************************************************)
EXTENDS BilingualSession, Sequences

VARIABLES
    inbox,  \* events and replies on their way to the window
    shown   \* the state of the window: its status, and whether a session runs

displayVars == <<bilingualVars, inbox, shown>>

DisplayInit ==
    /\ BilingualInit
    /\ inbox = <<>>
    /\ shown = [status |-> "idle", active |-> FALSE]

Sends(messages) == inbox' = inbox \o messages /\ UNCHANGED shown
Nothing == UNCHANGED <<inbox, shown>>

startSession(c) ==
    /\ start_bilingual_session(c)
    /\ shown' = [status |-> "starting", active |-> TRUE]
    /\ UNCHANGED inbox

stopSession(c) ==
    /\ stop_bilingual_session(c)
    /\ shown' = [shown EXCEPT !.status = "stopping"]
    /\ UNCHANGED inbox

Reply(ended) ==
    CASE ended.op = "stop" -> "stopped"
      [] ended.session = None -> "startFailed"
      [] OTHER -> "started"

\* The events and the replies of each step of the backend.
CommandStep(c) ==
    \/ NewSession(c) /\ Sends(<<"active">>)
    \/ EndStop(c) /\ Sends(<<"idle">>)
    \/ PutBack(c) /\ Sends(<<Reply(call[c])>>)
    \/ (\/ FailStart(c) \/ KeepSession(c) \/ SignalStop(c)
        \/ AwaitTask(c) \/ JoinRecorder(c)) /\ Nothing

\* The provider reports an error, and the stream goes on.  When it is not
\* recoverable, the window shows the session as over.
ProviderError(s) ==
    /\ stream[s] = "streaming" /\ inbox = <<>>
    /\ \E error \in {"error", "fatalError"} : Sends(<<error>>)
    /\ UNCHANGED bilingualVars

StreamStep(s) ==
    \/ Connect(s) /\ Sends(<<"active">>)
    \/ LoseConnection(s) /\ Sends(<<"reconnecting">>)
    \/ GiveUp(s) /\ Sends(<<"degraded", "error", "idle">>)
    \/ ProviderError(s)
    \/ (RecorderSteps(s) \/ DrainAudio(s) \/ NoticeStop(s) \/ EndBackoff(s)) /\ Nothing

\* A recoverable error counts as a reconnect; nothing listens to "idle".
Shown(message) ==
    CASE message \in {"active", "started"} -> [status |-> "active", active |-> TRUE]
      [] message \in {"reconnecting", "error"} -> [shown EXCEPT !.status = "reconnecting"]
      [] message = "degraded" -> [shown EXCEPT !.status = "degraded"]
      [] message \in {"fatalError", "startFailed"} -> [status |-> "degraded", active |-> FALSE]
      [] message = "stopped" -> [status |-> "idle", active |-> FALSE]
      [] message = "idle" -> shown

Listener ==
    /\ inbox # <<>>
    /\ shown' = Shown(Head(inbox))
    /\ inbox' = Tail(inbox)
    /\ UNCHANGED bilingualVars

DisplayNext ==
    \/ \E c \in Commands : startSession(c) \/ stopSession(c) \/ CommandStep(c)
    \/ \E s \in Sessions : StreamStep(s)
    \/ Listener

DisplaySpec == DisplayInit /\ [][DisplayNext]_displayVars
-----------------------------------------------------------------------------
\* When the retries of the session are exhausted, and every event about it has
\* been handled, the window shows it as degraded, as the status document says
\* (bilingual-implementation-status.md:96).
ExhaustedShowsDegraded ==
    (inbox = <<>> /\ \A c \in Commands : call[c] = NoCall) =>
        \A s \in Sessions :
            active = s /\ retries[s] > MaxWsRetries => shown.status = "degraded"
===============================================================================
