-------------------------- MODULE BilingualSession --------------------------
(***************************************************************************)
(* The bilingual sessions of the backend (bilingual/session.rs,            *)
(* audio_streaming.rs, commands/bilingual_experimental.rs).                *)
(*                                                                         *)
(* A session is a recorder thread that sends chunks of sound through a     *)
(* bounded channel to a stream task, which keeps a connection to the       *)
(* speech-to-text provider and may lose it so many times in all.  The      *)
(* state that owns the session is TAKEN out of its mutex by the commands   *)
(* start and stop, changed, and put back whatever the mutex holds by then; *)
(* any number of commands may be in flight.  What the stream hears is in   *)
(* LiveTranslation; the snapshot of the last session, which only the       *)
(* export reads, is left out.                                              *)
(***************************************************************************)
EXTENDS Integers, FiniteSets

CONSTANTS
    Sessions,      \* the sessions, in the order in which they start
    Commands,      \* the commands in flight
    MaxCalls,      \* bound: the commands ever called
    MaxWsRetries,  \* the connections a session may lose and go on
    ChannelSize,   \* of the recorder's channel, in chunks
    None

ASSUME SessionsAssumption ==
    /\ Sessions = 1..Cardinality(Sessions)
    /\ MaxCalls \in Nat /\ MaxWsRetries \in Nat /\ ChannelSize \in Nat \ {0}

VARIABLES
    active,    \* the session in the mutex, or None
    call,      \* the commands in flight, and the sessions they have taken
    calls,     \* how many were called
    stream,    \* the stream tasks
    retries,   \* the connections they lost
    recorder,  \* the recorder threads
    audio      \* the chunks in their channels

commandVars == <<active, call, calls>>
streamVars == <<stream, retries, recorder, audio>>
bilingualVars == <<commandVars, streamVars>>

NoCall == [op |-> "none", at |-> "idle", session |-> None]

BilingualInit ==
    /\ active = None
    /\ call = [c \in Commands |-> NoCall]
    /\ calls = 0
    /\ stream = [s \in Sessions |-> "none"]
    /\ retries = [s \in Sessions |-> 0]
    /\ recorder = [s \in Sessions |-> "none"]
    /\ audio = [s \in Sessions |-> 0]

Unborn(s) == stream[s] = "none"
Finished(s) == stream[s] = "ended"
Live(s) == ~Unborn(s) /\ ~Finished(s)
Working(s) == stream[s] \in {"connecting", "streaming"}

\* --- Who holds a session ------------------------------------------------

TakenBy(c, s) == call[c].op # "none" /\ call[c].session = s
Dropped(s) == ~Unborn(s) /\ active # s /\ \A c \in Commands : ~TakenBy(c, s)

\* A bug of StopSignal: the task waits for a message, not for the end of the
\* sender.
StopSignalSent(s) ==
    \E c \in Commands : TakenBy(c, s) /\ call[c].at \in {"awaiting", "joining"}

\* The sender of the stop signal is used, or dropped with the session.
StopSignal(s) ==
    \/ \E c \in Commands : TakenBy(c, s) /\ call[c].at \in {"awaiting", "joining"}
    \/ Dropped(s)
Cancelled(s) == \E c \in Commands : TakenBy(c, s) /\ call[c].at = "joining"

\* --- The recorder thread ------------------------------------------------

\* The sound of a chunk has come in; the loop looks at the flag only before.
FillChunk(s) ==
    /\ recorder[s] = "listening"
    /\ recorder' = [recorder EXCEPT ![s] = "sending"]
    /\ UNCHANGED <<commandVars, stream, retries, audio>>

\* The thread waits until the channel has room for the chunk.
SendChunk(s) ==
    /\ recorder[s] = "sending" /\ Live(s) /\ audio[s] < ChannelSize
    /\ audio' = [audio EXCEPT ![s] = @ + 1]
    /\ recorder' = [recorder EXCEPT ![s] = "listening"]
    /\ UNCHANGED <<commandVars, stream, retries>>

\* Told to stop, or refused by the channel of a task that has ended.
EndRecorder(s) ==
    /\ \/ recorder[s] = "listening" /\ Cancelled(s)
       \/ recorder[s] = "sending" /\ ~Live(s)
    /\ recorder' = [recorder EXCEPT ![s] = "ended"]
    /\ UNCHANGED <<commandVars, stream, retries, audio>>

\* The device fails, and nobody is told.
LoseDevice(s) ==
    /\ recorder[s] = "listening"
    /\ recorder' = [recorder EXCEPT ![s] = "ended"]
    /\ UNCHANGED <<commandVars, stream, retries, audio>>

\* --- The stream task ----------------------------------------------------

Connect(s) ==
    /\ stream[s] = "connecting"
    /\ stream' = [stream EXCEPT ![s] = "streaming"]
    /\ UNCHANGED <<commandVars, retries, recorder, audio>>

DrainAudio(s) ==
    /\ stream[s] = "streaming" /\ audio[s] > 0
    /\ audio' = [audio EXCEPT ![s] = 0]
    /\ UNCHANGED <<commandVars, stream, retries, recorder>>

\* With the task its end of the channel goes, and what waits in it.
EndTask(s) ==
    /\ stream' = [stream EXCEPT ![s] = "ended"]
    /\ audio' = [audio EXCEPT ![s] = 0]
    /\ UNCHANGED <<commandVars, recorder>>

\* A bug of NoticeStop: the task looks for a stop between two connections.
NoticeStopBetween(s) ==
    /\ stream[s] = "connecting" /\ StopSignal(s)
    /\ EndTask(s)
    /\ UNCHANGED retries

\* The stop is noticed in the select, so not during a backoff.
NoticeStop(s) ==
    /\ Working(s) /\ StopSignal(s)
    /\ EndTask(s)
    /\ UNCHANGED retries

\* The connection is refused, broken or closed: the stream has no other end.
LoseConnection(s) ==
    /\ Working(s) /\ retries[s] < MaxWsRetries
    /\ retries' = [retries EXCEPT ![s] = @ + 1]
    /\ stream' = [stream EXCEPT ![s] = "backoff"]
    /\ UNCHANGED <<commandVars, recorder, audio>>

GiveUp(s) ==
    /\ Working(s) /\ retries[s] = MaxWsRetries
    /\ retries' = [retries EXCEPT ![s] = @ + 1]
    /\ EndTask(s)

EndBackoff(s) ==
    /\ stream[s] = "backoff"
    /\ stream' = [stream EXCEPT ![s] = "connecting"]
    /\ UNCHANGED <<commandVars, retries, recorder, audio>>

\* --- The commands start and stop ----------------------------------------

\* The state moves out of the mutex, which holds the default one meanwhile.
Take(c, op) ==
    /\ call[c] = NoCall /\ calls < MaxCalls
    /\ calls' = calls + 1
    /\ call' = [call EXCEPT ![c] = [op |-> op, at |-> "taken", session |-> active]]
    /\ active' = None
    /\ UNCHANGED streamVars

start_bilingual_session(c) == Take(c, "start")
stop_bilingual_session(c) == Take(c, "stop")

Goes(c, at) ==
    /\ call' = [call EXCEPT ![c].at = at]
    /\ UNCHANGED <<active, calls, streamVars>>

HasSession(c) == call[c].at = "taken" /\ call[c].session # None
HasNone(c) == call[c].at = "taken" /\ call[c].session = None

\* Start finds a session that runs.
KeepSession(c) ==
    /\ HasSession(c) /\ call[c].op = "start" /\ ~Finished(call[c].session)
    /\ Goes(c, "changed")

\* Start ends one whose task has ended, stop ends any.
SignalStop(c) ==
    /\ HasSession(c)
    /\ call[c].op = "start" => Finished(call[c].session)
    /\ Goes(c, "awaiting")

AwaitTask(c) ==
    /\ call[c].at = "awaiting" /\ Finished(call[c].session)
    /\ Goes(c, "joining")

JoinRecorder(c) ==
    /\ call[c].at = "joining" /\ recorder[call[c].session] = "ended"
    /\ call' = [call EXCEPT ![c].session = None, ![c].at = "taken"]
    /\ UNCHANGED <<active, calls, streamVars>>

\* Start finds no key, no settings or no device.
FailStart(c) == HasNone(c) /\ call[c].op = "start" /\ Goes(c, "changed")

NewSession(c) ==
    /\ HasNone(c) /\ call[c].op = "start"
    /\ \E s \in Sessions :
        /\ Unborn(s) /\ \A r \in Sessions : Unborn(r) => s <= r
        /\ stream' = [stream EXCEPT ![s] = "connecting"]
        /\ recorder' = [recorder EXCEPT ![s] = "listening"]
        /\ call' = [call EXCEPT ![c].session = s, ![c].at = "changed"]
    /\ UNCHANGED <<active, calls, retries, audio>>

\* Stop has ended the session, or found none.
EndStop(c) == HasNone(c) /\ call[c].op = "stop" /\ Goes(c, "changed")

\* The state returns to the mutex; what that held meanwhile is dropped.
PutBack(c) ==
    /\ call[c].at = "changed"
    /\ active' = call[c].session
    /\ call' = [call EXCEPT ![c] = NoCall]
    /\ UNCHANGED <<calls, streamVars>>

\* --- The specification --------------------------------------------------

CallSteps(c) ==
    \/ KeepSession(c) \/ SignalStop(c) \/ AwaitTask(c) \/ JoinRecorder(c)
    \/ FailStart(c) \/ NewSession(c) \/ EndStop(c) \/ PutBack(c)

RecorderSteps(s) == FillChunk(s) \/ SendChunk(s) \/ EndRecorder(s) \/ LoseDevice(s)

TaskSteps(s) ==
    \/ Connect(s) \/ DrainAudio(s) \/ NoticeStop(s)
    \/ LoseConnection(s) \/ GiveUp(s) \/ EndBackoff(s)

BilingualNext ==
    \/ \E c \in Commands : start_bilingual_session(c) \/ stop_bilingual_session(c)
    \/ \E c \in Commands : CallSteps(c)
    \/ \E s \in Sessions : RecorderSteps(s) \/ TaskSteps(s)

\* The runtime goes on with every task that can: a command with its next step,
\* a task with a stop it was sent or a backoff that is over, and a recorder with
\* what ends it.  Nobody has to call, to speak, to connect or to fail.
BilingualFairness ==
    /\ \A c \in Commands : WF_bilingualVars(CallSteps(c))
    /\ \A s \in Sessions :
        /\ WF_bilingualVars(NoticeStop(s))
        /\ WF_bilingualVars(EndBackoff(s))
        /\ WF_bilingualVars(EndRecorder(s))
-----------------------------------------------------------------------------
\* Every command returns, also when the recorder waits for room in the channel,
\* the stream is reconnecting, or other commands have taken the state
\* (ActiveBilingualSession::stop awaits the task, then joins the thread).
CommandsReturn ==
    \A c \in Commands : call[c].op # "none" ~> call[c].op = "none"

\* A session whose handle is lost, because another command put back the state
\* without it, does not stream for ever: the dropped sender ends its task
\* (start_bilingual_session and stop_bilingual_session put back unconditionally).
LostSessionEnds ==
    \A s \in Sessions : Dropped(s) ~> Finished(s)
===============================================================================
