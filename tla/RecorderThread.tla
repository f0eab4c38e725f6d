---------------------------- MODULE RecorderThread ----------------------------
(***************************************************************************)
(* The recorder of one capture (audio.rs): capture_start waits for the     *)
(* thread to report that the device records, but not for ever; the thread  *)
(* polls the device until the capture is stopped or too long, and then a   *)
(* little longer, for the sound that is still on its way.                  *)
(*                                                                         *)
(* Time is counted in ticks.  A tick in which something is played is one   *)
(* piece of sound; it comes in, in order, at most Latency ticks after the  *)
(* tick began.  What a thread does between two looks at the clock takes no *)
(* time, but it may be held up for MaxLag ticks before each; reading the   *)
(* pieces that are there is one step, as it is faster than sound.          *)
(***************************************************************************)
EXTENDS Integers

CONSTANTS
    StartTimeout,  \* CAPTURE_START_TIMEOUT
    MaxCapture,    \* capture_max_seconds
    StopDrain,     \* CAPTURE_STOP_DRAIN
    Latency,       \* of the device
    MaxLag,        \* of a thread
    Horizon        \* bound: the ticks of a behaviour

ASSUME RecorderAssumption ==
    /\ StartTimeout \in Nat /\ MaxCapture \in Nat /\ StopDrain \in Nat
    /\ Latency \in Nat \ {0} /\ MaxLag \in Nat /\ Horizon \in Nat
    /\ Latency + MaxLag <= StopDrain + 1

VARIABLES
    now,
    lag,      \* the ticks since the thread's last step
    caller,   \* CaptureRun::start and stop
    cancel,   \* when the flag was set, or Never
    message,  \* in the channel ready: "none", "ok", "error"
    thread,   \* capture_loopback
    started,  \* when the device began to record, or Never
    stop_requested_at,
    sound,    \* the ticks since then in which something was played
    pcm       \* those the thread has read

callerVars == <<caller, cancel>>
threadVars == <<lag, message, thread, started, stop_requested_at, pcm>>
recorderVars == <<now, callerVars, threadVars, sound>>

Never == -1
Times == Nat \cup {Never}

RecorderTypeOK ==
    /\ now \in Nat /\ lag \in 0..MaxLag
    /\ caller \in {"waiting", "leaving", "failed", "running", "stopping", "joined"}
    /\ cancel \in Times /\ started \in Times /\ stop_requested_at \in Times
    /\ message \in {"none", "ok", "error"}
    /\ thread \in {"opening", "starting", "polling", "checking", "done", "failed"}
    /\ sound \subseteq Nat /\ pcm \subseteq sound

RecorderInit ==
    /\ now = 0 /\ lag = 0
    /\ caller = "waiting" /\ cancel = Never
    /\ message = "none" /\ thread = "opening"
    /\ started = Never /\ stop_requested_at = Never
    /\ sound = {} /\ pcm = {}

-----------------------------------------------------------------------------
(* CaptureRun::start, in the main thread, and stop, in the blocking pool *)

Cancels == cancel' = IF cancel = Never THEN now ELSE cancel

StartReturns ==
    /\ caller = "waiting" /\ message = "ok"
    /\ caller' = "running"
    /\ UNCHANGED <<now, cancel, threadVars, sound>>

StartFails ==
    /\ caller = "waiting" /\ message = "error"
    /\ Cancels
    /\ caller' = "failed"
    /\ UNCHANGED <<now, threadVars, sound>>

\* The flag is set while the channel still stands: the thread may report to it.
StartTimesOut ==
    /\ caller = "waiting" /\ message = "none" /\ now >= StartTimeout
    /\ Cancels
    /\ caller' = "leaving"
    /\ UNCHANGED <<now, threadVars, sound>>

DropReceiver ==
    /\ caller = "leaving"
    /\ caller' = "failed"
    /\ UNCHANGED <<now, cancel, threadVars, sound>>

Stop ==
    /\ caller = "running"
    /\ Cancels
    /\ caller' = "stopping"
    /\ UNCHANGED <<now, threadVars, sound>>

Join ==
    /\ caller = "stopping" /\ thread \in {"done", "failed"}
    /\ caller' = "joined"
    /\ UNCHANGED <<now, cancel, threadVars, sound>>

CallerNext ==
    StartReturns \/ StartFails \/ StartTimesOut \/ DropReceiver \/ Stop \/ Join

-----------------------------------------------------------------------------
(* The thread *)

OpenDevice ==
    /\ thread = "opening"
    /\ started' = now
    /\ thread' = "starting"
    /\ lag' = 0
    /\ UNCHANGED <<message, stop_requested_at, pcm>>

\* Nobody waits any more: the thread ends.
Listening == caller \in {"waiting", "leaving"}
ReportReady ==
    /\ thread = "starting"
    /\ IF Listening
       THEN thread' = "polling" /\ message' = "ok"
       ELSE thread' = "failed" /\ UNCHANGED message
    /\ lag' = 0
    /\ UNCHANGED <<started, stop_requested_at, pcm>>

\* COM or the device fails, or the format is not known: the channel holds one
\* message, a second one is dropped.
DeviceFails ==
    /\ thread \in {"opening", "starting", "polling"}
    /\ thread' = "failed"
    /\ message' = IF message = "none" THEN "error" ELSE message
    /\ lag' = 0
    /\ UNCHANGED <<started, stop_requested_at, pcm>>

TooLong == now >= started + MaxCapture

\* A bug of StopWanted: only the caller ends a capture.
StopWantedByCaller == cancel # Never

StopWanted == cancel # Never \/ TooLong

\* A bug of stop_drain_complete: what was read before the stop is all there is.
stop_drain_skipped(requested_at) == requested_at # Never

stop_drain_complete(requested_at) ==
    requested_at # Never /\ now >= requested_at + StopDrain

\* The loop ends, with an error if there was no sound at all.
LoopEnd(read) == IF read = {} THEN "failed" ELSE "done"

\* One round of the loop up to the packets read: with none there it ends or
\* sleeps, otherwise it looks at the clock again.
Poll ==
    /\ thread = "polling"
    /\ stop_requested_at' =
         IF stop_requested_at = Never /\ StopWanted THEN now ELSE stop_requested_at
    /\ \E end \in (now - Latency + 1)..now :
         pcm' = pcm \cup {t \in sound : t < end}
    /\ thread' = IF pcm' # pcm THEN "checking"
                 ELSE IF stop_drain_complete(stop_requested_at') THEN LoopEnd(pcm) ELSE "polling"
    /\ lag' = 0
    /\ UNCHANGED <<message, started>>

Check ==
    /\ thread = "checking"
    /\ thread' = IF stop_drain_complete(stop_requested_at) THEN LoopEnd(pcm) ELSE "polling"
    /\ lag' = 0
    /\ UNCHANGED <<message, started, stop_requested_at, pcm>>

ThreadNext ==
    /\ OpenDevice \/ ReportReady \/ DeviceFails \/ Poll \/ Check
    /\ UNCHANGED <<now, callerVars, sound>>

-----------------------------------------------------------------------------
Recording == thread \in {"starting", "polling", "checking"}

\* The opening of a device takes the time it takes.
Tick ==
    /\ now < Horizon
    /\ Recording => lag < MaxLag
    /\ now' = now + 1
    /\ lag' = IF Recording THEN lag + 1 ELSE lag
    /\ sound' \in IF Recording THEN {sound, sound \cup {now}} ELSE {sound}
    /\ UNCHANGED <<callerVars, message, thread, started, stop_requested_at, pcm>>

RecorderNext == CallerNext \/ ThreadNext \/ Tick

RecorderSpec == RecorderInit /\ [][RecorderNext]_recorderVars
-----------------------------------------------------------------------------
\* When the capture had to end: when it was stopped or had lasted too long,
\* whichever came first.
MaxEnd == started + MaxCapture
Due == IF cancel # Never /\ cancel < MaxEnd THEN cancel ELSE MaxEnd

(* The sound that was played before the capture had to end is in the samples
   stop returns: the drain waits for the words still on their way
   (stop_drain_complete, audio.rs:241). *)
TailIsKept ==
    caller = "joined" /\ thread = "done" => \A t \in sound : t < Due => t \in pcm

(* The system's sound is recorded no longer than the drain after the capture
   had to end, also when start has given up on a device that then opens after
   all, and when nobody ever stops (CAPTURE_START_TIMEOUT, audio.rs:189). *)
RecorderIsBounded ==
    LET end == IF Due < started THEN started ELSE Due
    IN  Recording => now <= end + StopDrain + 4 * MaxLag
===============================================================================
