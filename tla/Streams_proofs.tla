---------------------------- MODULE Streams_proofs ---------------------------
(***************************************************************************)
(* What comes in pieces and must arrive whole: the samples of a capture,   *)
(* the utterances of a bilingual session, and the text of its answers.     *)
(*                                                                         *)
(* The recorder, for every timeout, limit, drain and latency.  What has    *)
(* been read is known as of the last look at the device, which is lag      *)
(* ticks ago while the thread is about to check the clock (Read); how late *)
(* the thread is, as of its last look at the flag and the clock (Prompt).  *)
(*                                                                         *)
(* The session, for every limit, window and number of utterances.  Its     *)
(* lists hold numbers of utterances that follow each other and end with    *)
(* the latest (Latest); the batcher keeps this of all that is on the way   *)
(* together (Way), which takes what FlattenSeq does to a list of batches   *)
(* that grows at one end and is cut at the other.                          *)
(*                                                                         *)
(* The answers, for any number of them and of sessions, and whatever the   *)
(* provider sends.  What the window lacks of an answer that it still shows *)
(* (Live) is on its way (Pending), in order and behind the name of its     *)
(* session (Follows), and of one answer alone unless the text is mixed     *)
(* (SingleInv).                                                            *)
(***************************************************************************)
EXTENDS RecorderThread, LiveTranslation, AnswerStream, SequenceInduction, SequenceTheorems, TLAPS

(* The recorder's thread *)

\* The device has been opened and the clock of the capture runs.
Opened == Recording \/ thread = "done"

\* No time lies ahead of the clock.
Clocks ==
    /\ cancel <= now /\ stop_requested_at <= now
    /\ \A t \in sound : t < now
    /\ Opened => started \in Nat /\ started <= now
    /\ thread \in {"opening", "starting"} => stop_requested_at = Never
    /\ thread = "opening" => sound = {}

\* What the capture's samples hold, as of the last look at the device
Read ==
    /\ Opened /\ stop_requested_at # Never => Due <= stop_requested_at
    /\ thread = "checking" => \A t \in sound : t + Latency <= now - lag => t \in pcm
    /\ thread = "done" => \A t \in sound : t < Due => t \in pcm

\* When the capture had to end, which is not before it has started
End == IF Due < started THEN started ELSE Due

\* How late the thread is, as of its last look at the flag and the clock
Prompt ==
    /\ thread = "starting" => now = started + lag
    /\ stop_requested_at = Never =>
         /\ thread = "polling" => now <= End + MaxLag + lag
         /\ thread = "checking" => now <= End + lag
    /\ stop_requested_at # Never =>
         /\ Recording => stop_requested_at <= End + 2 * MaxLag
         /\ thread = "polling" => now <= stop_requested_at + StopDrain + lag
         /\ thread = "checking" => now <= stop_requested_at + StopDrain + MaxLag + lag

\* The inductive invariant
RecorderInv == RecorderTypeOK /\ Clocks /\ Read /\ Prompt

\* It holds when a capture starts,
LEMMA RecorderStarts == RecorderInit => RecorderInv
BY RecorderAssumption
DEF RecorderInit, RecorderInv, RecorderTypeOK, Clocks, Read, Prompt, Opened,
    Recording, Never, Times

\* A caller that sets the flag moves the end of the capture to now, or leaves it.
LEMMA CallerKeeps == RecorderInv /\ CallerNext => RecorderInv'
<1> SUFFICES ASSUME RecorderInv, CallerNext PROVE RecorderInv'
  OBVIOUS
<1> USE RecorderAssumption DEF RecorderInv
<1>1. /\ UNCHANGED <<now, lag, message, thread, started, stop_requested_at, sound, pcm>>
      /\ cancel' = cancel \/ (cancel = Never /\ cancel' = now)
  BY DEF CallerNext, StartReturns, StartFails, StartTimesOut, DropReceiver, Stop, Join,
         Cancels, threadVars
<1>2. RecorderTypeOK'
  <2>1. caller' \in {"waiting", "leaving", "failed", "running", "stopping", "joined"}
    BY DEF CallerNext, StartReturns, StartFails, StartTimesOut, DropReceiver, Stop, Join,
           RecorderTypeOK
  <2> QED BY <1>1, <2>1 DEF RecorderTypeOK, Times
<1>3. Clocks'
  BY <1>1 DEF RecorderTypeOK, Clocks, Opened, Recording, Never, Times
<1>4. /\ Opened => Due \in Int /\ Due' \in Int /\ Due' <= Due
      /\ Opened => (Due' = Due \/ Due' = now)
      /\ (Opened <=> Opened') /\ (Recording <=> Recording')
  BY <1>1 DEF RecorderTypeOK, Clocks, Opened, Recording, Due, MaxEnd, Never, Times
<1>5. Read'
  BY <1>1, <1>4 DEF Read, RecorderTypeOK, Clocks, Opened, Recording, Times, Never
<1>6. Opened => End \in Int /\ End' \in Int /\ (End' = End \/ End' >= now)
  BY <1>1, <1>4 DEF End, RecorderTypeOK, Clocks, Opened
<1>7. Prompt'
  BY <1>1, <1>4, <1>6 DEF Prompt, RecorderTypeOK, Clocks, Opened, Recording, Times, Never
<1> QED BY <1>2, <1>3, <1>5, <1>7

\* Time takes the thread at most MaxLag ticks from its last step.
LEMMA TickKeeps == RecorderInv /\ Tick => RecorderInv'
<1> SUFFICES ASSUME RecorderInv, Tick PROVE RecorderInv'
  OBVIOUS
<1> USE RecorderAssumption DEF RecorderInv, Tick, callerVars
<1>1. RecorderTypeOK'
  BY DEF RecorderTypeOK, Recording, Times
<1>2. Clocks'
  BY DEF Clocks, RecorderTypeOK, Opened, Recording, Times, Never
<1>3. Due' = Due /\ End' = End
  BY DEF Due, End, MaxEnd
<1>4. Read'
  BY <1>3 DEF Read, Clocks, RecorderTypeOK, Opened, Recording
<1>5. Prompt'
  BY <1>3 DEF Prompt, Clocks, RecorderTypeOK, Recording, Due, End, MaxEnd, Never, Times
<1> QED BY <1>1, <1>2, <1>4, <1>5

\* The device is opened: nothing has been played to it yet.
LEMMA OpenKeeps == RecorderInv /\ OpenDevice /\ UNCHANGED <<now, callerVars, sound>> => RecorderInv'
BY RecorderAssumption
DEF RecorderInv, OpenDevice, callerVars, RecorderTypeOK, Clocks, Read, Prompt, Opened,
    Recording, Due, End, MaxEnd, Never, Times

\* Telling the caller takes no time.
LEMMA ReportKeeps == RecorderInv /\ ReportReady /\ UNCHANGED <<now, callerVars, sound>> => RecorderInv'
<1> SUFFICES ASSUME RecorderInv, ReportReady, UNCHANGED <<now, callerVars, sound>>
             PROVE  RecorderInv'
  OBVIOUS
<1> USE RecorderAssumption DEF RecorderInv, ReportReady, callerVars
<1>1. RecorderTypeOK' /\ Clocks'
  BY DEF RecorderTypeOK, Clocks, Opened, Recording, Times, Never
<1>2. Read'
  BY DEF Read, Clocks, RecorderTypeOK, Opened, Recording
<1>3. Prompt'
  BY DEF Prompt, Clocks, RecorderTypeOK, Recording, Opened, Due, End, MaxEnd, Never, Times
<1> QED BY <1>1, <1>2, <1>3

\* A device that fails leaves nothing to read.
LEMMA FailureKeeps == RecorderInv /\ DeviceFails /\ UNCHANGED <<now, callerVars, sound>> => RecorderInv'
BY RecorderAssumption
DEF RecorderInv, DeviceFails, callerVars, RecorderTypeOK, Clocks, Read, Prompt, Opened,
    Recording, Never, Times

\* A look at the flag and the clock finds the end of the capture if it has come.
LEMMA CheckKeeps == RecorderInv /\ Check /\ UNCHANGED <<now, callerVars, sound>> => RecorderInv'
<1> SUFFICES ASSUME RecorderInv, Check, UNCHANGED <<now, callerVars, sound>>
             PROVE  RecorderInv'
  OBVIOUS
<1> USE RecorderAssumption DEF RecorderInv, Check, callerVars
<1>1. RecorderTypeOK' /\ Clocks'
  BY DEF RecorderTypeOK, Clocks, Opened, Recording, Times, Never, LoopEnd
<1>2. Due' = Due /\ End' = End /\ Due \in Int /\ End \in Int
  BY DEF Due, End, MaxEnd, RecorderTypeOK, Clocks, Opened, Recording, Times, Never
<1>3. Read'
  <2>1. ASSUME thread' = "done", NEW t \in sound, t < Due PROVE t \in pcm
    \* the last look at the device was after the drain, less the lag
    <3>1. stop_requested_at # Never /\ now >= stop_requested_at + StopDrain
      BY <2>1 DEF stop_drain_complete, LoopEnd
    <3>2. t \in Int /\ t < stop_requested_at
      BY <1>2, <2>1, <3>1 DEF Read, Opened, Recording, RecorderTypeOK, Times
    <3>3. t + Latency <= now - lag
      BY <3>1, <3>2 DEF RecorderTypeOK, Times, Never
    <3> QED BY <3>3 DEF Read
  <2> QED BY <1>2, <2>1 DEF Read, Opened, Recording, LoopEnd
<1>4. Prompt'
  BY <1>2 DEF Prompt, RecorderTypeOK, Clocks, Recording, LoopEnd, stop_drain_complete, Never, Times
<1> QED BY <1>1, <1>3, <1>4

\* What was played before the stop has come in when the drain is over.
LEMMA DrainCoversLatency ==
    ASSUME NEW t \in Int, NEW requested_at \in Int, NEW n \in Int,
           t < requested_at, n >= requested_at + StopDrain
    PROVE  t + Latency <= n
BY RecorderAssumption

\* A look at the device reads all that is older than its latency.
LEMMA PollKeeps == RecorderInv /\ Poll /\ UNCHANGED <<now, callerVars, sound>> => RecorderInv'
<1> SUFFICES ASSUME RecorderInv, Poll, UNCHANGED <<now, callerVars, sound>>
             PROVE  RecorderInv'
  OBVIOUS
<1> USE RecorderAssumption DEF RecorderInv, callerVars
<1>1. PICK end \in (now - Latency + 1)..now : pcm' = pcm \cup {t \in sound : t < end}
  BY DEF Poll
<1>2. RecorderTypeOK' /\ Clocks'
  <2>1. pcm' \subseteq sound
    BY <1>1 DEF RecorderTypeOK
  <2>2. /\ stop_requested_at' \in Times /\ stop_requested_at' <= now
        /\ thread' \in {"polling", "checking", "done", "failed"} /\ lag' = 0
    BY DEF Poll, RecorderTypeOK, Clocks, Times, Never, LoopEnd
  <2> QED BY <2>1, <2>2 DEF Poll, RecorderTypeOK, Clocks, Opened, Recording
<1>3. Due' = Due /\ End' = End /\ Due \in Int /\ End \in Int
  BY DEF Poll, Due, End, MaxEnd, RecorderTypeOK, Clocks, Opened, Recording, Times, Never
<1>4. \A t \in sound : t + Latency <= now => t \in pcm'
  BY <1>1 DEF RecorderTypeOK
<1>5. Read'
  <2>1. stop_requested_at' # Never => Due <= stop_requested_at'
    BY <1>3 DEF Poll, Read, Opened, Recording, StopWanted, TooLong, Due, MaxEnd, Clocks,
                RecorderTypeOK, Times
  <2>2. ASSUME thread' = "done", NEW t \in sound, t < Due PROVE t \in pcm'
    <3>1. stop_requested_at' # Never /\ now >= stop_requested_at' + StopDrain
      BY <2>2 DEF Poll, stop_drain_complete, LoopEnd
    <3>2. t \in Int /\ stop_requested_at' \in Int /\ t < stop_requested_at'
      BY <1>2, <1>3, <2>1, <2>2, <3>1 DEF RecorderTypeOK, Times, Never
    <3>3. now \in Nat
      BY DEF RecorderTypeOK
    <3>4. t + Latency <= now
      BY ONLY <3>1, <3>2, <3>3, DrainCoversLatency
    <3> QED BY <1>4, <3>4
  <2>3. thread' = "checking" => \A t \in sound : t + Latency <= now - lag' => t \in pcm'
    BY <1>4 DEF Poll, RecorderTypeOK
  <2> QED BY <1>3, <2>1, <2>2, <2>3 DEF Read, Poll, LoopEnd
<1>6. Prompt'
  <2>1. lag' = 0 /\ lag <= MaxLag /\ now \in Nat /\ thread' # "starting"
    BY DEF Poll, RecorderTypeOK, LoopEnd
  <2>2. CASE stop_requested_at = Never
    <3>1. now <= End + MaxLag + lag
      BY <2>2 DEF Poll, Prompt
    \* without a wish to stop, now is before the end
    <3>2. stop_requested_at' = Never => now <= End
      BY <1>3, <2>2 DEF Poll, StopWanted, TooLong, End, Due, MaxEnd, Clocks, RecorderTypeOK,
                  Recording, Opened, Never
    <3>3. stop_requested_at' # Never => stop_requested_at' = now
      BY <2>2 DEF Poll
    <3> QED BY <1>3, <2>1, <3>1, <3>2, <3>3 DEF Prompt, RecorderTypeOK, Recording, LoopEnd
  <2>3. CASE stop_requested_at # Never
    <3>1. stop_requested_at' = stop_requested_at
      BY <2>3 DEF Poll
    <3> QED BY <1>3, <2>1, <2>3, <3>1
            DEF Poll, Prompt, RecorderTypeOK, Recording, LoopEnd, stop_drain_complete, Times, Never
  <2> QED BY <2>2, <2>3
<1> QED BY <1>2, <1>5, <1>6

\* so every step keeps it, and it always holds.
LEMMA RecorderInvariant == RecorderSpec => []RecorderInv
<1>1. RecorderInv /\ [RecorderNext]_recorderVars => RecorderInv'
  <2> SUFFICES ASSUME RecorderInv, [RecorderNext]_recorderVars PROVE RecorderInv'
    OBVIOUS
  <2>1. CASE CallerNext
    BY <2>1, CallerKeeps
  <2>2. CASE ThreadNext
    BY <2>2, OpenKeeps, ReportKeeps, FailureKeeps, PollKeeps, CheckKeeps DEF ThreadNext
  <2>3. CASE Tick
    BY <2>3, TickKeeps
  <2>4. CASE UNCHANGED recorderVars
    BY <2>4 DEF recorderVars, callerVars, threadVars, RecorderInv, RecorderTypeOK, Clocks,
                Read, Prompt, Opened, Recording, Due, End, MaxEnd
  <2> QED BY <2>1, <2>2, <2>3, <2>4 DEF RecorderNext
<1> QED BY <1>1, RecorderStarts, PTL DEF RecorderSpec

\* The samples of a capture that was stopped hold all that was played before it
\* had to end, whatever the latency and the lag that the drain covers
\* (stop_drain_complete, audio.rs:241).
THEOREM TailKept == RecorderSpec => []TailIsKept
<1>1. RecorderInv => TailIsKept
  BY DEF RecorderInv, Read, TailIsKept
<1> QED BY <1>1, RecorderInvariant, PTL

\* The device never records longer than the drain after the capture had to end,
\* save for the thread's own lag, also for a caller that gave up or never stops
\* (audio.rs:34, audio.rs:189).
THEOREM RecorderBounded == RecorderSpec => []RecorderIsBounded
<1>1. RecorderInv => RecorderIsBounded
  <2> SUFFICES ASSUME RecorderInv, Recording PROVE now <= End + StopDrain + 4 * MaxLag
    BY DEF RecorderIsBounded, End
  <2> USE RecorderAssumption DEF RecorderInv
  <2>1. End \in Int /\ End >= started /\ lag <= MaxLag
    BY DEF End, Due, MaxEnd, RecorderTypeOK, Clocks, Opened, Recording, Times, Never
  <2> QED BY <2>1 DEF Prompt, Clocks, RecorderTypeOK, Recording, Times, Never
<1> QED BY <1>1, RecorderInvariant, PTL

------------------------------------------------------------------------------
(* Concatenation *)

\* Concatenation by a name that the provers open only where they are told to
Joined(u, v) == u \o v

\* What is known of it: it is a sequence of the same elements,
LEMMA JoinedType ==
    ASSUME NEW S, NEW u \in Seq(S), NEW v \in Seq(S)
    PROVE  Joined(u, v) \in Seq(S)
BY ConcatProperties DEF Joined

\* the empty sequence adds nothing,
LEMMA JoinedEmpty ==
    ASSUME NEW S, NEW u \in Seq(S)
    PROVE  Joined(<<>>, u) = u /\ Joined(u, <<>>) = u
BY ConcatEmptySeq DEF Joined

\* and it is associative.
LEMMA JoinedAgain ==
    ASSUME NEW S, NEW u \in Seq(S), NEW v \in Seq(S), NEW w \in Seq(S)
    PROVE  Joined(Joined(u, v), w) = Joined(u, Joined(v, w))
BY ConcatAssociative DEF Joined

\* The partial concatenations of a sequence of sequences
Joins(f, s, S) ==
    /\ f \in [0..Len(s) -> Seq(S)] /\ f[0] = <<>>
    /\ \A i \in 1..Len(s) : f[i] = Joined(f[i - 1], s[i])

\* FlattenSeq is the last of them.
LEMMA FlattenJoins ==
    ASSUME NEW S, NEW s \in Seq(Seq(S))
    PROVE  \E f : Joins(f, s, S) /\ FlattenSeq(s) = f[Len(s)]
<1> DEFINE n == Len(s)
           join == [i \in 1..n |-> [v \in Seq(S) |-> Joined(v, s[i])]]
           Body(f) == [i \in 1..n |-> IF i = 1 THEN s[i] ELSE Joined(f[i - 1], s[i])]
           flatten == CHOOSE f : f = Body(f)
<1>1. n \in Nat /\ \A i \in 1..n : s[i] \in Seq(S)
  OBVIOUS
<1>2. <<>> \in Seq(S) /\ join \in [1..n -> [Seq(S) -> Seq(S)]]
  <2>1. \A i \in 1..n, v \in Seq(S) : Joined(v, s[i]) \in Seq(S)
    BY <1>1, JoinedType
  <2>2. \A i \in 1..n : [v \in Seq(S) |-> Joined(v, s[i])] \in [Seq(S) -> Seq(S)]
    <3> HIDE DEF n
    <3> QED BY <2>1
  <2> HIDE DEF n
  <2> QED BY <2>2, EmptySeq
<1>3. PICK g : Builds(g, n, Seq(S), <<>>, join)
  <2> HIDE DEF join, n
  <2> QED BY <1>1, <1>2, PrefixRecursion
<1>4. g \in [0..n -> Seq(S)] /\ g[0] = <<>> /\ \A i \in 1..n : g[i] = Joined(g[i - 1], s[i])
  <2>1. g \in [0..n -> Seq(S)] /\ g[0] = <<>> /\ \A i \in 1..n : g[i] = join[i][g[i - 1]]
    <3> HIDE DEF join, n
    <3> QED BY <1>3 DEF Builds
  <2>2. \A i \in 1..n, v \in Seq(S) : join[i][v] = Joined(v, s[i])
    <3> QED OBVIOUS
  <2>3. \A i \in 1..n : i - 1 \in 0..n
    BY <1>1
  <2> HIDE DEF join
  <2> QED BY <2>1, <2>2, <2>3
<1>5. n > 0 => g[1] = s[1]
  <2>1. n > 0 => 1 \in 1..n /\ s[1] \in Seq(S)
    BY <1>1
  <2>2. n > 0 => g[1] = Joined(g[1 - 1], s[1])
    BY <1>4, <2>1
  <2>3. n > 0 => Joined(<<>>, s[1]) = s[1]
    BY <2>1, JoinedEmpty
  <2>4. 1 - 1 = 0 /\ g[0] = <<>>
    BY <1>4
  <2> QED BY <2>2, <2>3, <2>4
<1> HIDE DEF join
<1>6. n > 0 => flatten = Body(flatten)
  <2> DEFINE h == [i \in 1..n |-> g[i]]
  <2>1. \A i \in 1..n : i # 1 => i - 1 \in 1..n
    BY <1>1
  <2>2. \A i \in 1..n : i # 1 => h[i] = Joined(h[i - 1], s[i])
    <3> HIDE DEF n
    <3> QED BY <1>4, <2>1
  <2>3. \A i \in 1..n : i = 1 => h[i] = s[i]
    <3>1. \A i \in 1..n : i = 1 => n > 0
      BY <1>1
    <3> HIDE DEF n
    <3> QED BY <1>5, <3>1
  <2>4. h = Body(h)
    <3>1. h = [i \in 1..n |-> h[i]] /\ \A i \in 1..n : h[i] = IF i = 1 THEN s[i] ELSE Joined(h[i - 1], s[i])
      <4> HIDE DEF n
      <4> QED BY <2>2, <2>3
    <3> HIDE DEF n, h
    <3> QED BY <3>1
  <2> HIDE DEF Body
  <2> QED BY <2>4
<1>7. n > 0 => FlattenSeq(s) = flatten[n]
  BY DEF FlattenSeq, Joined
<1>8. n > 0 => \A i \in 1..n : flatten[i] = IF i = 1 THEN s[i] ELSE Joined(flatten[i - 1], s[i])
  <2> HIDE DEF flatten
  <2> QED BY <1>6
<1> HIDE DEF flatten, Body
<1> DEFINE T == {i \in 0..n : i > 0 => flatten[i] = g[i]}
<1>9. 0 \in T
  BY <1>1
<1>10. ASSUME NEW i \in 1..n, i - 1 \in T PROVE i \in T
  <2>1. CASE i = 1
    BY <1>1, <1>5, <1>8, <2>1
  <2>2. CASE i # 1
    <3>1. i - 1 > 0 /\ flatten[i - 1] = g[i - 1] /\ n > 0
      BY <1>1, <1>10, <2>2
    <3>2. flatten[i] = Joined(flatten[i - 1], s[i])
      BY <1>8, <2>2, <3>1
    <3>3. g[i] = Joined(g[i - 1], s[i])
      BY <1>4
    <3>4. i \in 0..n
      BY <1>1
    <3> QED BY <3>1, <3>2, <3>3, <3>4
  <2> QED BY <2>1, <2>2
<1>11. 0..n \subseteq T
  <2> HIDE DEF T, n
  <2> QED BY <1>1, <1>9, <1>10, UpTo
<1>12. FlattenSeq(s) = g[n]
  <2>1. CASE n = 0
    <3>1. s = <<>> /\ FlattenSeq(s) = s
      BY <2>1 DEF FlattenSeq
    <3> QED BY <1>4, <2>1, <3>1
  <2>2. CASE n > 0
    <3>1. n \in T
      <4> HIDE DEF T
      <4> QED BY <1>1, <1>11
    <3> QED BY <1>7, <2>2, <3>1
  <2> QED BY <1>1, <2>1, <2>2
<1>13. Joins(g, s, S)
  BY <1>4 DEF Joins
<1> QED
  BY <1>12, <1>13

\* What is flattened is a sequence of the elements,
LEMMA FlattenType ==
    ASSUME NEW S, NEW s \in Seq(Seq(S))
    PROVE  FlattenSeq(s) \in Seq(S)
<1>1. PICK f : Joins(f, s, S) /\ FlattenSeq(s) = f[Len(s)]
  BY FlattenJoins
<1>2. Len(s) \in 0..Len(s)
  OBVIOUS
<1> QED BY <1>1, <1>2 DEF Joins

\* nothing of nothing,
LEMMA FlattenEmpty == FlattenSeq(<<>>) = <<>>
BY DEF FlattenSeq

\* one part more if one part is added,
LEMMA FlattenAppend ==
    ASSUME NEW S, NEW s \in Seq(Seq(S)), NEW b \in Seq(S)
    PROVE  FlattenSeq(Append(s, b)) = Joined(FlattenSeq(s), b)
<1> DEFINE a == Append(s, b)
           n == Len(s)
<1>1. /\ n \in Nat /\ a \in Seq(Seq(S)) /\ Len(a) = n + 1 /\ a[n + 1] = b
      /\ \A i \in 1..n : a[i] = s[i]
  OBVIOUS
<1>2. PICK f : Joins(f, s, S) /\ FlattenSeq(s) = f[n]
  BY FlattenJoins
<1> HIDE DEF a
<1>3. PICK g : Joins(g, a, S) /\ FlattenSeq(a) = g[n + 1]
  BY <1>1, FlattenJoins
<1>4. /\ f[0] = <<>> /\ \A i \in 1..n : f[i] = Joined(f[i - 1], s[i])
      /\ g[0] = <<>> /\ \A i \in 1..(n + 1) : g[i] = Joined(g[i - 1], a[i])
  BY <1>1, <1>2, <1>3 DEF Joins
<1> HIDE DEF n
<1> DEFINE T == {i \in 0..n : f[i] = g[i]}
<1>5. 0 \in T
  BY <1>1, <1>4
<1>6. ASSUME NEW i \in 1..n, i - 1 \in T PROVE i \in T
  <2>1. i \in 1..(n + 1) /\ i \in 0..n /\ f[i - 1] = g[i - 1]
    BY <1>1, <1>6
  <2> QED BY <1>1, <1>4, <2>1
<1>7. 0..n \subseteq T
  <2> HIDE DEF T
  <2> QED BY <1>1, <1>5, <1>6, UpTo
<1>8. f[n] = g[n] /\ n + 1 \in 1..(n + 1) /\ n + 1 - 1 = n
  BY <1>1, <1>7
<1>9. g[n + 1] = Joined(g[n], a[n + 1])
  <2>1. g[n + 1] = Joined(g[n + 1 - 1], a[n + 1])
    <3>1. \A i \in 1..(n + 1) : g[i] = Joined(g[i - 1], a[i])
      BY <1>4
    <3> QED BY <1>1, <1>8, <3>1
  <2> QED BY <1>8, <2>1
<1>10. FlattenSeq(a) = Joined(FlattenSeq(s), b)
  BY <1>1, <1>2, <1>3, <1>8, <1>9
<1> QED
  BY <1>10 DEF a

\* and one part less if the first is dropped.
LEMMA FlattenTail ==
    ASSUME NEW S, NEW s \in Seq(Seq(S)), s # <<>>
    PROVE  FlattenSeq(s) = Joined(Head(s), FlattenSeq(Tail(s)))
<1> DEFINE t == Tail(s)
           n == Len(t)
           h == Head(s)
<1>1. /\ n \in Nat /\ t \in Seq(Seq(S)) /\ Len(s) = n + 1 /\ h \in Seq(S) /\ s[1] = h
      /\ Len(t) = n /\ \A i \in 1..n : t[i] = s[i + 1]
  OBVIOUS
<1>2. PICK f : Joins(f, s, S) /\ FlattenSeq(s) = f[n + 1]
  BY <1>1, FlattenJoins
<1> HIDE DEF t, h
<1>3. PICK g : Joins(g, t, S) /\ FlattenSeq(t) = g[n]
  BY <1>1, FlattenJoins
<1>4. /\ f[0] = <<>> /\ \A i \in 1..(n + 1) : f[i] = Joined(f[i - 1], s[i])
      /\ g[0] = <<>> /\ \A i \in 1..n : g[i] = Joined(g[i - 1], t[i])
      /\ g \in [0..n -> Seq(S)]
  BY <1>1, <1>2, <1>3 DEF Joins
<1> HIDE DEF n
<1> DEFINE T == {i \in 0..n : f[i + 1] = Joined(h, g[i])}
<1>5. 0 \in T
  <2>1. 1 \in 1..(n + 1) /\ 1 - 1 = 0 /\ 0 + 1 = 1
    BY <1>1
  <2>2. f[1] = Joined(f[1 - 1], s[1])
    BY <1>4, <2>1
  <2>3. Joined(<<>>, h) = h /\ Joined(h, <<>>) = h
    BY <1>1, JoinedEmpty
  <2>4. 0 \in 0..n /\ g[0] = <<>>
    BY <1>1, <1>4
  <2> QED BY <1>1, <1>4, <2>1, <2>2, <2>3, <2>4
<1>6. ASSUME NEW i \in 1..n, i - 1 \in T PROVE i \in T
  <2>1. /\ i + 1 \in 1..(n + 1) /\ i + 1 - 1 = i /\ i - 1 + 1 = i /\ i - 1 \in 0..n /\ i \in 0..n
    BY <1>1
  <2>2. f[i] = Joined(h, g[i - 1])
    BY <1>6, <2>1
  <2>3. f[i + 1] = Joined(f[i], t[i]) /\ g[i] = Joined(g[i - 1], t[i])
    <3>1. f[i + 1] = Joined(f[i + 1 - 1], s[i + 1])
      BY <1>4, <2>1
    <3>2. t[i] = s[i + 1] /\ g[i] = Joined(g[i - 1], t[i])
      BY <1>1, <1>4
    <3> QED BY <2>1, <3>1, <3>2
  <2>4. g[i - 1] \in Seq(S) /\ t[i] \in Seq(S)
    <3>1. g[i - 1] \in Seq(S)
      BY <1>4, <2>1
    <3>2. t[i] \in Seq(S)
      BY <1>1
    <3> QED BY <3>1, <3>2
  <2>5. Joined(Joined(h, g[i - 1]), t[i]) = Joined(h, Joined(g[i - 1], t[i]))
    BY <1>1, <2>4, JoinedAgain
  <2> QED BY <2>1, <2>2, <2>3, <2>5
<1>7. 0..n \subseteq T
  <2> HIDE DEF T
  <2> QED BY <1>1, <1>5, <1>6, UpTo
<1>8. f[n + 1] = Joined(h, g[n])
  BY <1>1, <1>7
<1> QED
  BY <1>2, <1>3, <1>8 DEF t, h

\* An element added is a part added,
LEMMA AppendJoins ==
    ASSUME NEW S, NEW u \in Seq(S), NEW x \in S
    PROVE  Append(u, x) = Joined(u, <<x>>) /\ <<x>> \in Seq(S)
BY DEF Joined

\* and the first one is a part of its own.
LEMMA HeadJoins ==
    ASSUME NEW S, NEW u \in Seq(S), u # <<>>
    PROVE  /\ Joined(<<Head(u)>>, Tail(u)) = u
           /\ Head(u) \in S /\ Tail(u) \in Seq(S)
BY DEF Joined

----------------------------------------------------------------------------

\* The latest numbers up to h
Latest(q, h) ==
    /\ q \in Seq(Nat) /\ Len(q) <= h
    /\ \A i \in 1..Len(q) : q[i] = h - Len(q) + i

\* With the next number they are the latest up to that,
LEMMA LatestNext ==
    ASSUME NEW h \in Nat, NEW q, Latest(q, h)
    PROVE  Latest(Append(q, h + 1), h + 1)
<1> DEFINE a == Append(q, h + 1)
<1>1. /\ q \in Seq(Nat) /\ Len(q) \in Nat /\ Len(q) <= h
      /\ \A i \in 1..Len(q) : q[i] = h - Len(q) + i
  BY DEF Latest
<1>2. /\ a \in Seq(Nat) /\ Len(a) = Len(q) + 1 /\ a[Len(q) + 1] = h + 1
      /\ \A i \in 1..Len(q) : a[i] = q[i]
  BY <1>1
<1> HIDE DEF a
<1>3. ASSUME NEW i \in 1..Len(a) PROVE a[i] = h + 1 - Len(a) + i
  <2>1. CASE i = Len(q) + 1
    BY <1>1, <1>2, <2>1
  <2>2. CASE i \in 1..Len(q)
    <3>1. a[i] = q[i] /\ q[i] = h - Len(q) + i
      BY <1>1, <1>2, <2>2
    <3> QED BY <1>1, <1>2, <2>2, <3>1
  <2> QED BY <1>1, <1>2, <2>1, <2>2
<1> QED
  BY <1>1, <1>2, <1>3 DEF Latest, a

\* a suffix of them is again the latest,
LEMMA LatestFrom ==
    ASSUME NEW h \in Nat, NEW q, Latest(q, h), NEW k \in 1..Len(q)
    PROVE  /\ Latest(SubSeq(q, k, Len(q)), h)
           /\ Len(SubSeq(q, k, Len(q))) = Len(q) - k + 1
<1> DEFINE s == SubSeq(q, k, Len(q))
<1>1. /\ q \in Seq(Nat) /\ Len(q) \in Nat /\ Len(q) <= h
      /\ \A i \in 1..Len(q) : q[i] = h - Len(q) + i
  BY DEF Latest
<1>2. /\ s \in Seq(Nat) /\ Len(s) = Len(q) - k + 1
      /\ \A i \in 1..Len(s) : s[i] = q[k + i - 1]
  BY <1>1
<1> HIDE DEF s
<1>3. ASSUME NEW i \in 1..Len(s) PROVE s[i] = h - Len(s) + i
  <2>1. k + i - 1 \in 1..Len(q)
    BY <1>1, <1>2
  <2>2. q[k + i - 1] = h - Len(q) + (k + i - 1) /\ s[i] = q[k + i - 1]
    BY <1>1, <1>2, <2>1
  <2> QED BY <1>1, <1>2, <2>2
<1> QED
  BY <1>1, <1>2, <1>3 DEF Latest, s

\* also when it is a part,
LEMMA LatestPart ==
    ASSUME NEW h \in Nat, NEW u \in Seq(Nat), NEW v \in Seq(Nat), Latest(Joined(u, v), h)
    PROVE  Latest(v, h)
<1> DEFINE j == Joined(u, v)
<1>1. /\ Len(j) = Len(u) + Len(v) /\ Len(u) \in Nat /\ Len(v) \in Nat
      /\ \A i \in 1..Len(v) : j[Len(u) + i] = v[i]
  BY DEF Joined
<1>2. Len(j) <= h /\ \A i \in 1..Len(j) : j[i] = h - Len(j) + i
  BY DEF Latest
<1> HIDE DEF j
<1>3. ASSUME NEW i \in 1..Len(v) PROVE v[i] = h - Len(v) + i
  <2>1. Len(u) + i \in 1..Len(j)
    BY <1>1
  <2>2. j[Len(u) + i] = h - Len(j) + (Len(u) + i)
    BY <1>2, <2>1
  <2> QED BY <1>1, <2>2
<1> QED
  BY <1>1, <1>2, <1>3 DEF Latest

\* they follow each other without a gap, and end the numbers up to h.
LEMMA LatestIs ==
    ASSUME NEW h \in Nat, NEW q, Latest(q, h)
    PROVE  /\ q \in Seq(1..h) /\ q = Run(h - Len(q) + 1, Len(q))
           /\ q # <<>> => Head(q) = h - Len(q) + 1 /\ Last(q) = h /\ Len(q) \in 1..h
           /\ IsSuffix(q, [i \in 1..h |-> i])
<1> DEFINE n == Len(q)
           all == [i \in 1..h |-> i]
<1>1. /\ q \in Seq(Nat) /\ n \in Nat /\ n <= h /\ DOMAIN q = 1..n
      /\ \A i \in 1..n : q[i] = h - n + i
  BY DEF Latest
<1>2. q = [i \in 1..n |-> q[i]]
  BY <1>1
<1> HIDE DEF n
<1>3. \A i \in 1..n : q[i] \in 1..h
  BY <1>1
<1>4. q \in Seq(1..h)
  BY <1>1, <1>2, <1>3
<1>5. q = Run(h - n + 1, n)
  <2>1. \A i \in 1..n : h - n + i = h - n + 1 + i - 1
    BY <1>1
  <2> QED BY <1>1, <1>2, <2>1 DEF Run
<1>6. ASSUME q # <<>> PROVE Head(q) = h - n + 1 /\ Last(q) = h /\ n \in 1..h
  <2>1. n \in 1..h /\ 1 \in 1..n
    <3>1. n # 0
      BY <1>1, <1>6, EmptySeq DEF n
    <3> QED BY <1>1, <3>1
  <2>2. Head(q) = q[1] /\ Last(q) = q[n]
    BY <1>1, <1>6 DEF Last, n
  <2> QED BY <1>1, <2>1, <2>2
<1>7. IsSuffix(q, all)
  <2> DEFINE r == Reverse(q)
             t == Reverse(all)
  <2>1. all \in Seq(Nat) /\ Len(all) = h /\ \A i \in 1..h : all[i] = i
    OBVIOUS
  <2>2. r = [i \in 1..n |-> q[n - i + 1]] /\ t = [i \in 1..h |-> all[h - i + 1]]
    <3> HIDE DEF all
    <3> QED BY <2>1 DEF Reverse, n
  <2> HIDE DEF all, r, t
  <2>3. \A i \in 1..n : r[i] = h - i + 1
    BY <1>1, <2>2
  <2>4. \A i \in 1..h : t[i] = h - i + 1
    BY <2>1, <2>2
  <2>5. r \in Seq(Nat) /\ Len(r) = n /\ t \in Seq(Nat) /\ Len(t) = h
    <3>1. \A i \in 1..n : r[i] \in Nat
      BY <1>1, <2>3
    <3>2. \A i \in 1..h : t[i] \in Nat
      BY <2>4
    <3>3. r \in [1..n -> Nat]
      BY <2>2, <3>1
    <3>4. t \in [1..h -> Nat]
      BY <2>2, <3>2
    <3> QED BY <1>1, <3>3, <3>4
  <2>6. SubSeq(r, 1, n) = SubSeq(t, 1, n)
    <3>1. \A i \in 1..n : r[i] = t[i]
      BY <1>1, <2>3, <2>4
    <3>2. SubSeq(r, 1, n) = r
      BY <2>5, SubSeqFull
    <3>3. \A i \in 1..n : t[i] \in Nat /\ 1 + i - 1 = i
      BY <1>1, <2>4
    <3>4. /\ SubSeq(t, 1, n) \in Seq(Nat) /\ Len(SubSeq(t, 1, n)) = n
          /\ \A i \in 1..n : SubSeq(t, 1, n)[i] = t[i]
      BY <1>1, <2>5, <3>3
    <3> QED BY <2>5, <3>1, <3>2, <3>4, SeqEqual
  <2> QED BY <1>1, <2>5, <2>6 DEF IsSuffix, IsPrefix, r, t
<1> QED
  BY <1>4, <1>5, <1>6, <1>7 DEF n

\* What a bounded list keeps of one that may be too long by one
Limited(p, a, max) ==
    /\ Len(a) <= max => p = a
    /\ Len(a) > max => p = Tail(a)

\* PushBounded adds at the end, and drops the first beyond the limit.
LEMMA Pushed ==
    ASSUME NEW S, NEW q \in Seq(S), NEW x \in S, NEW max \in Nat \ {0}, Len(q) <= max
    PROVE  /\ Limited(PushBounded(q, x, max), Append(q, x), max)
           /\ PushBounded(q, x, max) \in Seq(S)
           /\ Len(PushBounded(q, x, max)) = IF Len(q) < max THEN Len(q) + 1 ELSE max
<1> DEFINE a == Append(q, x)
<1>1. a \in Seq(S) /\ a # <<>> /\ Len(a) = Len(q) + 1 /\ Len(q) \in Nat
  OBVIOUS
<1>2. PushBounded(q, x, max) = SubSeq(a, IF Len(a) > max THEN Len(a) - max + 1 ELSE 1, Len(a))
  BY DEF PushBounded
<1> HIDE DEF a
<1>3. CASE Len(q) < max
  <2>0. ~(Len(a) > max)
    BY <1>1, <1>3
  <2>1. PushBounded(q, x, max) = SubSeq(a, 1, Len(a))
    BY <1>2, <2>0
  <2>2. SubSeq(a, 1, Len(a)) = a
    BY <1>1, SubSeqFull
  <2> QED BY <1>1, <1>3, <2>1, <2>2 DEF a, Limited
<1>4. CASE Len(q) = max
  <2>0. Len(a) > max /\ Len(a) - max + 1 = 2
    BY <1>1, <1>4
  <2>1. PushBounded(q, x, max) = SubSeq(a, 2, Len(a))
    BY <1>2, <2>0
  <2>2. Tail(a) = SubSeq(a, 2, Len(a)) /\ Tail(a) \in Seq(S) /\ Len(Tail(a)) = Len(a) - 1
    BY <1>1, TailIsSubSeq, HeadTailProperties
  <2> QED BY <1>1, <1>4, <2>1, <2>2 DEF a, Limited
<1> QED
  BY <1>1, <1>3, <1>4

----------------------------------------------------------------------------
(* The context of an answer *)

\* An utterance that is older than those of the context, when they are fewer
\* than they may be, is older than one of them by more than the window.
OlderLeftOut ==
    LET first == Heard - Len(context) + 1
    IN  first > 1 /\ Len(context) < MaxSegments =>
            \E later \in first..Heard : endedAt[later] > endedAt[first - 1] + Window

\* The utterances of a report at the time when h are heard
Kept(q, h) ==
    /\ Latest(q, h) /\ Len(q) <= MaxStored
    /\ Len(q) < MaxStored => Len(q) = h

\* The next utterance joins them, and the first leaves when they are too many.
LEMMA KeptNext ==
    ASSUME NEW h \in Nat, NEW q, Kept(q, h)
    PROVE  Kept(PushBounded(q, h + 1, MaxStored), h + 1)
<1> DEFINE id == h + 1
           b == Append(q, id)
           p == PushBounded(q, id, MaxStored)
<1>1. /\ Latest(q, h) /\ q \in Seq(Nat) /\ Len(q) \in Nat /\ Len(q) <= MaxStored
      /\ Len(q) < MaxStored => Len(q) = h
      /\ id \in Nat /\ id = h + 1 /\ MaxStored \in Nat \ {0}
  BY TranslationAssumption DEF Kept, Latest
<1>2. Latest(b, id) /\ b \in Seq(Nat) /\ Len(b) = Len(q) + 1 /\ b # <<>>
  <2>1. Latest(b, id)
    BY <1>1, LatestNext
  <2> HIDE DEF id
  <2>2. b \in Seq(Nat) /\ Len(b) = Len(q) + 1 /\ b # <<>>
    BY <1>1, AppendProperties
  <2> QED BY <2>1, <2>2
<1> HIDE DEF id
<1>3. (Len(q) < MaxStored => p = b) /\ (Len(q) = MaxStored => p = Tail(b))
  <2>1. Limited(p, b, MaxStored)
    BY <1>1, Pushed
  <2> HIDE DEF b, p
  <2> QED BY <1>1, <1>2, <2>1 DEF Limited
<1> HIDE DEF b, p
<1>4. CASE Len(q) < MaxStored
  <2>1. p = b
    BY <1>3, <1>4
  <2> QED BY <1>1, <1>2, <1>4, <2>1 DEF Kept, p, id
<1>5. CASE Len(q) = MaxStored
  <2>1. Tail(b) = SubSeq(b, 2, Len(b)) /\ 2 \in 1..Len(b)
    BY <1>1, <1>2, <1>5, TailIsSubSeq
  <2>2. Latest(p, id) /\ Len(p) = Len(b) - 2 + 1
    <3>1. /\ Latest(SubSeq(b, 2, Len(b)), id)
          /\ Len(SubSeq(b, 2, Len(b))) = Len(b) - 2 + 1
      BY <1>1, <1>2, <2>1, LatestFrom
    <3>2. p = SubSeq(b, 2, Len(b))
      BY <1>3, <1>5, <2>1, Zenon
    <3> QED BY <3>1, <3>2, Zenon
  <2>3. Len(p) = MaxStored
    BY <1>1, <1>2, <1>5, <2>2
  <2> QED BY <1>1, <2>2, <2>3 DEF Kept, p, id
<1> QED
  BY <1>1, <1>4, <1>5

\* The context has the latest utterances, and so have those of the report.
ContextInv ==
    /\ streams \in BOOLEAN /\ endedAt \in Seq(Nat) /\ clock \in 0..MaxStream
    /\ Latest(context, Heard) /\ Len(context) <= MaxSegments
    /\ Heard > 0 => context # <<>>
    /\ OlderLeftOut
    /\ Kept(transcript, Heard)

\* The utterances of Recent begin after the last that is too old, or with the
\* first.
LEMMA RecentFrom ==
    ASSUME NEW h \in Nat, NEW q, Latest(q, h), q # <<>>, NEW times \in Seq(Nat), Len(times) = h
    PROVE  \E k \in 1..Len(q) : /\ Recent(q, times) = SubSeq(q, k, Len(q))
                                /\ k > 1 => times[q[k - 1]] + Window < times[h]
<1> DEFINE n == Len(q)
           oldest == Before(times[Last(q)], Window)
           young == {i \in 1..n : times[q[i]] >= oldest}
           k == CHOOSE i \in young : \A j \in young : i <= j
<1>1. /\ n \in 1..h /\ Last(q) = h /\ q[n] = h /\ h \in 1..h
      /\ \A i \in 1..n : q[i] \in 1..h
  <2>1. n \in 1..h /\ Last(q) = h /\ q \in Seq(1..h)
    BY LatestIs
  <2> QED BY <2>1 DEF Last
<1>2. \A i \in 1..n : times[q[i]] \in Nat
  BY <1>1
<1>3. /\ oldest \in Nat /\ oldest <= times[h] /\ Window \in Nat /\ times[h] \in Nat
      /\ \A x \in Nat : x < oldest => x + Window < times[h]
  BY <1>1, TranslationAssumption DEF Before
<1> HIDE DEF oldest
<1>4. n \in young
  <2>1. n \in 1..n /\ times[q[n]] = times[h]
    BY <1>1
  <2> QED BY <1>3, <2>1
<1>5. k \in young /\ \A j \in young : k <= j
  <2>1. young \in SUBSET Nat /\ young # {}
    BY <1>4
  <2> HIDE DEF young
  <2> QED BY <2>1, LeastNumber
<1>6. Recent(q, times) = SubSeq(q, k, n)
  BY DEF Recent, oldest
<1> HIDE DEF k
<1>7. ASSUME k > 1 PROVE times[q[k - 1]] + Window < times[h]
  <2>1. k - 1 \in 1..n /\ ~(k <= k - 1)
    BY <1>1, <1>5, <1>7
  <2>2. times[q[k - 1]] \in Nat
    BY <1>2, <2>1
  <2>3. ~(times[q[k - 1]] >= oldest)
    BY <1>5, <2>1
  <2> QED BY <1>3, <2>2, <2>3
<1> QED
  BY <1>5, <1>6, <1>7

\* One more utterance keeps the context of the answers and the report.
LEMMA FinalContext ==
    ASSUME ContextInv, FinalSegment
    PROVE  ContextInv' /\ Heard' = Heard + 1
<1> DEFINE h == Heard
           n == Len(context)
           id == h + 1
<1>1. /\ h \in Nat /\ endedAt \in Seq(Nat) /\ n \in Nat /\ n <= h /\ n <= MaxSegments
      /\ h > 0 => n > 0
  <2>1. n = 0 => context = <<>>
    BY DEF ContextInv, Latest
  <2> QED BY <2>1 DEF ContextInv, Heard, Latest
<1>2. PICK end \in Ends :
        /\ endedAt' = Append(endedAt, end)
        /\ context' = PushFinal(context, id, Append(endedAt, end))
        /\ transcript' = PushBounded(transcript, id, MaxStored)
        /\ clock' = IF end = Wall THEN clock ELSE end
  BY DEF FinalSegment
<1> DEFINE times == Append(endedAt, end)
           a == Append(context, id)
           q == Fitting(a)
<1>3. end \in Nat /\ clock' \in 0..MaxStream
  BY <1>2, TranslationAssumption DEF Ends, ContextInv
<1>4. /\ times \in Seq(Nat) /\ Len(times) = id /\ times[id] = end
      /\ \A i \in 1..h : times[i] = endedAt[i] /\ endedAt[i] \in Nat
  BY <1>1, <1>3 DEF Heard
<1>5. Heard' = id
  BY <1>2, <1>4 DEF Heard
<1>6. Latest(a, id) /\ Len(a) = n + 1 /\ a # <<>> /\ a \in Seq(Nat)
  <2>1. Latest(context, h) /\ context \in Seq(Nat)
    BY DEF ContextInv, Latest
  <2>2. Latest(a, id)
    <3> HIDE DEF h
    <3> QED BY <1>1, <2>1, LatestNext
  <2>3. id \in Nat
    BY <1>1
  <2>4. a \in Seq(Nat) /\ Len(a) = n + 1 /\ a # <<>>
    <3>1. context \in Seq(Nat)
      BY <2>1
    <3> HIDE DEF id
    <3> QED BY <2>3, <3>1, AppendProperties
  <2> QED BY <2>2, <2>4
<1>next. id \in Nat /\ id = h + 1
  BY <1>1
<1> HIDE DEF times, a, h, id
<1>7. /\ Latest(q, id) /\ q # <<>> /\ Len(q) \in 1..MaxSegments
      /\ Len(q) < MaxSegments => Len(q) = n + 1
  <2>1. CASE Len(a) > MaxSegments
    <3>1. q = Tail(a) /\ n = MaxSegments /\ 2 \in 1..Len(a)
      BY <1>1, <1>6, <2>1, TranslationAssumption DEF Fitting
    <3>2. Tail(a) = SubSeq(a, 2, Len(a))
      BY <1>6, TailIsSubSeq
    <3>3. Latest(q, id) /\ Len(q) = Len(a) - 2 + 1
      <4> HIDE DEF q
      <4> QED BY <1>next, <1>6, <3>1, <3>2, LatestFrom
    <3>4. Len(q) = MaxSegments
      BY <1>1, <1>6, <3>1, <3>3
    <3>5. q # <<>>
      BY <3>4, TranslationAssumption
    <3> QED BY <3>3, <3>4, <3>5, TranslationAssumption
  <2>2. CASE ~(Len(a) > MaxSegments)
    <3>1. q = a
      BY <2>2 DEF Fitting
    <3> QED BY <1>1, <1>6, <2>2, <3>1, TranslationAssumption
  <2> QED BY <2>1, <2>2
<1>8. context' = Recent(q, times)
  BY <1>2 DEF PushFinal, times, a
<1> HIDE DEF q
<1>9. PICK k \in 1..Len(q) : /\ context' = SubSeq(q, k, Len(q))
                             /\ k > 1 => times[q[k - 1]] + Window < times[id]
  BY <1>next, <1>4, <1>7, <1>8, RecentFrom
<1>10. Latest(context', id) /\ Len(context') = Len(q) - k + 1
  <2>1. /\ Latest(SubSeq(q, k, Len(q)), id)
        /\ Len(SubSeq(q, k, Len(q))) = Len(q) - k + 1
    BY <1>next, <1>7, LatestFrom
  <2> QED BY <1>9, <2>1
<1>old. k > 1 => times[q[k - 1]] + Window < times[id]
  BY <1>9
<1>11. Len(context') \in 1..MaxSegments /\ context' # <<>>
  <2>1. Len(context') \in 1..MaxSegments
    BY <1>7, <1>9, <1>10, TranslationAssumption
  <2> QED BY <2>1
<1>12. OlderLeftOut'
  <2> DEFINE first == id - Len(context') + 1
  <2> SUFFICES ASSUME first > 1, Len(context') < MaxSegments
               PROVE  \E later \in first..id : times[later] > times[first - 1] + Window
    BY <1>2, <1>5 DEF OlderLeftOut, times, id
  <2>0. first > 1
    OBVIOUS
  <2>1. first = id - Len(q) + k
    BY <1>next, <1>1, <1>7, <1>9, <1>10
  <2>2. CASE k > 1
    <3>1. k - 1 \in 1..Len(q) /\ q[k - 1] = first - 1
      <4>1. k - 1 \in 1..Len(q)
        BY <1>7, <1>9, <2>2
      <4>2. q[k - 1] = id - Len(q) + (k - 1)
        BY <1>7, <4>1 DEF Latest
      <4> QED BY <1>next, <1>1, <1>7, <1>9, <2>1, <4>1, <4>2
    <3>2. id \in first..id
      BY <1>next, <1>1, <1>10, <1>11
    <3>3. first - 1 \in 1..h /\ times[first - 1] \in Nat /\ times[id] \in Nat
      <4>1. first - 1 \in 1..h
        BY <1>next, <1>1, <1>10, <1>11
      <4> QED BY <1>3, <1>4, <4>1
    <3>4. times[id] > times[first - 1] + Window
      <4>1. times[q[k - 1]] + Window < times[id] /\ times[q[k - 1]] = times[first - 1]
        BY <1>old, <2>2, <3>1
      <4> HIDE DEF first
      <4> QED BY <3>3, <4>1, TranslationAssumption
    <3> QED BY <3>2, <3>4
  <2>3. CASE k = 1
    <3>1. Len(q) = n + 1 /\ n < MaxSegments /\ first = h - n + 1
      <4>1. Len(q) = n + 1 /\ Len(context') = Len(q)
        <5>1. Len(context') = Len(q)
          BY <1>7, <1>10, <2>3
        <5> QED BY <1>7, <5>1, TranslationAssumption
      <4>2. first = h - n + 1
        BY <1>next, <1>1, <4>1
      <4>3. n < MaxSegments
        BY <1>1, <4>1, TranslationAssumption
      <4> QED BY <4>1, <4>2, <4>3
    <3>2. PICK later \in (h - n + 1)..h : endedAt[later] > endedAt[h - n + 1 - 1] + Window
      <4>1. OlderLeftOut
        BY DEF ContextInv
      <4>2. h - n + 1 > 1
        BY <2>0, <3>1
      <4>3. \E later \in (h - n + 1)..h : endedAt[later] > endedAt[h - n + 1 - 1] + Window
        BY <1>1, <3>1, <4>1, <4>2 DEF OlderLeftOut, h
      <4> QED BY <4>3
    <3>3. later \in 1..h /\ first - 1 \in 1..h /\ later \in first..id /\ h - n + 1 - 1 = first - 1
      BY <1>next, <1>1, <3>1
    <3>4. times[later] = endedAt[later] /\ times[first - 1] = endedAt[first - 1]
      BY <1>4, <3>3
    <3> QED BY <3>2, <3>3, <3>4
  <2> QED BY <1>7, <1>9, <2>2, <2>3
<1>13. Kept(transcript', id)
  <2>1. Kept(transcript, h)
    BY DEF ContextInv, h
  <2>2. Kept(PushBounded(transcript, h + 1, MaxStored), h + 1)
    BY <1>1, <2>1, KeptNext
  <2> QED BY <1>2, <2>2 DEF id
<1>14. streams' \in BOOLEAN /\ endedAt' \in Seq(Nat) /\ id > 0
  <2>1. streams' = streams
    BY DEF FinalSegment
  <2>2. endedAt' \in Seq(Nat) /\ id > 0
    BY <1>next, <1>1, <1>2, <1>4 DEF times
  <2> QED BY <2>1, <2>2 DEF ContextInv
<1> QED
  <2>1. Heard' = Heard + 1
    BY <1>5 DEF h, id
  <2>2. Len(context') <= MaxSegments
    BY <1>11, TranslationAssumption
  <2> QED BY <1>3, <1>5, <1>10, <1>11, <1>12, <1>13, <1>14, <2>1, <2>2 DEF ContextInv

\* Every step keeps both.
LEMMA ContextStep ==
    ASSUME ContextInv, [TranslationNext]_translationVars
    PROVE  ContextInv'
<1>1. CASE FinalSegment
  BY <1>1, FinalContext
<1>2. CASE Reconnected
  <2>1. /\ clock' = 0 /\ streams' = streams /\ endedAt' = endedAt /\ context' = context
        /\ transcript' = transcript
    BY <1>2 DEF Reconnected
  <2> QED BY <2>1, TranslationAssumption DEF ContextInv, OlderLeftOut, Heard
<1>3. CASE EndStream
  <2>1. /\ clock' = clock /\ streams' = FALSE /\ endedAt' = endedAt /\ context' = context
        /\ transcript' = transcript
    BY <1>3 DEF EndStream
  <2> QED BY <2>1 DEF ContextInv, OlderLeftOut, Heard
<1>4. CASE UNCHANGED contextVars
  BY <1>4 DEF contextVars, ContextInv, OlderLeftOut, Heard
<1>5. FinalSegment \/ Reconnected \/ EndStream \/ UNCHANGED contextVars
  BY DEF TranslationNext, Batcher, ReceiveSegment, StartBatch, RetryBatch, FinishBatch, EndBatcher,
     capture_bilingual_answer, Answered, AnswerFails, TakeSession, PutSessionBack, StopSession,
     SessionStopped, ForgetSession, Moves, translationVars
<1> QED
  BY <1>1, <1>2, <1>3, <1>4, <1>5

----------------------------------------------------------------------------
(* The way of the utterances to their translation *)

\* The utterances heard so far
Ids == 1..Heard

\* Those translated, in translation, gathered and sent are the latest, in order,
\* and all of them before the number of those kept is at its limit.
Way(t, b, p, q) == Joined(Joined(Joined(FlattenSeq(t), b), p), q)

\* The batcher's part of the state, and what is on the way through it
BatcherInv ==
    /\ channel \in {"off", "open", "closed", "ended"}
    /\ streams => channel \in {"off", "open"}
    /\ translated \in Seq(Seq(Ids)) /\ Len(translated) <= MaxStored
    /\ batch \in Seq(Ids) /\ pending \in Seq(Ids) /\ sent \in Seq(Ids)
    /\ channel # "off" =>
         /\ Latest(Way(translated, batch, pending, sent), Heard)
         /\ Len(translated) < MaxStored => Len(Way(translated, batch, pending, sent)) = Heard

\* What has been heard stays heard.
LEMMA IdsGrow ==
    ASSUME NEW h \in Nat, NEW g \in Nat, h <= g
    PROVE  /\ \A q \in Seq(1..h) : q \in Seq(1..g)
           /\ \A s \in Seq(Seq(1..h)) : s \in Seq(Seq(1..g))
<1>1. 1..h \subseteq 1..g
  OBVIOUS
<1>2. \A q \in Seq(1..h) : q \in Seq(1..g)
  BY <1>1, SeqMonotonic
<1>3. Seq(1..h) \subseteq Seq(1..g)
  BY <1>2
<1>4. \A s \in Seq(Seq(1..h)) : s \in Seq(Seq(1..g))
  BY <1>3, SeqMonotonic
<1> QED
  BY <1>2, <1>4

\* One more in the channel is one more on the way,
LEMMA WayOfSent ==
    ASSUME NEW S, NEW t \in Seq(Seq(S)), NEW b \in Seq(S), NEW p \in Seq(S), NEW q \in Seq(S),
           NEW x \in S
    PROVE  Way(t, b, p, Append(q, x)) = Append(Way(t, b, p, q), x)
<1> DEFINE w == Joined(Joined(FlattenSeq(t), b), p)
<1>1. w \in Seq(S)
  BY FlattenType, JoinedType
<1> HIDE DEF w
<1> DEFINE one == <<x>>
<1>2. Append(q, x) = Joined(q, one) /\ one \in Seq(S)
  BY AppendJoins
<1>3. Joined(w, q) \in Seq(S)
  BY <1>1, JoinedType
<1>4. Append(Joined(w, q), x) = Joined(Joined(w, q), one)
  BY <1>3, AppendJoins
<1> HIDE DEF one
<1>6. Joined(Joined(w, q), one) = Joined(w, Joined(q, one))
  BY <1>1, <1>2, JoinedAgain
<1>5. Joined(w, Append(q, x)) = Append(Joined(w, q), x)
  BY <1>2, <1>4, <1>6, Zenon
<1> QED
  BY <1>5 DEF Way, w

\* receiving moves one,
LEMMA WayOfReceived ==
    ASSUME NEW S, NEW t \in Seq(Seq(S)), NEW b \in Seq(S), NEW p \in Seq(S), NEW q \in Seq(S),
           q # <<>>
    PROVE  Way(t, b, Append(p, Head(q)), Tail(q)) = Way(t, b, p, q)
<1> DEFINE w == Joined(FlattenSeq(t), b)
           x == Head(q)
           r == Tail(q)
           one == <<x>>
<1>1. w \in Seq(S)
  BY FlattenType, JoinedType
<1>2. x \in S /\ r \in Seq(S) /\ Joined(one, r) = q
  BY HeadJoins
<1> HIDE DEF w, x, r
<1>3. Append(p, x) = Joined(p, one) /\ one \in Seq(S)
  BY <1>2, AppendJoins
<1> HIDE DEF one
<1>4. Joined(w, Joined(p, one)) = Joined(Joined(w, p), one) /\ Joined(w, p) \in Seq(S)
  BY <1>1, <1>3, JoinedType, JoinedAgain
<1>5. Joined(Joined(Joined(w, p), one), r) = Joined(Joined(w, p), Joined(one, r))
  BY <1>2, <1>3, <1>4, JoinedAgain
<1>6. Joined(Joined(w, Append(p, x)), r) = Joined(Joined(w, p), q)
  BY <1>2, <1>3, <1>4, <1>5, Zenon
<1> QED
  BY <1>6 DEF Way, w, x, r

\* the batch takes what has gathered,
LEMMA WayOfStarted ==
    ASSUME NEW S, NEW t \in Seq(Seq(S)), NEW p \in Seq(S)
    PROVE  Way(t, p, <<>>, <<>>) = Way(t, <<>>, p, <<>>)
<1> DEFINE f == FlattenSeq(t)
<1>1. f \in Seq(S)
  BY FlattenType
<1> HIDE DEF f
<1>2. Joined(f, p) \in Seq(S) /\ Joined(f, <<>>) = f
  BY <1>1, JoinedType, JoinedEmpty
<1>3. Joined(Joined(f, p), <<>>) = Joined(f, p)
  BY <1>2, JoinedEmpty
<1> QED
  BY <1>2, <1>3, Zenon DEF Way, f

\* and its translation is added to those before it.
LEMMA WayOfFinished ==
    ASSUME NEW S, NEW t \in Seq(Seq(S)), NEW b \in Seq(S), NEW p \in Seq(S), NEW q \in Seq(S)
    PROVE  /\ Way(Append(t, b), <<>>, p, q) = Way(t, b, p, q)
           /\ Way(t, b, p, q) = Joined(Head(Append(t, b)), Way(Tail(Append(t, b)), <<>>, p, q))
           /\ Way(Tail(Append(t, b)), <<>>, p, q) \in Seq(S)
           /\ Head(Append(t, b)) \in Seq(S)
<1> DEFINE a == Append(t, b)
           f == FlattenSeq(a)
           h == Head(a)
           r == FlattenSeq(Tail(a))
<1>1. a \in Seq(Seq(S)) /\ a # <<>>
  BY AppendProperties
<1>2. f = Joined(FlattenSeq(t), b)
  BY FlattenAppend
<1> HIDE DEF a
<1>3. Tail(a) \in Seq(Seq(S)) /\ h \in Seq(S)
  BY <1>1, HeadTailProperties
<1>4. f \in Seq(S) /\ r \in Seq(S) /\ f = Joined(h, r)
  BY <1>1, <1>3, FlattenType, FlattenTail
<1> HIDE DEF f, h, r
<1>5. Joined(f, <<>>) = f /\ Joined(r, <<>>) = r
  BY <1>4, JoinedEmpty
<1>6. Joined(f, p) = Joined(h, Joined(r, p)) /\ Joined(r, p) \in Seq(S)
  BY <1>3, <1>4, JoinedType, JoinedAgain
<1>7. /\ Joined(Joined(h, Joined(r, p)), q) = Joined(h, Joined(Joined(r, p), q))
      /\ Joined(Joined(r, p), q) \in Seq(S)
  BY <1>3, <1>6, JoinedType, JoinedAgain
<1>8. Way(a, <<>>, p, q) = Joined(Joined(f, p), q)
  BY <1>5 DEF Way, f
<1>9. Way(t, b, p, q) = Joined(Joined(f, p), q)
  BY <1>2 DEF Way
<1>10. Way(Tail(a), <<>>, p, q) = Joined(Joined(r, p), q)
  BY <1>5 DEF Way, r
<1> QED
  BY <1>3, <1>6, <1>7, <1>8, <1>9, <1>10 DEF a, h

\* An utterance joins the way at its end.
LEMMA FinalOnWay ==
    ASSUME ContextInv, BatcherInv, FinalSegment
    PROVE  BatcherInv'
<1> DEFINE h == Heard
           g == h + 1
           w == Way(translated, batch, pending, sent)
<1>1. h \in Nat /\ g \in Nat /\ h <= g /\ g \in 1..g /\ Heard' = g
  <2>1. h \in Nat
    BY DEF ContextInv, Heard
  <2> QED BY <2>1, FinalContext
<1>2. /\ sent' = IF channel = "open" THEN Append(sent, g) ELSE sent
      /\ streams /\ streams' = streams /\ channel' = channel
      /\ pending' = pending /\ batch' = batch /\ translated' = translated
  BY DEF FinalSegment
<1>3. /\ translated \in Seq(Seq(1..h)) /\ batch \in Seq(1..h) /\ pending \in Seq(1..h)
      /\ sent \in Seq(1..h) /\ channel \in {"off", "open"} /\ Len(translated) <= MaxStored
      /\ channel # "off" => /\ Latest(w, h)
                            /\ Len(translated) < MaxStored => Len(w) = h
  BY <1>2 DEF BatcherInv, Ids
<1> HIDE DEF w, h
<1>4. /\ translated \in Seq(Seq(1..g)) /\ batch \in Seq(1..g) /\ pending \in Seq(1..g)
      /\ sent \in Seq(1..g)
  BY <1>1, <1>3, IdsGrow
<1>5. CASE channel = "off"
  BY <1>1, <1>2, <1>3, <1>4, <1>5 DEF BatcherInv, Ids
<1>6. CASE channel = "open"
  <2>1. sent' = Append(sent, g) /\ Latest(w, h) /\ (Len(translated) < MaxStored => Len(w) = h)
    BY <1>2, <1>3, <1>6
  <2> HIDE DEF g
  <2>2. Append(sent, g) \in Seq(1..g)
    BY <1>1, <1>4, AppendProperties
  <2>3. Way(translated, batch, pending, Append(sent, g)) = Append(w, g)
    BY <1>1, <1>4, WayOfSent DEF w
  <2>4. Latest(Append(w, g), g)
    BY <1>1, <2>1, LatestNext DEF g
  <2>5. Len(Append(w, g)) = Len(w) + 1
    BY <2>1 DEF Latest
  <2>6. Len(translated) < MaxStored => Len(Append(w, g)) = g
    BY <2>1, <2>5 DEF g
  <2>7. sent' \in Seq(1..g)
    BY <2>1, <2>2
  <2>8. Way(translated', batch', pending', sent') = Append(w, g)
    BY <1>2, <2>1, <2>3
  <2> HIDE DEF Way
  <2> QED BY <1>1, <1>2, <1>3, <1>4, <2>4, <2>6, <2>7, <2>8 DEF BatcherInv, Ids
<1> QED
  BY <1>3, <1>5, <1>6

\* Every step keeps what is on the way.
LEMMA BatcherStep ==
    ASSUME ContextInv, BatcherInv, [TranslationNext]_translationVars
    PROVE  BatcherInv'
<1> DEFINE w == Way(translated, batch, pending, sent)
<1>1. /\ translated \in Seq(Seq(Ids)) /\ batch \in Seq(Ids) /\ pending \in Seq(Ids)
      /\ sent \in Seq(Ids) /\ Len(translated) <= MaxStored
      /\ channel \in {"off", "open", "closed", "ended"}
      /\ streams => channel \in {"off", "open"}
      /\ channel # "off" => /\ Latest(w, Heard)
                            /\ Len(translated) < MaxStored => Len(w) = Heard
      /\ Heard \in Nat
  BY DEF BatcherInv, ContextInv, Heard
<1> HIDE DEF w
<1>2. CASE FinalSegment
  BY <1>2, FinalOnWay
<1>3. ASSUME endedAt' = endedAt, streams' = streams, channel' = channel,
             translated' \in Seq(Seq(Ids)), Len(translated') <= MaxStored,
             batch' \in Seq(Ids), pending' \in Seq(Ids), sent' \in Seq(Ids),
             Way(translated', batch', pending', sent') = w, Len(translated') >= Len(translated)
      PROVE  BatcherInv'
  <2>1. Heard' = Heard /\ Ids' = Ids
    BY <1>3 DEF Heard, Ids
  <2>2. Len(translated) \in Nat /\ Len(translated') \in Nat /\ MaxStored \in Nat
    BY <1>1, <1>3, TranslationAssumption
  <2>3. Len(translated') < MaxStored => Len(translated) < MaxStored
    BY <1>3, <2>2
  <2> QED BY <1>1, <1>3, <2>1, <2>3 DEF BatcherInv
<1>4. CASE ReceiveSegment
  <2>1. /\ sent # <<>> /\ pending' = Append(pending, Head(sent)) /\ sent' = Tail(sent)
        /\ batch' = batch /\ translated' = translated
        /\ endedAt' = endedAt /\ streams' = streams /\ channel' = channel
    BY <1>4 DEF ReceiveSegment, contextVars
  <2>2. Head(sent) \in Ids /\ Tail(sent) \in Seq(Ids)
    BY <1>1, <2>1, HeadTailProperties
  <2>3. Append(pending, Head(sent)) \in Seq(Ids)
    BY <1>1, <2>2, AppendProperties
  <2>4. Way(translated, batch, Append(pending, Head(sent)), Tail(sent)) = w
    BY <1>1, <2>1, WayOfReceived DEF w
  <2>5. Len(translated) >= Len(translated)
    BY <1>1
  <2>6. pending' \in Seq(Ids) /\ sent' \in Seq(Ids)
    BY <2>1, <2>2, <2>3
  <2>7. Way(translated', batch', pending', sent') = w
    BY <2>1, <2>4
  <2> QED BY <1>1, <1>3, <2>1, <2>5, <2>6, <2>7
<1>5. CASE StartBatch
  <2>1. /\ batch = <<>> /\ sent = <<>> /\ batch' = pending /\ pending' = <<>>
        /\ sent' = sent /\ translated' = translated
        /\ endedAt' = endedAt /\ streams' = streams /\ channel' = channel
    BY <1>5 DEF StartBatch, contextVars
  <2>2. Way(translated, pending, <<>>, <<>>) = w
    BY <1>1, <2>1, WayOfStarted DEF w
  <2>3. Way(translated', batch', pending', sent') = w
    BY <2>1, <2>2
  <2>4. batch' \in Seq(Ids) /\ pending' \in Seq(Ids) /\ sent' \in Seq(Ids)
    BY <1>1, <2>1
  <2>5. Len(translated) >= Len(translated)
    BY <1>1
  <2> QED BY <1>1, <1>3, <2>1, <2>3, <2>4, <2>5
<1>6. CASE FinishBatch
  <2> DEFINE a == Append(translated, batch)
             v == Way(translated', <<>>, pending, sent)
  <2>1. /\ translated' = PushBounded(translated, batch, MaxStored)
        /\ batch' = <<>> /\ pending' = pending /\ sent' = sent
        /\ endedAt' = endedAt /\ streams' = streams /\ channel' = channel
    BY <1>6 DEF FinishBatch, contextVars
  <2>2. /\ Limited(translated', a, MaxStored) /\ translated' \in Seq(Seq(Ids))
        /\ Len(translated') = IF Len(translated) < MaxStored THEN Len(translated) + 1 ELSE MaxStored
    BY <1>1, <2>1, Pushed, TranslationAssumption
  <2>3. /\ Way(a, <<>>, pending, sent) = w
        /\ w = Joined(Head(a), Way(Tail(a), <<>>, pending, sent))
        /\ Way(Tail(a), <<>>, pending, sent) \in Seq(Ids) /\ Head(a) \in Seq(Ids)
    BY <1>1, WayOfFinished DEF w
  <2>4. Len(a) = Len(translated) + 1 /\ Len(translated) \in Nat /\ MaxStored \in Nat \ {0}
    BY <1>1, TranslationAssumption
  <2> HIDE DEF a, v
  <2>5. CASE Len(translated) < MaxStored
    <3>1. translated' = a
      BY <2>2, <2>4, <2>5 DEF Limited
    <3>2. Way(translated', batch', pending', sent') = w
      BY <2>1, <2>3, <3>1
    <3>3. /\ batch' \in Seq(Ids) /\ pending' \in Seq(Ids) /\ sent' \in Seq(Ids)
          /\ Len(translated') <= MaxStored /\ Len(translated') >= Len(translated)
      BY <1>1, <2>1, <2>2, <2>4, <2>5
    <3> QED BY <1>3, <2>1, <2>2, <3>2, <3>3
  <2>6. CASE ~(Len(translated) < MaxStored)
    <3>1. translated' = Tail(a) /\ Len(translated') = MaxStored
      BY <1>1, <2>2, <2>4, <2>6 DEF Limited
    <3>2. /\ w = Joined(Head(a), v) /\ v \in Seq(Ids) /\ Head(a) \in Seq(Ids)
          /\ Way(translated', batch', pending', sent') = v
      BY <2>1, <2>3, <3>1 DEF v
    <3>3. ASSUME channel # "off" PROVE Latest(v, Heard)
      <4>1. Latest(Joined(Head(a), v), Heard)
        BY <1>1, <3>2, <3>3
      <4>2. Head(a) \in Seq(Nat) /\ v \in Seq(Nat)
        <5>1. Ids \subseteq Nat
          BY <1>1 DEF Ids
        <5> QED BY <3>2, <5>1, SeqMonotonic
      <4> QED BY <1>1, <4>1, <4>2, LatestPart
    <3>4. Heard' = Heard /\ Ids' = Ids
      BY <2>1 DEF Heard, Ids
    <3>5. /\ batch' \in Seq(Ids) /\ pending' \in Seq(Ids) /\ sent' \in Seq(Ids)
          /\ Len(translated') <= MaxStored /\ ~(Len(translated') < MaxStored)
      BY <1>1, <2>1, <2>4, <3>1
    <3> QED BY <1>1, <2>1, <2>2, <3>2, <3>3, <3>4, <3>5 DEF BatcherInv
  <2> QED BY <2>5, <2>6
<1>7. CASE EndStream \/ EndBatcher
  <2>1. /\ endedAt' = endedAt /\ UNCHANGED <<translated, batch, pending, sent>>
        /\ ~streams' /\ (channel' = channel \/ channel' = "closed" \/ channel' = "ended")
        /\ channel = "off" <=> channel' = "off"
    <3>1. CASE EndStream
      BY <3>1 DEF EndStream
    <3>2. CASE EndBatcher
      BY <1>1, <3>2 DEF EndBatcher, contextVars
    <3> QED BY <1>7, <3>1, <3>2
  <2>2. Heard' = Heard /\ Ids' = Ids /\ Way(translated', batch', pending', sent') = w
    BY <2>1 DEF Heard, Ids, w
  <2> QED BY <1>1, <2>1, <2>2 DEF BatcherInv
<1>8. CASE UNCHANGED <<endedAt, streams, channel, sent, pending, batch, translated>>
  <2>1. Heard' = Heard /\ Ids' = Ids /\ Way(translated', batch', pending', sent') = w
    BY <1>8 DEF Heard, Ids, w
  <2> QED BY <1>1, <1>8, <2>1 DEF BatcherInv
<1>9. \/ FinalSegment \/ ReceiveSegment \/ StartBatch \/ FinishBatch \/ EndStream \/ EndBatcher
      \/ UNCHANGED <<endedAt, streams, channel, sent, pending, batch, translated>>
  BY DEF TranslationNext, Batcher, RetryBatch, Reconnected, contextVars, batcherVars,
     capture_bilingual_answer, Answered, AnswerFails, TakeSession, PutSessionBack, StopSession,
     SessionStopped, ForgetSession, Moves, translationVars
<1> QED
  BY <1>2, <1>4, <1>5, <1>6, <1>7, <1>8, <1>9

----------------------------------------------------------------------------
(* The answers and the report *)

\* What an answer is asked about
Asked(q, h) ==
    /\ q \in Seq(1..h) /\ q # <<>> /\ Len(q) <= MaxSegments
    /\ q = Run(Head(q), Len(q))

\* The answer being asked for, and those kept, are about such utterances.
AnswersInv ==
    /\ asked # <<>> => Asked(asked, Heard)
    /\ answers \in Seq(Seq(Ids)) /\ Len(answers) <= MaxStored
    /\ \A i \in 1..Len(answers) : Asked(answers[i], Heard)

\* The context may be asked about.
LEMMA ContextAsked ==
    ASSUME ContextInv, context # <<>>
    PROVE  Asked(context, Heard)
<1>1. Latest(context, Heard) /\ Heard \in Nat /\ Len(context) <= MaxSegments
  BY DEF ContextInv, Heard
<1> DEFINE h == Heard
<1>2. /\ context \in Seq(1..h) /\ context = Run(h - Len(context) + 1, Len(context))
      /\ Head(context) = h - Len(context) + 1
  <2> HIDE DEF h
  <2> QED BY <1>1, LatestIs DEF h
<1> HIDE DEF h
<1>3. context = Run(Head(context), Len(context))
  BY <1>2, Zenon
<1> QED
  BY <1>1, <1>2, <1>3 DEF Asked, h

\* Every step keeps what the answers are about.
LEMMA AnswersStep ==
    ASSUME ContextInv, AnswersInv, [TranslationNext]_translationVars
    PROVE  AnswersInv'
<1>1. /\ Heard \in Nat /\ answers \in Seq(Seq(Ids)) /\ Len(answers) <= MaxStored
      /\ asked # <<>> => Asked(asked, Heard)
      /\ \A i \in 1..Len(answers) : Asked(answers[i], Heard)
  BY DEF AnswersInv, ContextInv, Heard
<1>2. CASE FinalSegment
  <2> DEFINE h == Heard
             g == Heard + 1
  <2>1. Heard' = g /\ asked' = asked /\ answers' = answers
    <3>1. Heard' = Heard + 1
      BY <1>2, FinalContext
    <3> QED BY <1>2, <3>1 DEF FinalSegment, answerVars
  <2>2. /\ \A q \in Seq(1..h) : q \in Seq(1..g)
        /\ \A s \in Seq(Seq(1..h)) : s \in Seq(Seq(1..g))
    BY <1>1, IdsGrow
  <2> HIDE DEF h, g
  <2>3. \A q : Asked(q, h) => Asked(q, g)
    BY <2>2 DEF Asked
  <2>4. Ids = 1..h /\ Ids' = 1..g
    BY <2>1 DEF Ids, h
  <2>5. answers' \in Seq(Seq(Ids'))
    BY <1>1, <2>1, <2>2, <2>4
  <2>6. asked' # <<>> => Asked(asked', Heard')
    BY <1>1, <2>1, <2>3 DEF h
  <2>7. \A i \in 1..Len(answers') : Asked(answers'[i], Heard')
    BY <1>1, <2>1, <2>3 DEF h
  <2> QED BY <1>1, <2>1, <2>5, <2>6, <2>7 DEF AnswersInv
<1>3. ASSUME endedAt' = endedAt PROVE Heard' = Heard /\ Ids' = Ids
  BY <1>3 DEF Heard, Ids
<1>4. CASE capture_bilingual_answer
  <2>1. /\ asked' = context /\ context # <<>> /\ answers' = answers /\ endedAt' = endedAt
    BY <1>4 DEF capture_bilingual_answer, contextVars
  <2>2. Asked(asked', Heard')
    BY <1>3, <2>1, ContextAsked
  <2> QED BY <1>1, <1>3, <2>1, <2>2 DEF AnswersInv
<1>5. CASE Answered
  <2>1. /\ asked # <<>> /\ asked' = <<>> /\ endedAt' = endedAt
        /\ answers' = answers \/ answers' = PushBounded(answers, asked, MaxStored)
    BY <1>5 DEF Answered, contextVars
  <2>2. CASE answers' = answers
    BY <1>1, <1>3, <2>1, <2>2 DEF AnswersInv
  <2>3. CASE answers' = PushBounded(answers, asked, MaxStored)
    <3> DEFINE a == Append(answers, asked)
    <3>1. asked \in Seq(Ids) /\ Asked(asked, Heard)
      BY <1>1, <2>1 DEF Asked, Ids
    <3>2. /\ Limited(answers', a, MaxStored) /\ answers' \in Seq(Seq(Ids))
          /\ Len(answers') = IF Len(answers) < MaxStored THEN Len(answers) + 1 ELSE MaxStored
      BY <1>1, <2>3, <3>1, Pushed, TranslationAssumption
    <3>3. /\ a \in Seq(Seq(Ids)) /\ Len(a) = Len(answers) + 1 /\ a # <<>>
          /\ a[Len(answers) + 1] = asked
          /\ \A i \in 1..Len(answers) : a[i] = answers[i]
      <4>1. a \in Seq(Seq(Ids)) /\ Len(a) = Len(answers) + 1 /\ a # <<>>
        BY <1>1, <3>1, AppendProperties
      <4>2. a[Len(answers) + 1] = asked /\ \A i \in 1..Len(answers) : a[i] = answers[i]
        BY <1>1, <3>1, AppendProperties
      <4> QED BY <4>1, <4>2
    <3> HIDE DEF a
    <3>4. \A i \in 1..Len(a) : Asked(a[i], Heard)
      <4>1. \A i \in 1..Len(a) : i = Len(answers) + 1 \/ i \in 1..Len(answers)
        BY <1>1, <3>3
      <4> QED BY <1>1, <3>1, <3>3, <4>1
    <3>5. \A i \in 1..Len(answers') : Asked(answers'[i], Heard)
      <4>1. CASE answers' = a
        BY <3>4, <4>1
      <4>2. CASE answers' = Tail(a)
        <5>1. \A i \in 1..Len(answers') : answers'[i] = a[i + 1] /\ i + 1 \in 1..Len(a)
          BY <3>3, <4>2, HeadTailProperties
        <5> QED BY <3>4, <5>1
      <4>3. answers' = a \/ answers' = Tail(a)
        <5>1. Len(a) \in Nat /\ MaxStored \in Nat
          BY <3>3, TranslationAssumption
        <5> QED BY <3>2, <5>1 DEF Limited
      <4> QED BY <4>1, <4>2, <4>3
    <3>6. Len(answers') <= MaxStored
      BY <1>1, <3>2, TranslationAssumption
    <3> QED BY <1>1, <1>3, <2>1, <3>2, <3>5, <3>6 DEF AnswersInv
  <2> QED BY <2>1, <2>2, <2>3
<1>6. CASE AnswerFails
  <2>1. asked' = <<>> /\ answers' = answers /\ endedAt' = endedAt
    BY <1>6 DEF AnswerFails, contextVars
  <2> QED BY <1>1, <1>3, <2>1 DEF AnswersInv
<1>7. CASE UNCHANGED <<endedAt, asked, answers>>
  BY <1>1, <1>3, <1>7 DEF AnswersInv
<1>8. \/ FinalSegment \/ capture_bilingual_answer \/ Answered \/ AnswerFails
      \/ UNCHANGED <<endedAt, asked, answers>>
  BY DEF TranslationNext, Batcher, ReceiveSegment, StartBatch, RetryBatch, FinishBatch, EndBatcher,
     Reconnected, EndStream, contextVars, answerVars, TakeSession, PutSessionBack, StopSession,
     SessionStopped, ForgetSession, Moves, translationVars
<1> QED
  BY <1>2, <1>4, <1>5, <1>6, <1>7, <1>8

\* A report of the time when h are heard
Moment(r, h) ==
    /\ h \in Nat /\ Kept(r.transcript, h)
    /\ r.translated \in Seq(Seq(1..h)) /\ r.answers \in Seq(Seq(1..h))

\* What a stop has copied is of the time when it did, for the report.
ReportInv == place \in {"stopping", "stopped"} => \E h \in Nat : Moment(snapshot, h)

\* The lists of the session are of now.
LEMMA NowIsMoment ==
    ASSUME ContextInv, BatcherInv, AnswersInv
    PROVE  Moment([transcript |-> transcript, translated |-> translated, answers |-> answers], Heard)
BY DEF ContextInv, BatcherInv, AnswersInv, Moment, Ids, Heard

\* Every step keeps the copy that a stop has made.
LEMMA ReportStep ==
    ASSUME ContextInv, BatcherInv, AnswersInv, ReportInv, [TranslationNext]_translationVars
    PROVE  ReportInv'
<1>1. CASE StopSession
  <2>1. snapshot' = [transcript |-> transcript, translated |-> translated, answers |-> answers]
    BY <1>1 DEF StopSession
  <2>2. Heard \in Nat
    BY DEF ContextInv, Heard
  <2> QED BY <2>1, <2>2, NowIsMoment DEF ReportInv
<1>2. CASE SessionStopped
  BY <1>2 DEF SessionStopped, Moves, ReportInv
<1>3. CASE TakeSession \/ PutSessionBack \/ ForgetSession
  BY <1>3 DEF TakeSession, PutSessionBack, ForgetSession, Moves, ReportInv
<1>4. CASE UNCHANGED placeVars
  BY <1>4 DEF placeVars, ReportInv
<1>5. \/ StopSession \/ SessionStopped \/ TakeSession \/ PutSessionBack \/ ForgetSession
      \/ UNCHANGED placeVars
  BY DEF TranslationNext, Batcher, FinalSegment, ReceiveSegment, StartBatch, RetryBatch, FinishBatch,
     EndBatcher, Reconnected, EndStream, contextVars, capture_bilingual_answer, Answered, AnswerFails,
     translationVars
<1> QED
  BY <1>1, <1>2, <1>3, <1>4, <1>5

----------------------------------------------------------------------------
(* The session *)

\* The inductive invariant: none of its parts is inductive alone, since the
\* answers take the context, and the stop's copy takes all of them.
TranslationInv == ContextInv /\ BatcherInv /\ AnswersInv /\ ReportInv

\* It holds when the session starts,
LEMMA TranslationInvInit == TranslationInit => TranslationInv
<1> SUFFICES ASSUME TranslationInit PROVE TranslationInv
  OBVIOUS
<1>1. Heard = 0 /\ Ids = {}
  BY DEF TranslationInit, Heard, Ids
<1>2. Latest(<<>>, 0) /\ Kept(<<>>, 0)
  BY TranslationAssumption DEF Latest, Kept
<1>3. ContextInv
  BY <1>1, <1>2, TranslationAssumption DEF TranslationInit, ContextInv, OlderLeftOut
<1>4. Way(<<>>, <<>>, <<>>, <<>>) = <<>>
  <2>1. Joined(<<>>, <<>>) = <<>>
    BY JoinedEmpty, EmptySeq
  <2> QED BY <2>1, FlattenEmpty DEF Way
<1>5. BatcherInv
  BY <1>1, <1>2, <1>4, TranslationAssumption DEF TranslationInit, BatcherInv
<1>6. AnswersInv
  BY <1>1, TranslationAssumption DEF TranslationInit, AnswersInv
<1>7. ReportInv
  BY DEF TranslationInit, ReportInv
<1> QED
  BY <1>3, <1>5, <1>6, <1>7 DEF TranslationInv

\* every step keeps it,
LEMMA TranslationInvStep == TranslationInv /\ [TranslationNext]_translationVars => TranslationInv'
BY ContextStep, BatcherStep, AnswersStep, ReportStep DEF TranslationInv

\* and so it always holds.
LEMMA TranslationInvAlways == TranslationSpec => []TranslationInv
BY TranslationInvInit, TranslationInvStep, PTL DEF TranslationSpec

\* No utterance is lost, translated twice or overtaken on its way through the
\* channel, the batch and the requests, whatever fails and wherever the session
\* is stopped, for all limits (run_batch_loop, process_batch).
THEOREM NoUtteranceLost == TranslationSpec => []TranslatedInOrder
<1>1. TranslationInv => TranslatedInOrder
  <2> DEFINE w == Way(translated, batch, pending, sent)
             h == Heard
  <2> SUFFICES ASSUME TranslationInv, channel # "off"
               PROVE  /\ IsSuffix(OnItsWay, [i \in 1..Heard |-> i])
                      /\ Len(translated) < MaxStored => Len(OnItsWay) = Heard
    BY DEF TranslatedInOrder
  <2>1. h \in Nat /\ Latest(w, h) /\ (Len(translated) < MaxStored => Len(w) = h)
    BY DEF TranslationInv, ContextInv, BatcherInv, Heard
  <2>2. OnItsWay = w
    BY DEF OnItsWay, Way, Joined
  <2> HIDE DEF w, h
  <2>3. IsSuffix(w, [i \in 1..h |-> i])
    BY <2>1, LatestIs
  <2> QED BY <2>1, <2>2, <2>3, Zenon DEF h
<1>2. QED
  BY <1>1, TranslationInvAlways, PTL

\* An answer is asked about the latest utterances without a gap, and as many of
\* them as their number and their age allow, across reconnects, for every window
\* and every order of end times (context_buffer.rs).
THEOREM ContextStaysRecent == TranslationSpec => []ContextIsRecent
<1>1. TranslationInv => ContextIsRecent
  <2> SUFFICES ASSUME TranslationInv PROVE ContextIsRecent
    OBVIOUS
  <2>1. /\ Heard \in Nat /\ Latest(context, Heard) /\ Len(context) <= MaxSegments
        /\ Heard > 0 => context # <<>>
        /\ OlderLeftOut
    BY DEF TranslationInv, ContextInv, Heard
  <2> DEFINE h == Heard
  <2>2. context = Run(h - Len(context) + 1, Len(context))
    <3> HIDE DEF h
    <3> QED BY <2>1, LatestIs DEF h
  <2>3. ASSUME NEW q \in ToSet(answers) PROVE Asked(q, Heard)
    <3>1. /\ answers \in Seq(Seq(Ids))
          /\ \A i \in 1..Len(answers) : Asked(answers[i], Heard)
      BY DEF TranslationInv, AnswersInv
    <3> QED BY <2>3, <3>1 DEF ToSet
  <2>4. \A q \in ToSet(answers) \cup {context} : Len(q) <= MaxSegments
    BY <2>1, <2>3 DEF Asked
  <2>5. \A q \in ToSet(answers) : q # <<>> /\ q = Run(Head(q), Len(q))
    BY <2>3, Zenon DEF Asked
  <2> QED BY <2>1, <2>2, <2>4, <2>5, Zenon DEF ContextIsRecent, OlderLeftOut, h
<1>2. QED
  BY <1>1, TranslationInvAlways, PTL

\* A report of one moment speaks of nothing that is not in it.
LEMMA MomentIsConsistent ==
    ASSUME NEW r, NEW h, Moment(r, h)
    PROVE  LET utterances == ToSet(r.transcript)
               named == ToSet(FlattenSeq(r.translated)) \cup ToSet(FlattenSeq(r.answers))
           IN  IF utterances = {} THEN named = {}
               ELSE /\ r.transcript = Run(r.transcript[1], Len(r.transcript))
                    /\ \A id \in named : id <= Last(r.transcript)
                    /\ Len(r.transcript) < MaxStored => named \subseteq utterances
<1> DEFINE t == r.transcript
           utterances == ToSet(t)
           named == ToSet(FlattenSeq(r.translated)) \cup ToSet(FlattenSeq(r.answers))
<1>1. /\ h \in Nat /\ Latest(t, h) /\ (Len(t) < MaxStored => Len(t) = h)
      /\ t \in Seq(Nat) /\ \A i \in 1..Len(t) : t[i] = h - Len(t) + i
  BY DEF Moment, Kept, Latest
<1>2. ASSUME NEW q \in Seq(1..h) PROVE ToSet(q) \subseteq 1..h
  <2>1. DOMAIN q = 1..Len(q)
    BY LenProperties
  <2> DEFINE S == 1..h
  <2>2. q \in Seq(S)
    OBVIOUS
  <2> HIDE DEF S
  <2>3. \A i \in 1..Len(q) : q[i] \in S
    BY <2>2, ElementOfSeq
  <2> QED BY <2>1, <2>3 DEF ToSet, S
<1>3. named \subseteq 1..h
  <2>1. FlattenSeq(r.translated) \in Seq(1..h) /\ FlattenSeq(r.answers) \in Seq(1..h)
    BY FlattenType DEF Moment
  <2> QED BY <1>2, <2>1
<1> HIDE DEF named, t
<1>4. CASE utterances = {}
  <2>1. Len(t) = 0
    <3>1. ASSUME Len(t) # 0 PROVE FALSE
      <4>1. 1 \in DOMAIN t
        BY <1>1, <3>1
      <4> QED BY <1>4, <4>1 DEF ToSet
    <3> QED BY <3>1
  <2>2. h = 0
    BY <1>1, <2>1, TranslationAssumption
  <2>3. named = {}
    BY <1>3, <2>2
  <2> QED BY <1>4, <2>3 DEF named, t
<1>5. CASE utterances # {}
  <2>1. t # <<>>
    BY <1>5 DEF ToSet
  <2>2. /\ t = Run(h - Len(t) + 1, Len(t)) /\ Head(t) = h - Len(t) + 1 /\ Last(t) = h
        /\ Len(t) \in 1..h
    BY <1>1, <2>1, LatestIs
  <2>3. t[1] = h - Len(t) + 1
    BY <1>1, <2>2
  <2>4. t = Run(t[1], Len(t))
    BY <2>2, <2>3, Zenon
  <2>5. \A id \in named : id <= Last(t)
    BY <1>1, <1>3, <2>2
  <2>6. ASSUME Len(t) < MaxStored PROVE named \subseteq utterances
    <3>1. ASSUME NEW i \in 1..h PROVE i \in DOMAIN t /\ t[i] = i
      <4>1. Len(t) = h /\ i \in 1..Len(t) /\ DOMAIN t = 1..Len(t)
        BY <1>1, <2>6
      <4>2. t[i] = h - Len(t) + i
        BY <1>1, <4>1
      <4> QED BY <1>1, <4>1, <4>2
    <3>2. 1..h \subseteq utterances
      BY <3>1 DEF ToSet
    <3> QED BY <1>3, <3>2
  <2> QED BY <1>5, <2>4, <2>5, <2>6, Zenon DEF named, t
<1> QED
  BY <1>4, <1>5

\* A report is of one moment of the session, also when it is made from the copy
\* of a stop while the stream and the batcher go on
\* (BilingualSessionState::stop, export_bilingual_interview_report).
THEOREM ReportIsConsistent == TranslationSpec => []ReportIsOfOneMoment
<1>1. TranslationInv => ReportIsOfOneMoment
  <2> DEFINE report == export_bilingual_interview_report
  <2> SUFFICES ASSUME TranslationInv PROVE \E h : Moment(report, h)
    BY MomentIsConsistent DEF ReportIsOfOneMoment
  <2>1. CASE place = "held"
    BY <2>1, NowIsMoment DEF TranslationInv, export_bilingual_interview_report
  <2>2. CASE place = "stopped"
    BY <2>2 DEF TranslationInv, ReportInv, export_bilingual_interview_report
  <2>3. CASE place \notin {"held", "stopped"}
    <3>1. report = NoReport
      BY <2>3 DEF export_bilingual_interview_report
    <3>2. Moment(NoReport, 0)
      BY TranslationAssumption DEF Moment, Kept, Latest, NoReport
    <3> QED BY <3>1, <3>2
  <2> QED BY <2>1, <2>2, <2>3
<1>2. QED
  BY <1>1, TranslationInvAlways, PTL

-----------------------------------------------------------------------------
(* The lines of text of a body *)

\* One more line is looked at.
Looked(body, from, i, q) ==
    IF i >= from /\ body[i] = "text" /\ \A k \in from..(i - 1) : body[k] # "done"
    THEN Append(q, i) ELSE q

\* The numbers of the lines of text up to each line
Reads(f, body, from, n) ==
    /\ f \in [0..n -> Seq(Nat)] /\ f[0] = <<>>
    /\ \A i \in 1..n : f[i] = Looked(body, from, i, f[i - 1])

\* The lines of text are what such a function holds of the last line.
LEMMA TextReads ==
    ASSUME NEW body, NEW from \in Nat \ {0}, NEW n \in Nat
    PROVE  \E f : Reads(f, body, from, n) /\ TextLines(body, from, n) = f[n]
<1> DEFINE step == [i \in 1..n |-> [q \in Seq(Nat) |-> Looked(body, from, i, q)]]
           Body(f) == [i \in 0..n |->
                IF i < from THEN <<>>
                ELSE IF body[i] = "text" /\ \A k \in from..(i - 1) : body[k] # "done"
                     THEN Append(f[i - 1], i) ELSE f[i - 1]]
           read == CHOOSE f : f = Body(f)
<1>1. TextLines(body, from, n) = read[n]
  BY DEF TextLines
<1>2. \A i \in 1..n, q \in Seq(Nat) : Looked(body, from, i, q) \in Seq(Nat)
  BY DEF Looked
<1>3. step \in [1..n -> [Seq(Nat) -> Seq(Nat)]]
  <2>1. \A i \in 1..n : [q \in Seq(Nat) |-> Looked(body, from, i, q)] \in [Seq(Nat) -> Seq(Nat)]
    BY <1>2
  <2> QED BY <2>1
<1>4. PICK g : Builds(g, n, Seq(Nat), <<>>, step)
  <2> HIDE DEF step
  <2> QED BY <1>3, EmptySeq, PrefixRecursion
<1>5. Reads(g, body, from, n)
  <2>1. g \in [0..n -> Seq(Nat)] /\ g[0] = <<>> /\ \A i \in 1..n : g[i] = step[i][g[i - 1]]
    <3> HIDE DEF step
    <3> QED BY <1>4 DEF Builds
  <2>2. \A i \in 1..n, q \in Seq(Nat) : step[i][q] = Looked(body, from, i, q)
    OBVIOUS
  <2>3. \A i \in 1..n : i - 1 \in 0..n
    OBVIOUS
  <2> HIDE DEF step
  <2> QED BY <2>1, <2>2, <2>3 DEF Reads
<1> HIDE DEF step
<1> DEFINE S == {i \in 0..n : i < from => g[i] = <<>>}
<1>6. \A i \in 0..n : i < from => g[i] = <<>>
  <2>1. 0 \in S
    BY <1>5 DEF Reads
  <2>2. ASSUME NEW i \in 1..n, i - 1 \in S PROVE i \in S
    BY <1>5, <2>2 DEF Reads, Looked
  <2>3. 0..n \subseteq S
    <3> HIDE DEF S
    <3> QED BY <2>1, <2>2, UpTo
  <2> QED BY <2>3
<1>7. g = Body(g)
  <2>1. \A i \in 0..n : i >= from => g[i] = Looked(body, from, i, g[i - 1])
    BY <1>5 DEF Reads
  <2>2. \A i \in 0..n : Body(g)[i] = IF i < from THEN <<>> ELSE Looked(body, from, i, g[i - 1])
    BY DEF Looked
  <2>3. \A i \in 0..n : Body(g)[i] = g[i]
    <3> HIDE DEF Body
    <3> QED BY <1>6, <2>1, <2>2
  <2>4. Body(g) = [i \in 0..n |-> Body(g)[i]] /\ g = [i \in 0..n |-> g[i]]
    BY <1>5 DEF Reads
  <2> HIDE DEF Body
  <2> QED BY <2>3, <2>4
<1>8. read = Body(read)
  <2> HIDE DEF Body
  <2> QED BY <1>7
<1> HIDE DEF read
<1> DEFINE T == {i \in 0..n : read[i] = g[i]}
<1>9. \A i \in 0..n : read[i] = IF i < from THEN <<>> ELSE Looked(body, from, i, read[i - 1])
  <2>1. \A i \in 0..n : Body(read)[i] = IF i < from THEN <<>> ELSE Looked(body, from, i, read[i - 1])
    BY DEF Looked
  <2> HIDE DEF Body
  <2> QED BY <1>8, <2>1
<1> HIDE DEF Body
<1>10. 0 \in T
  BY <1>6, <1>9
<1>11. ASSUME NEW i \in 1..n, i - 1 \in T PROVE i \in T
  <2>1. i \in 0..n /\ i - 1 \in 0..n /\ read[i - 1] = g[i - 1] /\ g[i] = Looked(body, from, i, g[i - 1])
    BY <1>5, <1>11 DEF Reads
  <2>2. CASE i < from
    BY <1>6, <1>9, <2>1, <2>2
  <2>3. CASE ~(i < from)
    BY <1>9, <2>1, <2>3
  <2> QED BY <2>2, <2>3
<1>12. 0..n \subseteq T
  <2> HIDE DEF T
  <2> QED BY <1>10, <1>11, UpTo
<1> QED
  BY <1>1, <1>5, <1>12

\* Line by line.
LEMMA TextNext ==
    ASSUME NEW body, NEW from \in Nat \ {0}, NEW n \in Nat \ {0}
    PROVE  TextLines(body, from, n) = Looked(body, from, n, TextLines(body, from, n - 1))
<1>1. n - 1 \in Nat
  OBVIOUS
<1>2. PICK f : Reads(f, body, from, n) /\ TextLines(body, from, n) = f[n]
  BY TextReads
<1>3. PICK g : Reads(g, body, from, n - 1) /\ TextLines(body, from, n - 1) = g[n - 1]
  BY <1>1, TextReads
<1> DEFINE T == {i \in 0..(n - 1) : f[i] = g[i]}
<1>4. 0 \in T
  BY <1>2, <1>3 DEF Reads
<1>5. ASSUME NEW i \in 1..(n - 1), i - 1 \in T PROVE i \in T
  BY <1>2, <1>3, <1>5 DEF Reads
<1>6. 0..(n - 1) \subseteq T
  <2> HIDE DEF T
  <2> QED BY <1>1, <1>4, <1>5, UpTo
<1> QED
  BY <1>2, <1>3, <1>6 DEF Reads

\* Nothing before the first.
LEMMA TextBefore ==
    ASSUME NEW body, NEW from \in Nat \ {0}, NEW n \in Nat, n < from
    PROVE  TextLines(body, from, n) = <<>>
<1> DEFINE T == {i \in 0..n : TextLines(body, from, i) = <<>>}
<1>1. 0 \in T
  <2>1. PICK f : Reads(f, body, from, 0) /\ TextLines(body, from, 0) = f[0]
    BY TextReads
  <2> QED BY <2>1 DEF Reads
<1>2. ASSUME NEW i \in 1..n, i - 1 \in T PROVE i \in T
  <2>1. TextLines(body, from, i) = Looked(body, from, i, TextLines(body, from, i - 1))
    BY TextNext
  <2> QED BY <1>2, <2>1 DEF Looked
<1>3. 0..n \subseteq T
  <2> HIDE DEF T
  <2> QED BY <1>1, <1>2, UpTo
<1> QED
  BY <1>3

\* The numbers are in order, and of the lines looked at.
Rising(q, from, to) ==
    /\ q \in Seq(Nat)
    /\ \A i \in 1..Len(q) : from <= q[i] /\ q[i] <= to
    /\ \A i, j \in 1..Len(q) : i < j => q[i] < q[j]

\* Every list of lines of text is of this kind.
LEMMA TextRises ==
    ASSUME NEW body, NEW from \in Nat \ {0}, NEW n \in Nat
    PROVE  Rising(TextLines(body, from, n), from, n)
<1> DEFINE T == {i \in 0..n : Rising(TextLines(body, from, i), from, i)}
<1>1. 0 \in T
  <2>1. TextLines(body, from, 0) = <<>>
    BY TextBefore
  <2>2. Rising(<<>>, from, 0)
    BY EmptySeq DEF Rising
  <2> QED BY <2>1, <2>2
<1>2. ASSUME NEW i \in 1..n, i - 1 \in T PROVE i \in T
  <2> DEFINE p == TextLines(body, from, i - 1)
             q == TextLines(body, from, i)
  <2>1. q = Looked(body, from, i, p) /\ Rising(p, from, i - 1) /\ i \in Nat
    BY <1>2, TextNext
  <2> HIDE DEF p, q
  <2>2. ASSUME q = Append(p, i), from <= i PROVE Rising(q, from, i)
    <3>1. q \in Seq(Nat) /\ Len(q) = Len(p) + 1 /\ q[Len(q)] = i
      BY <2>1, <2>2 DEF Rising
    <3>2. \A k \in 1..Len(p) : q[k] = p[k] /\ p[k] <= i - 1 /\ from <= p[k] /\ p[k] \in Nat
      BY <2>1, <2>2 DEF Rising
    <3>3. \A k, l \in 1..Len(p) : k < l => p[k] < p[l]
      BY <2>1 DEF Rising
    <3>4. Len(p) \in Nat
      BY <2>1 DEF Rising
    <3> QED BY <2>1, <2>2, <3>1, <3>2, <3>3, <3>4 DEF Rising
  <2>3. Rising(q, from, i)
    <3>1. q = p => Rising(q, from, i)
      BY <2>1 DEF Rising
    <3> QED BY <2>1, <2>2, <3>1 DEF Looked
  <2> QED BY <2>3 DEF q
<1>3. 0..n \subseteq T
  <2> HIDE DEF T
  <2> QED BY <1>1, <1>2, UpTo
<1> QED
  BY <1>3

\* The numbers of the lines read so far are the first of all of them.
Begins(p, q) ==
    /\ Len(p) <= Len(q)
    /\ \A i \in 1..Len(p) : p[i] = q[i]

\* A beginning of a beginning is one.
LEMMA BeginsTrans ==
    ASSUME NEW S, NEW p \in Seq(S), NEW q \in Seq(S), NEW r \in Seq(S), Begins(p, q), Begins(q, r)
    PROVE  Begins(p, r)
BY DEF Begins

\* Piece k is number k + 1 of both.
LEMMA BeginsAt ==
    ASSUME NEW p \in Seq(Nat), NEW q \in Seq(Nat), Begins(p, q), NEW k \in 0..(Len(p) - 1)
    PROVE  k \in 0..(Len(q) - 1) /\ p[k + 1] = q[k + 1]
<1>1. k + 1 \in 1..Len(p)
  OBVIOUS
<1> QED
  BY <1>1 DEF Begins

\* Looking at more lines adds to the text at its end.
LEMMA TextBegins ==
    ASSUME NEW body, NEW from \in Nat \ {0}, NEW m \in Nat, NEW n \in Nat, m <= n
    PROVE  Begins(TextLines(body, from, m), TextLines(body, from, n))
<1> DEFINE T == {i \in 0..n : i >= m => Begins(TextLines(body, from, m), TextLines(body, from, i))}
<1>1. \A i \in Nat : TextLines(body, from, i) \in Seq(Nat)
  BY TextRises DEF Rising
<1>2. Begins(TextLines(body, from, m), TextLines(body, from, m))
  BY <1>1 DEF Begins
<1>3. 0 \in T
  BY <1>2
<1>4. ASSUME NEW i \in 1..n, i - 1 \in T PROVE i \in T
  <2> DEFINE o == TextLines(body, from, m)
             p == TextLines(body, from, i - 1)
             q == TextLines(body, from, i)
  <2>1. o \in Seq(Nat) /\ p \in Seq(Nat) /\ q \in Seq(Nat) /\ i - 1 \in Nat /\ i \in Nat
    BY <1>1
  <2>2. CASE i <= m
    BY <1>2, <2>2
  <2>3. CASE i > m
    <3>1. Begins(o, p)
      BY <1>4, <2>3
    <3>2. q = Looked(body, from, i, p)
      BY TextNext
    <3> HIDE DEF o, p, q
    <3>3. Begins(p, q)
      BY <2>1, <3>2 DEF Begins, Looked
    <3>4. Begins(o, q)
      BY <2>1, <3>1, <3>3, BeginsTrans
    <3> QED BY <3>4 DEF o, q
  <2> QED BY <2>2, <2>3
<1>5. 0..n \subseteq T
  <2> HIDE DEF T
  <2> QED BY <1>3, <1>4, UpTo
<1> QED
  BY <1>5

\* Before the mark of the end, the lines of text are those of two parts.
LEMMA TextParts ==
    ASSUME NEW body, NEW m \in Nat, NEW n \in Nat, m <= n,
           \A k \in 1..m : body[k] # "done"
    PROVE  TextLines(body, 1, n) = Joined(TextLines(body, 1, m), TextLines(body, m + 1, n))
<1> DEFINE Whole(i) == TextLines(body, 1, i)
           Part(i) == TextLines(body, m + 1, i)
           T == {i \in 0..n : i >= m => Whole(i) = Joined(Whole(m), Part(i))}
<1>1. \A i \in Nat : Whole(i) \in Seq(Nat) /\ Part(i) \in Seq(Nat)
  BY TextRises DEF Rising
<1>2. Whole(m) = Joined(Whole(m), Part(m))
  <2>1. Part(m) = <<>>
    BY TextBefore
  <2> HIDE DEF Whole, Part
  <2> QED BY <1>1, <2>1, JoinedEmpty
<1>3. 0 \in T
  BY <1>2
<1>4. ASSUME NEW i \in 1..n, i - 1 \in T PROVE i \in T
  <2>1. CASE i <= m
    BY <1>2, <2>1
  <2>2. CASE i > m
    <3>1. Whole(i - 1) = Joined(Whole(m), Part(i - 1))
      BY <1>4, <2>2
    <3>2. Whole(i) = Looked(body, 1, i, Whole(i - 1)) /\ Part(i) = Looked(body, m + 1, i, Part(i - 1))
      BY TextNext
    <3>3. (\A k \in 1..(i - 1) : body[k] # "done") <=> (\A k \in (m + 1)..(i - 1) : body[k] # "done")
      BY <2>2
    <3>4. Whole(m) \in Seq(Nat) /\ Part(i - 1) \in Seq(Nat)
      BY <1>1
    <3> HIDE DEF Whole, Part
    <3>5. CASE Part(i) = Part(i - 1) /\ Whole(i) = Whole(i - 1)
      BY <2>2, <3>1, <3>5
    <3>6. CASE Part(i) = Append(Part(i - 1), i) /\ Whole(i) = Append(Whole(i - 1), i)
      <4>1. Append(Joined(Whole(m), Part(i - 1)), i) = Joined(Whole(m), Append(Part(i - 1), i))
        <5>1. i \in Nat /\ \A u \in Seq(Nat) : Append(u, i) = Joined(u, <<i>>) /\ <<i>> \in Seq(Nat)
          BY AppendJoins
        <5>2. Joined(Whole(m), Part(i - 1)) \in Seq(Nat)
          BY <3>4, JoinedType
        <5>3. Joined(Joined(Whole(m), Part(i - 1)), <<i>>) = Joined(Whole(m), Joined(Part(i - 1), <<i>>))
          <6>1. \A u, v, w \in Seq(Nat) : Joined(Joined(u, v), w) = Joined(u, Joined(v, w))
            BY JoinedAgain
          <6> QED BY <3>4, <5>1, <6>1
        <5> QED BY <3>4, <5>1, <5>2, <5>3
      <4>2. Whole(i) = Joined(Whole(m), Part(i))
        BY <3>1, <3>6, <4>1, Zenon
      <4> QED BY <4>2
    <3> QED BY <2>2, <3>2, <3>3, <3>5, <3>6 DEF Looked
  <2> QED BY <2>1, <2>2
<1>5. 0..n \subseteq T
  <2> HIDE DEF T
  <2> QED BY <1>3, <1>4, UpTo
<1> QED
  BY <1>5

(* What is asked, sent and shown *)

\* The calls, the messages, and what the window shows
Captures == [at : {"none", "streaming", "analyzing", "ended"}, session : Nat, body : Seq(Lines),
             bare : BOOLEAN, got : Nat, pieces : Seq(Nat)]
Messages == [what : {"chunk", "final", "ready", "failed", "active"}, of : Answers \cup {0},
             session : Nat, index : Nat, line : Nat]
Pieces == [of : Answers, line : Nat]
Views == [session : Nat, last : Int, text : Seq(Pieces), mixed : BOOLEAN]

\* The type of every variable of the stream
StreamTypeOK ==
    /\ capture \in [Answers -> Captures] /\ current \in Nat \ {0}
    /\ messages \in Seq(Messages) /\ view \in Views

\* The pieces of an answer are the first lines of its text; those that are read
\* while the stream runs are before the mark of the end.
ReadSoFar(c) ==
    /\ IF c.at = "none" THEN c.pieces = <<>> ELSE c.session > 0
    /\ c.at = "streaming" =>
         /\ c.got <= 2 * Len(c.body) /\ (c.bare => Len(c.body) > 0)
         /\ \A k \in 1..Complete(c, c.got) : c.body[k] # "done"
         /\ c.pieces = TextLines(c.body, 1, Complete(c, c.got))
    /\ Begins(c.pieces, TextLines(c.body, 1, Len(c.body)))

\* Every call has read its text in order, and belongs to a session that was started.
CaptureInv == \A a \in Answers : ReadSoFar(capture[a]) /\ capture[a].session <= current

\* A piece, or the chunk that closes the stream
OfStream(m) == m.what \in {"chunk", "final"}

\* What a message on its way says of its answer
Faithful(m) ==
    /\ m.what # "active" => m.of \in Answers
    /\ m.what = "active" => m.session <= current
    /\ OfStream(m) => m.session = capture[m.of].session
    /\ m.what = "chunk" => /\ m.index < Len(capture[m.of].pieces)
                           /\ m.line = capture[m.of].pieces[m.index + 1]
    /\ m.what = "final" => /\ m.index = Len(capture[m.of].pieces)
                           /\ capture[m.of].at \in {"analyzing", "ended"}
    /\ m.what = "ready" => m.line = 0

\* An answer's pieces are on their way in their order, after the name of their
\* session.
Follows(m, n) ==
    /\ OfStream(m) /\ OfStream(n) /\ m.of = n.of => m.index < n.index
    /\ OfStream(m) /\ n.what = "active" => m.session # n.session

\* Piece k of the answer is on its way.
Queued(a, k) == \E i \in 1..Len(messages) :
                    /\ messages[i].what = "chunk" /\ messages[i].of = a /\ messages[i].index = k

\* While the name of a session is on its way, so is every piece of its answers.
QueueInv ==
    /\ \A i \in 1..Len(messages) : Faithful(messages[i])
    /\ \A i, j \in 1..Len(messages) : i < j => Follows(messages[i], messages[j])
    /\ \A i \in 1..Len(messages), a \in Answers :
         messages[i].what = "active" /\ messages[i].session = capture[a].session =>
             \A k \in 0..(Len(capture[a].pieces) - 1) : Queued(a, k)

\* More of an answer may be shown.
Live(a) ==
    /\ capture[a].session \in Awaited
    /\ \/ capture[a].at = "streaming"
       \/ \E i \in 1..Len(messages) : OfStream(messages[i]) /\ messages[i].of = a

\* A piece that is shown is one before those on their way.
Shown(p) ==
    p.line # 0 => \E k \in 0..(Len(capture[p.of].pieces) - 1) :
                     /\ capture[p.of].pieces[k + 1] = p.line
                     /\ \A i \in 1..Len(messages) :
                          messages[i].what = "chunk" /\ messages[i].of = p.of => messages[i].index > k
\* The pieces shown of one answer are in its order, also when answers mix.
ShownInv ==
    /\ view.last >= -1
    /\ \A i \in 1..Len(view.text) : Shown(view.text[i])
    /\ \A i, j \in 1..Len(view.text) :
         i < j /\ view.text[i].of = view.text[j].of => view.text[i].line < view.text[j].line

\* What is not shown of a live answer is on its way.
Pending(a) ==
    /\ view.last < Len(capture[a].pieces)
    /\ \A k \in 0..(Len(capture[a].pieces) - 1) : k > view.last <=> Queued(a, k)

\* The text is the first pieces of an answer.
TextOf(a) ==
    /\ Len(view.text) <= Len(capture[a].pieces)
    /\ \A i \in 1..Len(view.text) : view.text[i] = [of |-> a, line |-> capture[a].pieces[i]]

\* When the text is not mixed, it is of the only answer of which more may be shown.
SingleInv ==
    ~view.mixed =>
        /\ \A a, b \in Answers : Live(a) /\ Live(b) => a = b
        /\ \A a \in Answers : Live(a) => Pending(a) /\ (view.text = <<>> => view.last = -1)
        /\ view.text # <<>> /\ view.text[1].line # 0 =>
             /\ TextOf(view.text[1].of)
             /\ \A a \in Answers : Live(a) => a = view.text[1].of /\ view.last = Len(view.text) - 1

\* The inductive invariant of the stream
StreamInv == StreamTypeOK /\ CaptureInv /\ QueueInv /\ ShownInv /\ SingleInv

----------------------------------------------------------------------------
(* A step of the backend *)

\* Message i is one that was sent in this step.
Sent(i) == i \in (Len(messages) + 1)..Len(messages')

\* What a step of the backend for an answer does
Grows(a) ==
    /\ view' = view /\ current' = current
    /\ \A b \in Answers : b # a => capture'[b] = capture[b]
    /\ capture'[a].session = capture[a].session /\ capture'[a].at # "none"
    /\ capture'[a].at = "streaming" => capture[a].at = "streaming"
    /\ capture[a].at \in {"analyzing", "ended"} =>
         capture'[a].at \in {"analyzing", "ended"} /\ capture'[a].pieces = capture[a].pieces
    /\ Begins(capture[a].pieces, capture'[a].pieces)
    /\ Begins(messages, messages')
    /\ \A i \in Nat : Sent(i) =>
         /\ messages'[i].what # "active" /\ messages'[i].of = a
         /\ OfStream(messages'[i]) =>
              /\ messages'[i].session = capture[a].session /\ capture[a].at = "streaming"
              /\ messages'[i].index >= Len(capture[a].pieces)
         /\ messages'[i].what = "chunk" =>
              /\ messages'[i].index < Len(capture'[a].pieces)
              /\ messages'[i].line = capture'[a].pieces[messages'[i].index + 1]
         /\ messages'[i].what = "final" =>
              /\ messages'[i].index = Len(capture'[a].pieces) /\ capture'[a].at = "analyzing"
         /\ messages'[i].what = "ready" => messages'[i].line = 0
    /\ \A i, j \in Nat : /\ Sent(i) /\ Sent(j) /\ i < j
                         /\ OfStream(messages'[i]) /\ OfStream(messages'[j])
                         => messages'[i].index < messages'[j].index
    /\ \A k \in Len(capture[a].pieces)..(Len(capture'[a].pieces) - 1) :
         \E i \in Nat : Sent(i) /\ messages'[i].what = "chunk" /\ messages'[i].index = k

\* Every number of a message is one of before, or of one sent.
LEMMA GrownMessages ==
    ASSUME StreamTypeOK, StreamTypeOK', NEW a \in Answers, Grows(a)
    PROVE  /\ Len(messages) \in Nat /\ Len(messages') \in Nat /\ Len(messages) <= Len(messages')
           /\ \A i \in 1..Len(messages) : messages'[i] = messages[i] /\ i \in 1..Len(messages')
           /\ \A i \in 1..Len(messages') : i \in 1..Len(messages) \/ (Sent(i) /\ i > Len(messages))
           /\ \A i : Sent(i) => i \in 1..Len(messages')
BY DEF StreamTypeOK, Grows, Begins, Sent

\* The other answers are as they were, and this one has its pieces and perhaps more.
LEMMA GrownAnswers ==
    ASSUME StreamTypeOK, StreamTypeOK', NEW a \in Answers, Grows(a), NEW b \in Answers
    PROVE  /\ capture[b] \in Captures /\ capture'[b] \in Captures
           /\ capture'[b].session = capture[b].session
           /\ Begins(capture[b].pieces, capture'[b].pieces)
           /\ b # a => capture'[b] = capture[b]
<1>1. capture[b] \in Captures /\ capture'[b] \in Captures
  BY DEF StreamTypeOK
<1>2. Begins(capture[b].pieces, capture[b].pieces)
  BY <1>1 DEF Begins, Captures
<1>3. QED
  BY <1>1, <1>2 DEF Grows

\* The pieces that are added are sent, in order, behind what is on its way.
LEMMA GrownQueue ==
    ASSUME StreamTypeOK, StreamTypeOK', QueueInv, NEW a \in Answers, Grows(a)
    PROVE  /\ QueueInv'
           /\ \A b \in Answers : \A k \in 0..(Len(capture[b].pieces) - 1) : Queued(b, k)' <=> Queued(b, k)
           /\ \A b \in Answers : \A k \in Len(capture[b].pieces)..(Len(capture'[b].pieces) - 1) : Queued(b, k)'
<1>1. /\ Len(messages) \in Nat /\ Len(messages') \in Nat /\ Len(messages) <= Len(messages')
      /\ \A i \in 1..Len(messages) : messages'[i] = messages[i] /\ i \in 1..Len(messages')
      /\ \A i \in 1..Len(messages') : i \in 1..Len(messages) \/ (Sent(i) /\ i > Len(messages))
      /\ \A i : Sent(i) => i \in 1..Len(messages')
  BY GrownMessages
<1>2. \A b \in Answers : /\ capture[b] \in Captures /\ capture'[b] \in Captures
                         /\ capture'[b].session = capture[b].session
                         /\ Begins(capture[b].pieces, capture'[b].pieces)
                         /\ b # a => capture'[b] = capture[b]
  BY GrownAnswers
<1>3. \A i \in 1..Len(messages) : messages[i] \in Messages
  BY DEF StreamTypeOK
<1>4. \A i \in 1..Len(messages') : messages'[i] \in Messages
  BY DEF StreamTypeOK
<1>5. ASSUME NEW i \in 1..Len(messages') PROVE Faithful(messages[i])'
  <2>1. CASE i \in 1..Len(messages)
    <3>1. Faithful(messages[i]) /\ messages'[i] = messages[i] /\ messages[i] \in Messages
      BY <1>1, <1>3, <2>1 DEF QueueInv
    <3>2. current' = current
      BY DEF Grows
    <3>3. ASSUME OfStream(messages[i]) PROVE Faithful(messages[i])'
      <4>1. PICK m \in Messages : m = messages[i]
        BY <3>1
      <4>2. PICK b \in Answers : b = m.of
        BY <3>1, <3>3, <4>1 DEF Faithful, OfStream
      <4>3. /\ capture'[b].session = capture[b].session /\ Begins(capture[b].pieces, capture'[b].pieces)
            /\ capture[b].pieces \in Seq(Nat) /\ capture'[b].pieces \in Seq(Nat)
        BY <1>2 DEF Captures
      <4>4. m.session = capture[b].session /\ m.what # "active"
        BY <3>1, <3>3, <4>1, <4>2 DEF Faithful, OfStream
      <4>5. ASSUME m.what = "chunk"
            PROVE  m.index < Len(capture'[b].pieces) /\ m.line = capture'[b].pieces[m.index + 1]
        <5>1. m.index < Len(capture[b].pieces) /\ m.line = capture[b].pieces[m.index + 1] /\ m.index \in Nat
          BY <3>1, <4>1, <4>2, <4>5 DEF Faithful, Messages
        <5>2. m.index \in 0..(Len(capture[b].pieces) - 1)
          BY <4>3, <5>1
        <5>3. /\ m.index \in 0..(Len(capture'[b].pieces) - 1)
              /\ capture[b].pieces[m.index + 1] = capture'[b].pieces[m.index + 1]
          BY <4>3, <5>2, BeginsAt
        <5> QED BY <4>3, <5>1, <5>3
      <4>6. ASSUME m.what = "final"
            PROVE  m.index = Len(capture'[b].pieces) /\ capture'[b].at \in {"analyzing", "ended"}
        <5>1. m.index = Len(capture[b].pieces) /\ capture[b].at \in {"analyzing", "ended"}
          BY <3>1, <4>1, <4>2, <4>6 DEF Faithful
        <5>2. capture'[b].pieces = capture[b].pieces /\ capture'[b].at \in {"analyzing", "ended"}
          BY <1>2, <5>1 DEF Grows
        <5> QED BY <5>1, <5>2
      <4> QED BY <3>1, <4>1, <4>2, <4>3, <4>4, <4>5, <4>6 DEF Faithful
    <3> QED BY <3>1, <3>2, <3>3 DEF Faithful, OfStream
  <2>2. CASE Sent(i)
    BY <1>2, <1>4, <2>2 DEF Grows, Faithful, OfStream
  <2> QED BY <1>1, <2>1, <2>2
<1>6. ASSUME NEW i \in 1..Len(messages'), NEW j \in 1..Len(messages'), i < j
      PROVE  Follows(messages[i], messages[j])'
  <2>1. CASE j \in 1..Len(messages)
    <3>1. i \in 1..Len(messages) /\ messages'[i] = messages[i] /\ messages'[j] = messages[j]
      BY <1>1, <1>6, <2>1
    <3>2. Follows(messages[i], messages[j])
      BY <1>6, <2>1, <3>1 DEF QueueInv
    <3> QED BY <3>1, <3>2 DEF Follows, OfStream
  <2>2. CASE Sent(j)
    <3>1. messages'[j].what # "active" /\ messages'[j].of = a
      BY <2>2 DEF Grows
    <3>2. ASSUME OfStream(messages'[i]), OfStream(messages'[j]), messages'[i].of = messages'[j].of
          PROVE  messages'[i].index < messages'[j].index
      <4>1. CASE Sent(i)
        BY <1>6, <2>2, <3>2, <4>1 DEF Grows
      <4>2. CASE i \in 1..Len(messages)
        <5>1. messages'[i] = messages[i] /\ Faithful(messages[i]) /\ messages[i].of = a
          BY <1>1, <3>1, <3>2, <4>2 DEF QueueInv
        <5>2. capture[a].at = "streaming" /\ messages'[j].index >= Len(capture[a].pieces)
          BY <2>2, <3>2 DEF Grows
        <5>3. messages[i].what = "chunk" /\ messages[i].index < Len(capture[a].pieces)
          BY <3>2, <5>1, <5>2 DEF Faithful, OfStream
        <5>4. /\ messages[i].index \in Nat /\ messages'[j].index \in Nat
              /\ Len(capture[a].pieces) \in Nat
          BY <1>2, <1>3, <1>4, <4>2 DEF Messages, Captures
        <5> QED BY <5>1, <5>2, <5>3, <5>4
      <4> QED BY <1>1, <4>1, <4>2
    <3> QED BY <3>1, <3>2 DEF Follows, OfStream
  <2> QED BY <1>1, <2>1, <2>2
<1>7. \A b \in Answers : \A k : Queued(b, k) => Queued(b, k)'
  BY <1>1 DEF Queued
<1>8. ASSUME NEW b \in Answers, NEW k \in 0..(Len(capture[b].pieces) - 1), Queued(b, k)' PROVE Queued(b, k)
  <2>1. PICK i \in 1..Len(messages') :
          messages'[i].what = "chunk" /\ messages'[i].of = b /\ messages'[i].index = k
    BY <1>8 DEF Queued
  <2>2. CASE Sent(i)
    <3>1. messages'[i].of = a /\ messages'[i].index >= Len(capture[a].pieces)
      BY <2>1, <2>2 DEF Grows, OfStream
    <3> QED BY <1>2, <2>1, <3>1 DEF Captures
  <2>3. CASE i \in 1..Len(messages)
    BY <1>1, <2>1, <2>3 DEF Queued
  <2> QED BY <1>1, <2>1, <2>2, <2>3
<1>9. ASSUME NEW b \in Answers, NEW k \in Len(capture[b].pieces)..(Len(capture'[b].pieces) - 1)
      PROVE  Queued(b, k)'
  <2>1. b = a
    <3>1. b # a => capture'[b] = capture[b]
      BY <1>2
    <3>2. Len(capture[b].pieces) \in Nat
      BY <1>2 DEF Captures
    <3> QED BY <1>9, <3>1, <3>2
  <2>2. PICK i \in Nat : Sent(i) /\ messages'[i].what = "chunk" /\ messages'[i].index = k
    BY <1>9, <2>1 DEF Grows
  <2>3. i \in 1..Len(messages') /\ messages'[i].of = a
    BY <1>1, <2>2 DEF Grows
  <2> QED BY <2>1, <2>2, <2>3 DEF Queued
<1>10. ASSUME NEW i \in 1..Len(messages'), NEW b \in Answers,
              messages'[i].what = "active", messages'[i].session = capture'[b].session,
              NEW k \in 0..(Len(capture'[b].pieces) - 1)
       PROVE  Queued(b, k)'
  <2>1. i \in 1..Len(messages) /\ messages'[i] = messages[i]
    BY <1>1, <1>10 DEF Grows
  <2>2. CASE k < Len(capture[b].pieces)
    <3>1. k \in 0..(Len(capture[b].pieces) - 1)
      BY <1>2, <2>2 DEF Captures
    <3>2. Queued(b, k)
      BY <1>2, <1>10, <2>1, <3>1 DEF QueueInv
    <3> QED BY <1>7, <3>2
  <2>3. CASE k >= Len(capture[b].pieces)
    <3>1. k \in Len(capture[b].pieces)..(Len(capture'[b].pieces) - 1)
      BY <1>2, <2>3 DEF Captures
    <3> QED BY <1>9, <3>1
  <2> QED BY <1>2, <2>2, <2>3 DEF Captures
<1>11. QueueInv'
  BY <1>5, <1>6, <1>10 DEF QueueInv
<1> QED BY <1>7, <1>8, <1>9, <1>11

\* What is shown stays right, for what is not shown of a live answer is on its way.
LEMMA GrownView ==
    ASSUME StreamTypeOK, StreamTypeOK', QueueInv, ShownInv, SingleInv, NEW a \in Answers, Grows(a)
    PROVE  ShownInv' /\ SingleInv'
<1>1. /\ Len(messages) \in Nat /\ Len(messages') \in Nat /\ Len(messages) <= Len(messages')
      /\ \A i \in 1..Len(messages) : messages'[i] = messages[i] /\ i \in 1..Len(messages')
      /\ \A i \in 1..Len(messages') : i \in 1..Len(messages) \/ (Sent(i) /\ i > Len(messages))
      /\ \A i : Sent(i) => i \in 1..Len(messages')
  BY GrownMessages
<1>2. \A b \in Answers : /\ capture[b].pieces \in Seq(Nat) /\ capture'[b].pieces \in Seq(Nat)
                         /\ capture'[b].session = capture[b].session
                         /\ Begins(capture[b].pieces, capture'[b].pieces)
                         /\ b # a => capture'[b] = capture[b]
  BY GrownAnswers DEF Captures
<1>3. view' = view /\ view.text \in Seq(Pieces) /\ view.last \in Int /\ Awaited' = Awaited
  <2>1. view' = view /\ view.text \in Seq(Pieces) /\ view.last \in Int
    BY DEF Grows, StreamTypeOK, Views
  <2>2. \A n : n \in ToSet(messages) /\ n.what = "active" => n \in ToSet(messages')
    BY <1>1 DEF ToSet
  <2>3. \A n : n \in ToSet(messages') /\ n.what = "active" => n \in ToSet(messages)
    BY <1>1 DEF ToSet, Grows
  <2> QED BY <2>1, <2>2, <2>3 DEF Awaited
<1>4. \A p \in Pieces : Shown(p) => Shown(p)'
  <2> SUFFICES ASSUME NEW p \in Pieces, Shown(p), p.line # 0 PROVE Shown(p)'
    BY DEF Shown
  <2>1. PICK k \in 0..(Len(capture[p.of].pieces) - 1) :
          /\ capture[p.of].pieces[k + 1] = p.line
          /\ \A i \in 1..Len(messages) :
               messages[i].what = "chunk" /\ messages[i].of = p.of => messages[i].index > k
    BY DEF Shown
  <2>2. p.of \in Answers
    BY DEF Pieces
  <2>3. k \in 0..(Len(capture'[p.of].pieces) - 1) /\ capture'[p.of].pieces[k + 1] = p.line
    <3>1. /\ k \in 0..(Len(capture'[p.of].pieces) - 1)
          /\ capture[p.of].pieces[k + 1] = capture'[p.of].pieces[k + 1]
      BY <1>2, <2>1, <2>2, BeginsAt
    <3> QED BY <2>1, <3>1
  <2>4. ASSUME NEW i \in 1..Len(messages'), messages'[i].what = "chunk", messages'[i].of = p.of
        PROVE  messages'[i].index > k
    <3>1. CASE i \in 1..Len(messages)
      BY <1>1, <2>1, <2>4, <3>1
    <3>2. CASE Sent(i)
      <4>1. p.of = a /\ messages'[i].index >= Len(capture[a].pieces)
        BY <2>4, <3>2 DEF Grows, OfStream
      <4>2. messages'[i] \in Messages /\ Len(capture[a].pieces) \in Nat
        BY <1>2, <2>4 DEF StreamTypeOK
      <4> QED BY <2>1, <4>1, <4>2 DEF Messages
    <3> QED BY <1>1, <3>1, <3>2
  <2> QED BY <2>3, <2>4 DEF Shown
<1>5. ShownInv'
  <2>1. \A i \in 1..Len(view.text) : view.text[i] \in Pieces
    BY <1>3
  <2> QED BY <1>3, <1>4, <2>1 DEF ShownInv
<1>6. \A b \in Answers : Live(b)' => Live(b)
  <2> SUFFICES ASSUME NEW b \in Answers, Live(b)' PROVE Live(b)
    OBVIOUS
  <2>1. capture[b].session \in Awaited
    BY <1>2, <1>3 DEF Live
  <2>2. CASE capture'[b].at = "streaming"
    BY <1>2, <2>1, <2>2 DEF Live, Grows
  <2>3. ASSUME NEW i \in 1..Len(messages'), OfStream(messages'[i]), messages'[i].of = b PROVE Live(b)
    <3>1. CASE i \in 1..Len(messages)
      BY <1>1, <2>1, <2>3, <3>1 DEF Live
    <3>2. CASE Sent(i)
      BY <1>1, <2>1, <2>3, <3>2 DEF Live, Grows
    <3> QED BY <1>1, <3>1, <3>2
  <2> QED BY <2>2, <2>3 DEF Live, OfStream
<1>7. \A b \in Answers : Pending(b) => Pending(b)'
  <2> SUFFICES ASSUME NEW b \in Answers, Pending(b) PROVE Pending(b)'
    OBVIOUS
  <2>1. /\ \A k \in 0..(Len(capture[b].pieces) - 1) : Queued(b, k)' <=> Queued(b, k)
        /\ \A k \in Len(capture[b].pieces)..(Len(capture'[b].pieces) - 1) : Queued(b, k)'
    BY GrownQueue
  <2>2. view.last < Len(capture[b].pieces) /\ Len(capture[b].pieces) <= Len(capture'[b].pieces)
    BY <1>2 DEF Pending, Begins
  <2>3. Len(capture[b].pieces) \in Nat /\ Len(capture'[b].pieces) \in Nat
    BY <1>2
  <2>4. ASSUME NEW k \in 0..(Len(capture'[b].pieces) - 1) PROVE k > view.last <=> Queued(b, k)'
    <3>1. CASE k < Len(capture[b].pieces)
      <4>1. k \in 0..(Len(capture[b].pieces) - 1)
        BY <2>3, <3>1
      <4> QED BY <2>1, <4>1 DEF Pending
    <3>2. CASE k >= Len(capture[b].pieces)
      BY <1>3, <2>1, <2>2, <2>3, <3>2
    <3> QED BY <2>3, <3>1, <3>2
  <2> QED BY <1>3, <2>2, <2>3, <2>4 DEF Pending
<1>8. \A b \in Answers : TextOf(b) => TextOf(b)'
  <2> SUFFICES ASSUME NEW b \in Answers, TextOf(b) PROVE TextOf(b)'
    OBVIOUS
  <2>1. /\ Len(capture[b].pieces) \in Nat /\ Len(capture'[b].pieces) \in Nat
        /\ Len(capture[b].pieces) <= Len(capture'[b].pieces)
        /\ \A i \in 1..Len(capture[b].pieces) : capture[b].pieces[i] = capture'[b].pieces[i]
    BY <1>2 DEF Begins
  <2>2. Len(view.text) \in Nat /\ Len(view.text) <= Len(capture[b].pieces)
    BY <1>3 DEF TextOf
  <2>3. \A i \in 1..Len(view.text) : view.text[i] = [of |-> b, line |-> capture'[b].pieces[i]]
    BY <2>1, <2>2 DEF TextOf
  <2> QED BY <1>3, <2>1, <2>2, <2>3 DEF TextOf
<1>9. SingleInv'
  <2> SUFFICES ASSUME ~view.mixed PROVE SingleInv'
    BY <1>3 DEF SingleInv
  <2>1. view.text # <<>> => view.text[1].of \in Answers
    <3>1. view.text # <<>> => view.text[1] \in Pieces
      BY <1>3
    <3> QED BY <3>1 DEF Pieces
  <2> QED BY <1>3, <1>6, <1>7, <1>8, <2>1 DEF SingleInv
<1> QED BY <1>5, <1>9

\* The length of two sequences joined
LEMMA JoinedLen ==
    ASSUME NEW S, NEW u \in Seq(S), NEW v \in Seq(S)
    PROVE  Joined(u, v) \in Seq(S) /\ Len(Joined(u, v)) = Len(u) + Len(v)
BY DEF Joined

\* The first comes first.
LEMMA JoinedLeft ==
    ASSUME NEW S, NEW u \in Seq(S), NEW v \in Seq(S), NEW i \in 1..Len(u)
    PROVE  Joined(u, v)[i] = u[i]
BY DEF Joined

\* The second comes after it.
LEMMA JoinedRight ==
    ASSUME NEW S, NEW u \in Seq(S), NEW v \in Seq(S), NEW i \in 1..Len(v)
    PROVE  Joined(u, v)[Len(u) + i] = v[i]
BY DEF Joined

\* A line is complete with its second half, and the last may have no newline.
LEMMA CompleteLines ==
    ASSUME NEW c \in Captures, c.bare => Len(c.body) > 0, NEW h \in Nat, h <= 2 * Len(c.body)
    PROVE  /\ Complete(c, h) \in Nat /\ Complete(c, h) <= Len(c.body) /\ Complete(c, h) <= h \div 2
           /\ \A g \in Nat : h <= g /\ g <= 2 * Len(c.body) => Complete(c, h) <= Complete(c, g)
<1>1. Len(c.body) \in Nat /\ c.bare \in BOOLEAN
  BY DEF Captures
<1> QED
  BY <1>1 DEF Complete

\* A chunk, or the end of the body, adds the pieces read and sends each.
LEMMA LinesRead ==
    ASSUME StreamTypeOK, CaptureInv, NEW a \in Answers, capture[a].at = "streaming",
           NEW halves \in Nat, NEW to \in Nat, NEW ended \in BOOLEAN,
           ReadLines(a, halves, to, ended),
           Complete(capture[a], capture[a].got) <= to, to <= Len(capture[a].body),
           halves <= 2 * Len(capture[a].body), ~ended => to = Complete(capture[a], halves)
    PROVE  StreamTypeOK' /\ CaptureInv' /\ Grows(a)
<1> DEFINE c == capture[a]
           n == Complete(c, c.got)
           lines == TextLines(c.body, n + 1, to)
           pieces == TextLines(c.body, 1, to)
           over == ended \/ \E i \in (n + 1)..to : c.body[i] = "done"
           u == Chunks(a, lines)
           w == IF over THEN LastChunk(a, pieces) ELSE <<>>
           d == [c EXCEPT !.got = halves, !.pieces = pieces, !.at = IF over THEN "analyzing" ELSE @]
<1>1. c \in Captures /\ n \in Nat /\ ReadSoFar(c) /\ c.session <= current
  <2>1. c \in Captures /\ ReadSoFar(c) /\ c.session <= current
    BY DEF StreamTypeOK, CaptureInv
  <2> HIDE DEF c
  <2>2. c.at = "streaming"
    BY DEF c
  <2>3. c.bare => Len(c.body) > 0
    BY <2>1, <2>2 DEF ReadSoFar
  <2> QED BY <2>1, <2>3 DEF Complete, Captures
<1>2. /\ c.at = "streaming" /\ n <= to /\ to <= Len(c.body)
      /\ \A k \in 1..n : c.body[k] # "done"
      /\ c.pieces = TextLines(c.body, 1, n)
      /\ halves <= 2 * Len(c.body) /\ (c.bare => Len(c.body) > 0)
      /\ ~ended => to = Complete(c, halves)
  BY <1>1 DEF ReadSoFar
<1>3. /\ c.pieces \in Seq(Nat) /\ lines \in Seq(Nat) /\ pieces \in Seq(Nat)
      /\ pieces = Joined(c.pieces, lines) /\ Begins(c.pieces, pieces)
      /\ Begins(pieces, TextLines(c.body, 1, Len(c.body)))
  <2>1. pieces = Joined(TextLines(c.body, 1, n), lines)
    <3> HIDE DEF n, c
    <3> QED BY <1>1, <1>2, TextParts
  <2>2. Begins(c.pieces, pieces) /\ Begins(pieces, TextLines(c.body, 1, Len(c.body)))
    <3>1. Len(c.body) \in Nat
      BY <1>1 DEF Captures
    <3> HIDE DEF n, c
    <3> QED BY <1>1, <1>2, <3>1, TextBegins
  <2>3. c.pieces \in Seq(Nat) /\ lines \in Seq(Nat) /\ pieces \in Seq(Nat)
    <3>1. n + 1 \in Nat \ {0} /\ c.pieces \in Seq(Nat)
      BY <1>1 DEF Captures
    <3>2. \A from \in Nat \ {0} : TextLines(c.body, from, to) \in Seq(Nat)
      BY TextRises DEF Rising
    <3> HIDE DEF n, c
    <3> QED BY <3>1, <3>2
  <2> QED BY <1>2, <2>1, <2>2, <2>3
<1>4. Len(pieces) = Len(c.pieces) + Len(lines) /\ \A i \in 1..Len(lines) : pieces[Len(c.pieces) + i] = lines[i]
  <2> HIDE DEF pieces, lines, c
  <2>1. /\ Len(Joined(c.pieces, lines)) = Len(c.pieces) + Len(lines)
        /\ \A i \in 1..Len(lines) : Joined(c.pieces, lines)[Len(c.pieces) + i] = lines[i]
    BY <1>3, JoinedLen, JoinedRight
  <2> QED BY <1>3, <2>1, Zenon
<1>5. /\ messages' = Joined(Joined(messages, u), w) /\ capture' = [capture EXCEPT ![a] = d]
      /\ current' = current /\ view' = view
  <2>1. c.pieces \o lines = pieces
    <3> HIDE DEF pieces, lines, c
    <3> QED BY <1>3 DEF Joined
  <2>2. /\ messages' = (messages \o u) \o w
        /\ capture' = [capture EXCEPT ![a] = d]
        /\ current' = current /\ view' = view
    BY <2>1 DEF ReadLines, Unread
  <2> QED BY <2>2 DEF Joined
<1> HIDE DEF n, lines, pieces, over, d
<1>6. /\ d \in Captures /\ d.session = c.session /\ d.pieces = pieces /\ d.body = c.body
      /\ d.bare = c.bare /\ d.got = halves /\ d.at = IF over THEN "analyzing" ELSE "streaming"
  <2> HIDE DEF c
  <2> QED BY <1>1, <1>2, <1>3 DEF d, Captures
<1>7. u \in Seq(Messages) /\ Len(u) = Len(lines)
      /\ \A i \in 1..Len(lines) : u[i] = Message("chunk", a, Len(c.pieces) + i - 1, lines[i])
  <2>1. u = [i \in 1..Len(lines) |-> Message("chunk", a, Len(c.pieces) + i - 1, lines[i])]
    BY DEF Chunks
  <2>2. Len(lines) \in Nat /\ Len(c.pieces) \in Nat /\ c.session \in Nat
    BY <1>1, <1>3 DEF Captures
  <2>3. \A i \in 1..Len(lines) : Message("chunk", a, Len(c.pieces) + i - 1, lines[i]) \in Messages
    BY <1>3, <2>2 DEF Message, Messages
  <2> HIDE DEF u, c
  <2> QED BY <2>1, <2>2, <2>3
<1>8. /\ w \in Seq(Messages) /\ Len(w) \in {0, 1}
      /\ Len(w) = 1 => over /\ w[1] = Message("final", a, Len(pieces), 0)
  <2>1. Message("final", a, Len(pieces), 0) \in Messages
    BY <1>1, <1>3 DEF Message, Messages, Captures
  <2> QED BY <2>1 DEF LastChunk
<1> HIDE DEF u, w
<1>9. /\ messages \in Seq(Messages) /\ messages' \in Seq(Messages)
      /\ Len(messages') = Len(messages) + Len(lines) + Len(w)
      /\ \A i \in 1..Len(messages) : messages'[i] = messages[i]
      /\ \A i \in 1..Len(lines) : messages'[Len(messages) + i] = u[i]
      /\ Len(w) = 1 => messages'[Len(messages) + Len(lines) + 1] = w[1]
  <2> DEFINE t == Joined(messages, u)
  <2>1. /\ messages \in Seq(Messages) /\ t \in Seq(Messages) /\ Len(t) = Len(messages) + Len(u)
        /\ \A i \in 1..Len(messages) : t[i] = messages[i]
        /\ \A i \in 1..Len(u) : t[Len(messages) + i] = u[i]
    <3>1. messages \in Seq(Messages)
      BY DEF StreamTypeOK
    <3>2. u \in Seq(Messages)
      BY <1>7
    <3>3. t \in Seq(Messages) /\ Len(t) = Len(messages) + Len(u)
      BY <3>1, <3>2, JoinedLen
    <3>4. \A i \in 1..Len(messages) : t[i] = messages[i]
      BY <3>1, <3>2, JoinedLeft
    <3>5. \A i \in 1..Len(u) : t[Len(messages) + i] = u[i]
      BY <3>1, <3>2, JoinedRight
    <3> QED BY <3>1, <3>3, <3>4, <3>5
  <2> HIDE DEF t
  <2>2. /\ messages' \in Seq(Messages) /\ Len(messages') = Len(t) + Len(w)
        /\ \A i \in 1..Len(t) : messages'[i] = t[i]
        /\ \A i \in 1..Len(w) : messages'[Len(t) + i] = w[i]
    <3>1. messages' = Joined(t, w)
      BY <1>5 DEF t
    <3>2. w \in Seq(Messages)
      BY <1>8
    <3>3. messages' \in Seq(Messages) /\ Len(messages') = Len(t) + Len(w)
      BY <2>1, <3>1, <3>2, JoinedLen
    <3>4. \A i \in 1..Len(t) : messages'[i] = t[i]
      BY <2>1, <3>1, <3>2, JoinedLeft
    <3>5. \A i \in 1..Len(w) : messages'[Len(t) + i] = w[i]
      <4>1. \A i \in 1..Len(w) : Joined(t, w)[Len(t) + i] = w[i]
        <5>1. t \in Seq(Messages)
          BY <2>1
        <5> QED BY <3>2, <5>1, JoinedRight
      <4> QED BY <3>1, <4>1, Zenon
    <3> QED BY <3>3, <3>4, <3>5
  <2>3. /\ Len(messages) \in Nat /\ Len(lines) \in Nat /\ Len(w) \in Nat
        /\ Len(t) = Len(messages) + Len(lines)
    BY <1>3, <1>7, <1>8, <2>1
  <2>4. Len(messages') = Len(messages) + Len(lines) + Len(w)
    BY <2>2, <2>3
  <2>5. \A i \in 1..Len(messages) : messages'[i] = messages[i]
    <3>1. \A i \in 1..Len(messages) : i \in 1..Len(t)
      BY <2>3
    <3> QED BY <2>1, <2>2, <3>1
  <2>6. \A i \in 1..Len(lines) : messages'[Len(messages) + i] = u[i]
    <3>1. \A i \in 1..Len(lines) : Len(messages) + i \in 1..Len(t)
      BY <2>3
    <3> QED BY <1>7, <2>1, <2>2, <3>1
  <2>7. Len(w) = 1 => messages'[Len(messages) + Len(lines) + 1] = w[1]
    <3>1. Len(w) = 1 => messages'[Len(t) + 1] = w[1]
      BY <2>2
    <3> QED BY <2>3, <3>1
  <2> QED BY <2>1, <2>2, <2>4, <2>5, <2>6, <2>7
<1>10. capture'[a] = d /\ \A b \in Answers : b # a => capture'[b] = capture[b]
  BY <1>5 DEF StreamTypeOK
<1>11. StreamTypeOK'
  <2>1. capture' \in [Answers -> Captures]
    <3> HIDE DEF c
    <3> QED BY <1>5, <1>6 DEF StreamTypeOK
  <2> QED BY <1>5, <1>9, <2>1 DEF StreamTypeOK
<1>12. CaptureInv'
  <2>1. ReadSoFar(d)
    <3>1. ASSUME ~over PROVE /\ \A k \in 1..Complete(d, halves) : d.body[k] # "done"
                             /\ d.pieces = TextLines(d.body, 1, Complete(d, halves))
      <4>1. Complete(d, halves) = to
        BY <1>2, <1>6, <3>1 DEF Complete, over
      <4>2. \A k \in 1..to : c.body[k] # "done"
        BY <1>1, <1>2, <3>1 DEF over
      <4> QED BY <1>6, <4>1, <4>2 DEF pieces
    <3>2. d.at # "none" /\ d.session > 0
      BY <1>1, <1>2, <1>6 DEF ReadSoFar
    <3> QED BY <1>2, <1>3, <1>6, <3>1, <3>2 DEF ReadSoFar
  <2>2. \A b \in Answers : b # a => ReadSoFar(capture'[b]) /\ capture'[b].session <= current
    BY <1>10 DEF CaptureInv
  <2> QED BY <1>1, <1>5, <1>6, <1>10, <2>1, <2>2 DEF CaptureInv
<1>13. /\ Len(messages) \in Nat /\ Len(lines) \in Nat /\ Len(w) \in Nat
       /\ Len(c.pieces) \in Nat /\ Len(pieces) \in Nat
  BY <1>3, <1>8, <1>9
<1>14. ASSUME NEW i \in Nat, Sent(i)
       PROVE  \/ \E j \in 1..Len(lines) :
                   i = Len(messages) + j /\ messages'[i] = Message("chunk", a, Len(c.pieces) + j - 1, lines[j])
              \/ /\ i = Len(messages) + Len(lines) + 1 /\ over
                 /\ messages'[i] = Message("final", a, Len(pieces), 0)
  <2>1. Len(messages) < i /\ i <= Len(messages) + Len(lines) + Len(w)
    BY <1>9, <1>13, <1>14 DEF Sent
  <2>2. CASE i <= Len(messages) + Len(lines)
    <3>1. PICK j \in 1..Len(lines) : i = Len(messages) + j
      <4>1. i - Len(messages) \in 1..Len(lines) /\ i = Len(messages) + (i - Len(messages))
        BY <1>13, <2>1, <2>2
      <4> QED BY <4>1
    <3>2. messages'[Len(messages) + j] = u[j]
      BY <1>9
    <3>3. messages'[i] = Message("chunk", a, Len(c.pieces) + j - 1, lines[j])
      BY <1>7, <3>1, <3>2
    <3> QED BY <3>1, <3>3
  <2>3. CASE i > Len(messages) + Len(lines)
    <3>1. i = Len(messages) + Len(lines) + 1 /\ Len(w) = 1
      <4>1. Len(w) = 0 \/ Len(w) = 1
        BY <1>8
      <4>2. Len(w) # 0
        BY <1>13, <2>1, <2>3
      <4>3. Len(w) = 1
        BY <4>1, <4>2
      <4>4. i <= Len(messages) + Len(lines) + 1
        BY <2>1, <4>3
      <4> QED BY <1>13, <2>3, <4>3, <4>4
    <3> QED BY <1>8, <1>9, <3>1
  <2> QED BY <1>13, <2>1, <2>2, <2>3
<1>15. Grows(a)
  <2>1. \A index, line : LET m == Message("chunk", a, index, line) IN
            m.what = "chunk" /\ m.of = a /\ m.session = c.session /\ m.index = index /\ m.line = line
    BY DEF Message
  <2>2. LET m == Message("final", a, Len(pieces), 0) IN
            m.what = "final" /\ m.of = a /\ m.session = c.session /\ m.index = Len(pieces)
    BY DEF Message
  <2> HIDE DEF c
  <2>3. ASSUME NEW i \in Nat, Sent(i)
        PROVE  /\ messages'[i].what \in {"chunk", "final"} /\ messages'[i].of = a
               /\ messages'[i].session = c.session
               /\ messages'[i].index >= Len(c.pieces)
               /\ messages'[i].what = "chunk" =>
                    /\ messages'[i].index < Len(pieces)
                    /\ messages'[i].line = pieces[messages'[i].index + 1]
               /\ messages'[i].what = "final" =>
                    /\ messages'[i].index = Len(pieces) /\ over
    <3>1. ASSUME NEW j \in 1..Len(lines),
                 messages'[i] = Message("chunk", a, Len(c.pieces) + j - 1, lines[j])
          PROVE  /\ messages'[i].what = "chunk" /\ messages'[i].of = a
                 /\ messages'[i].session = c.session
                 /\ messages'[i].index >= Len(c.pieces)
                 /\ messages'[i].index < Len(pieces)
                 /\ messages'[i].line = pieces[messages'[i].index + 1]
      <4>1. /\ messages'[i].what = "chunk" /\ messages'[i].of = a /\ messages'[i].session = c.session
            /\ messages'[i].index = Len(c.pieces) + j - 1 /\ messages'[i].line = lines[j]
        BY <2>1, <3>1
      <4>2. pieces[Len(c.pieces) + j] = lines[j] /\ Len(c.pieces) + j = (Len(c.pieces) + j - 1) + 1
        BY <1>4, <1>13
      <4> QED BY <1>4, <1>13, <4>1, <4>2
    <3>2. CASE over /\ messages'[i] = Message("final", a, Len(pieces), 0)
      <4>1. /\ messages'[i].what = "final" /\ messages'[i].of = a /\ messages'[i].session = c.session
            /\ messages'[i].index = Len(pieces)
        BY <2>2, <3>2
      <4> QED BY <1>4, <1>13, <3>2, <4>1
    <3> QED BY <1>14, <2>3, <3>1, <3>2
  <2>4. ASSUME NEW i \in Nat, NEW j \in Nat, Sent(i), Sent(j), i < j
        PROVE  messages'[i].index < messages'[j].index
    <3>1. \A k \in Nat : Sent(k) =>
             \/ \E l \in 1..Len(lines) : k = Len(messages) + l /\ messages'[k].index = Len(c.pieces) + l - 1
             \/ k = Len(messages) + Len(lines) + 1 /\ messages'[k].index = Len(pieces)
      <4> SUFFICES ASSUME NEW k \in Nat, Sent(k)
                   PROVE  \/ \E l \in 1..Len(lines) : k = Len(messages) + l /\ messages'[k].index = Len(c.pieces) + l - 1
                          \/ k = Len(messages) + Len(lines) + 1 /\ messages'[k].index = Len(pieces)
        OBVIOUS
      <4>1. CASE \E l \in 1..Len(lines) :
                   k = Len(messages) + l /\ messages'[k] = Message("chunk", a, Len(c.pieces) + l - 1, lines[l])
        BY <2>1, <4>1
      <4>2. CASE /\ k = Len(messages) + Len(lines) + 1
                 /\ messages'[k] = Message("final", a, Len(pieces), 0)
        BY <2>2, <4>2
      <4> QED BY <1>14, <4>1, <4>2
    <3>2. i <= Len(messages) + Len(lines)
      <4>1. i <= Len(messages) + Len(lines) + 1 /\ j <= Len(messages) + Len(lines) + 1
        <5>1. \A k \in Nat : Sent(k) => k <= Len(messages) + Len(lines) + 1
          BY <1>13, <3>1
        <5> QED BY <2>4, <5>1
      <4> QED BY <1>13, <2>4, <4>1
    <3>3. messages'[i].index = Len(c.pieces) + (i - Len(messages)) - 1
      <4>1. PICK l \in 1..Len(lines) : i = Len(messages) + l /\ messages'[i].index = Len(c.pieces) + l - 1
        <5>1. i # Len(messages) + Len(lines) + 1
          BY <1>13, <3>2
        <5> QED BY <2>4, <3>1, <5>1
      <4> QED BY <1>13, <4>1
    <3>4. messages'[j].index = Len(c.pieces) + (j - Len(messages)) - 1
      <4>1. CASE \E l \in 1..Len(lines) : j = Len(messages) + l /\ messages'[j].index = Len(c.pieces) + l - 1
        <5>1. PICK l \in 1..Len(lines) : j = Len(messages) + l /\ messages'[j].index = Len(c.pieces) + l - 1
          BY <4>1
        <5> QED BY <1>13, <5>1
      <4>2. CASE j = Len(messages) + Len(lines) + 1 /\ messages'[j].index = Len(pieces)
        <5>1. Len(pieces) = Len(c.pieces) + Len(lines)
          BY <1>4
        <5>2. j - Len(messages) = Len(lines) + 1
          BY <1>13, <4>2
        <5>3. Len(c.pieces) + (Len(lines) + 1) - 1 = Len(c.pieces) + Len(lines)
          BY <1>13
        <5> QED BY <4>2, <5>1, <5>2, <5>3, Zenon
      <4> QED BY <2>4, <3>1, <4>1, <4>2
    <3> QED BY <1>13, <2>4, <3>3, <3>4
  <2>5. ASSUME NEW k \in Len(c.pieces)..(Len(pieces) - 1)
        PROVE  \E i \in Nat : Sent(i) /\ messages'[i].what = "chunk" /\ messages'[i].index = k
    <3>1. PICK j \in 1..Len(lines) : Len(c.pieces) + j - 1 = k
      <4>1. k - Len(c.pieces) + 1 \in 1..Len(lines) /\ Len(c.pieces) + (k - Len(c.pieces) + 1) - 1 = k
        BY <1>4, <1>13, <2>5
      <4> QED BY <4>1
    <3>2. PICK i \in Nat : i = Len(messages) + j
      BY <1>13
    <3>3. messages'[Len(messages) + j] = u[j]
      BY <1>9
    <3>4. messages'[i] = Message("chunk", a, Len(c.pieces) + j - 1, lines[j])
      BY <1>7, <3>2, <3>3
    <3>5. Sent(i)
      BY <1>9, <1>13, <3>2 DEF Sent
    <3>6. messages'[i].what = "chunk" /\ messages'[i].index = k
      BY <2>1, <3>1, <3>4
    <3> QED BY <3>5, <3>6
  <2>6. Begins(messages, messages')
    BY <1>9, <1>13 DEF Begins
  <2>7. c.at = "streaming" /\ d.at = IF over THEN "analyzing" ELSE "streaming"
    BY <1>2, <1>6
  <2>8. /\ view' = view /\ current' = current /\ capture'[a] = d /\ d.pieces = pieces
        /\ d.session = capture[a].session /\ capture[a] = c
        /\ \A b \in Answers : b # a => capture'[b] = capture[b]
    BY <1>5, <1>6, <1>10 DEF c
  <2>9. /\ d.at # "none" /\ (d.at = "streaming" => c.at = "streaming")
        /\ c.at \notin {"analyzing", "ended"}
        /\ over => d.at \in {"analyzing", "ended"}
    BY <2>7
  <2> QED BY <1>3, <2>3, <2>4, <2>5, <2>6, <2>7, <2>8, <2>9 DEF Grows
<1> QED BY <1>11, <1>12, <1>15

\* An answer that has no more of its stream to send.
LEMMA AnswerEnds ==
    ASSUME StreamTypeOK, CaptureInv, NEW a \in Answers, capture[a].at # "none",
           NEW at \in {"analyzing", "ended"}, NEW added \in Seq(Messages),
           \A i \in 1..Len(added) :
               added[i].what \in {"ready", "failed"} /\ added[i].of = a /\ added[i].line = 0,
           capture' = [capture EXCEPT ![a].at = at], messages' = Joined(messages, added),
           current' = current, view' = view
    PROVE  StreamTypeOK' /\ CaptureInv' /\ Grows(a)
<1> DEFINE c == capture[a]
           d == [c EXCEPT !.at = at]
<1>1. c \in Captures /\ ReadSoFar(c) /\ c.session <= current /\ c.at # "none"
  BY DEF StreamTypeOK, CaptureInv
<1>2. capture' = [capture EXCEPT ![a] = d] /\ capture'[a] = d
      /\ \A b \in Answers : b # a => capture'[b] = capture[b]
  BY DEF StreamTypeOK
<1>3. /\ d \in Captures /\ d.at = at /\ d.session = c.session /\ d.body = c.body
      /\ d.pieces = c.pieces
  BY <1>1 DEF Captures
<1>4. Begins(c.pieces, d.pieces)
  BY <1>1, <1>3 DEF Begins, Captures
<1> HIDE DEF d
<1>5. /\ messages \in Seq(Messages) /\ messages' \in Seq(Messages)
      /\ Len(messages') = Len(messages) + Len(added)
  <2>1. messages \in Seq(Messages)
    BY DEF StreamTypeOK
  <2> QED BY <2>1, JoinedLen
<1>6. \A i \in 1..Len(messages) : messages'[i] = messages[i]
  BY <1>5, JoinedLeft
<1>7. \A i \in 1..Len(added) : messages'[Len(messages) + i] = added[i]
  <2>1. \A i \in 1..Len(added) : Joined(messages, added)[Len(messages) + i] = added[i]
    BY <1>5, JoinedRight
  <2> QED BY <2>1, Zenon
<1>8. StreamTypeOK'
  BY <1>2, <1>3, <1>5 DEF StreamTypeOK
<1>9. CaptureInv'
  <2>1. ReadSoFar(d)
    BY <1>1, <1>3 DEF ReadSoFar
  <2> QED BY <1>1, <1>2, <1>3, <2>1 DEF CaptureInv
<1>10. Len(messages) \in Nat /\ Len(added) \in Nat
  BY <1>5
<1>11. ASSUME NEW i \in Nat, Sent(i)
       PROVE  messages'[i].what \in {"ready", "failed"} /\ messages'[i].of = a /\ messages'[i].line = 0
  <2>1. i - Len(messages) \in 1..Len(added) /\ Len(messages) + (i - Len(messages)) = i
    BY <1>5, <1>10, <1>11 DEF Sent
  <2>2. messages'[Len(messages) + (i - Len(messages))] = added[i - Len(messages)]
    BY <1>7, <2>1
  <2>3. messages'[i] = added[i - Len(messages)]
    BY <2>1, <2>2
  <2> QED BY <2>1, <2>3
<1>12. Begins(messages, messages')
  BY <1>5, <1>6, <1>10 DEF Begins
<1>13. Len(c.pieces)..(Len(d.pieces) - 1) = {}
  <2>1. Len(c.pieces) \in Nat
    BY <1>1 DEF Captures
  <2> QED BY <1>3, <2>1
<1> QED
  BY <1>2, <1>3, <1>4, <1>8, <1>9, <1>11, <1>12, <1>13 DEF Grows, OfStream

\* A step of the backend keeps the invariant.
LEMMA BackendStep ==
    ASSUME StreamInv, NEW a \in Answers,
           \/ ReceiveChunk(a) \/ EndOfBody(a) \/ StreamFails(a) \/ AnswerReady(a) \/ AnswerRefused(a)
    PROVE  StreamInv'
<1> DEFINE c == capture[a]
<1>1. c \in Captures /\ ReadSoFar(c) /\ messages \in Seq(Messages)
  BY DEF StreamInv, StreamTypeOK, CaptureInv
<1>2. ASSUME c.at = "streaming"
      PROVE  /\ c.got \in Nat /\ Len(c.body) \in Nat /\ c.got <= 2 * Len(c.body) /\ (c.bare => Len(c.body) > 0)
             /\ Complete(c, c.got) \in Nat /\ Complete(c, c.got) <= c.got \div 2
             /\ \A g \in Nat : c.got <= g /\ g <= 2 * Len(c.body) =>
                  Complete(c, c.got) <= Complete(c, g) /\ Complete(c, g) \in Nat /\ Complete(c, g) <= Len(c.body)
  <2> HIDE DEF c
  <2>1. c.got \in Nat /\ Len(c.body) \in Nat /\ c.got <= 2 * Len(c.body) /\ (c.bare => Len(c.body) > 0)
    BY <1>1, <1>2 DEF ReadSoFar, Captures
  <2> QED BY <1>1, <2>1, CompleteLines
<1>3. ASSUME ReceiveChunk(a) PROVE StreamTypeOK' /\ CaptureInv' /\ Grows(a)
  <2>1. c.at = "streaming"
    BY <1>3 DEF ReceiveChunk
  <2>2. PICK halves \in (c.got + 1)..(2 * Len(c.body)) : ReadLines(a, halves, Complete(c, halves), FALSE)
    BY <1>3 DEF ReceiveChunk
  <2>3. /\ halves \in Nat /\ halves <= 2 * Len(c.body) /\ Complete(c, c.got) <= Complete(c, halves)
        /\ Complete(c, halves) \in Nat /\ Complete(c, halves) <= Len(c.body)
    <3> HIDE DEF c
    <3>1. halves \in Nat /\ c.got <= halves /\ halves <= 2 * Len(c.body)
      BY <1>2, <2>1, <2>2
    <3> QED BY <1>2, <2>1, <3>1
  <2> QED BY <2>1, <2>2, <2>3, LinesRead DEF StreamInv
<1>4. ASSUME EndOfBody(a) PROVE StreamTypeOK' /\ CaptureInv' /\ Grows(a)
  <2>1. c.at = "streaming" /\ ReadLines(a, c.got, c.got \div 2, TRUE)
    BY <1>4 DEF EndOfBody
  <2>2. /\ c.got \in Nat /\ c.got <= 2 * Len(c.body) /\ Complete(c, c.got) <= c.got \div 2
        /\ c.got \div 2 \in Nat /\ c.got \div 2 <= Len(c.body)
    <3> HIDE DEF c
    <3> QED BY <1>2, <2>1
  <2> QED BY <2>1, <2>2, LinesRead DEF StreamInv
<1>5. c.session \in Nat
  BY <1>1 DEF Captures
<1>6. ASSUME StreamFails(a) PROVE StreamTypeOK' /\ CaptureInv' /\ Grows(a)
  <2>1. messages' = Joined(messages, <<>>)
    BY <1>1, <1>6, JoinedEmpty DEF StreamFails
  <2>2. /\ c.at # "none" /\ capture' = [capture EXCEPT ![a].at = "analyzing"]
        /\ current' = current /\ view' = view
    BY <1>6 DEF StreamFails
  <2>3. <<>> \in Seq(Messages) /\ 1..Len(<<>>) = {}
    OBVIOUS
  <2> QED BY <2>1, <2>2, <2>3, AnswerEnds DEF StreamInv
<1>7. ASSUME NEW added \in Seq(Messages), Returns(a, added), c.at # "none",
             \A i \in 1..Len(added) : added[i].what \in {"ready", "failed"} /\ added[i].of = a /\ added[i].line = 0
      PROVE  StreamTypeOK' /\ CaptureInv' /\ Grows(a)
  <2>1. /\ messages' = Joined(messages, added) /\ capture' = [capture EXCEPT ![a].at = "ended"]
        /\ current' = current /\ view' = view
    BY <1>7 DEF Returns, Joined
  <2> QED BY <1>7, <2>1, AnswerEnds DEF StreamInv
<1>8. ASSUME AnswerReady(a) PROVE StreamTypeOK' /\ CaptureInv' /\ Grows(a)
  <2> DEFINE m == Message("ready", a, 0, 0)
  <2>1. m \in Messages /\ m.what = "ready" /\ m.of = a /\ m.line = 0
    BY <1>5 DEF Message, Messages
  <2>2. Returns(a, <<m, m>>) /\ c.at # "none"
    BY <1>8 DEF AnswerReady
  <2> HIDE DEF m
  <2>3. /\ <<m, m>> \in Seq(Messages)
        /\ \A i \in 1..Len(<<m, m>>) : <<m, m>>[i].what = "ready" /\ <<m, m>>[i].of = a /\ <<m, m>>[i].line = 0
    BY <2>1
  <2> QED BY <1>7, <2>2, <2>3
<1>9. ASSUME AnswerRefused(a) PROVE StreamTypeOK' /\ CaptureInv' /\ Grows(a)
  <2> DEFINE m == Message("failed", a, 0, 0)
  <2>1. m \in Messages /\ m.what = "failed" /\ m.of = a /\ m.line = 0
    BY <1>5 DEF Message, Messages
  <2>2. Returns(a, <<m>>) /\ c.at # "none"
    BY <1>9 DEF AnswerRefused
  <2> HIDE DEF m
  <2>3. /\ <<m>> \in Seq(Messages)
        /\ \A i \in 1..Len(<<m>>) : <<m>>[i].what = "failed" /\ <<m>>[i].of = a /\ <<m>>[i].line = 0
    BY <2>1
  <2> QED BY <1>7, <2>2, <2>3
<1>10. StreamTypeOK' /\ CaptureInv' /\ Grows(a)
  BY <1>3, <1>4, <1>6, <1>8, <1>9
<1> QED
  BY <1>10, GrownQueue, GrownView DEF StreamInv

----------------------------------------------------------------------------
(* The steps of the window *)

\* An answer is asked.
LEMMA TriggerStep ==
    ASSUME StreamInv, NEW a \in Answers, triggerHotkeyAnswer(a)
    PROVE  StreamInv'
<1>1. PICK body \in Bodies, bare \in BOOLEAN :
        /\ bare => body # <<>>
        /\ capture' = [capture EXCEPT ![a] =
                          [NoCapture EXCEPT !.at = "streaming", !.session = current,
                                            !.body = body, !.bare = bare]]
  BY DEF triggerHotkeyAnswer
<1> DEFINE d == [NoCapture EXCEPT !.at = "streaming", !.session = current, !.body = body, !.bare = bare]
<1>2. /\ capture[a].at = "none" /\ current' = current /\ messages' = messages
      /\ view' = [view EXCEPT !.text = <<>>, !.last = -1, !.mixed = OtherInFlight]
  BY DEF triggerHotkeyAnswer
<1>3. /\ capture \in [Answers -> Captures] /\ current \in Nat /\ current > 0 /\ view \in Views
      /\ messages \in Seq(Messages) /\ body \in Seq(Lines)
  BY StreamAssumption DEF StreamInv, StreamTypeOK
<1>4. /\ d \in Captures /\ d.at = "streaming" /\ d.session = current /\ d.pieces = <<>>
      /\ d.body = body /\ d.bare = bare /\ d.got = 0
  <2>1. <<>> \in Seq(Nat)
    OBVIOUS
  <2> QED BY <1>3, <2>1 DEF NoCapture, Captures
<1>5. capture' = [capture EXCEPT ![a] = d] /\ capture'[a] = d
      /\ \A b \in Answers : b # a => capture'[b] = capture[b]
  BY <1>1, <1>3
<1> HIDE DEF d
<1>6. /\ view'.session = view.session /\ view'.last = -1 /\ view'.text = <<>>
      /\ view'.mixed = OtherInFlight /\ view' \in Views
  <2>1. OtherInFlight \in BOOLEAN /\ <<>> \in Seq(Pieces) /\ -1 \in Int
    BY DEF OtherInFlight
  <2>2. view' = [session |-> view.session, last |-> -1, text |-> <<>>, mixed |-> OtherInFlight]
        /\ view.session \in Nat
    BY <1>2, <1>3 DEF Views
  <2> QED BY <2>1, <2>2 DEF Views
<1>7. StreamTypeOK'
  BY <1>2, <1>3, <1>4, <1>5, <1>6 DEF StreamTypeOK
<1>8. ReadSoFar(d)
  <2>1. Len(body) \in Nat /\ (bare => Len(body) > 0)
    BY <1>1, <1>3
  <2>2. Complete(d, 0) = 0
    BY <1>4, <2>1 DEF Complete
  <2>3. TextLines(body, 1, 0) = <<>>
    BY TextBefore
  <2>4. Begins(<<>>, TextLines(body, 1, Len(body)))
    <3>1. TextLines(body, 1, Len(body)) \in Seq(Nat)
      BY <2>1, TextRises DEF Rising
    <3> QED BY <3>1 DEF Begins
  <2> QED BY <1>3, <1>4, <2>1, <2>2, <2>3, <2>4 DEF ReadSoFar
<1>9. CaptureInv'
  BY <1>2, <1>3, <1>4, <1>5, <1>8 DEF StreamInv, CaptureInv
<1>10. \A i \in 1..Len(messages) : OfStream(messages[i]) => messages[i].of \in Answers \ {a}
  <2> SUFFICES ASSUME NEW i \in 1..Len(messages), OfStream(messages[i]), messages[i].of = a PROVE FALSE
    BY DEF StreamInv, QueueInv, Faithful, OfStream
  <2>1. Faithful(messages[i]) /\ messages[i] \in Messages
    BY <1>3 DEF StreamInv, QueueInv
  <2>2. capture[a].pieces = <<>>
    BY <1>2 DEF StreamInv, CaptureInv, ReadSoFar
  <2> QED BY <1>2, <2>1, <2>2 DEF Faithful, OfStream, Messages
<1>11. QueueInv'
  <2>1. \A i \in 1..Len(messages) : Faithful(messages[i]) => Faithful(messages[i])'
    BY <1>2, <1>5, <1>10 DEF Faithful, OfStream
  <2>2. ASSUME NEW i \in 1..Len(messages), NEW b \in Answers,
               messages[i].what = "active", messages[i].session = capture'[b].session,
               NEW k \in 0..(Len(capture'[b].pieces) - 1)
        PROVE  Queued(b, k)'
    <3>1. b # a
      BY <1>4, <1>5
    <3> QED BY <1>2, <1>5, <2>2, <3>1 DEF StreamInv, QueueInv, Queued
  <2>3. \A i, j \in 1..Len(messages) : i < j => Follows(messages[i], messages[j])'
    BY <1>2 DEF StreamInv, QueueInv, Follows, OfStream
  <2> QED BY <1>2, <2>1, <2>2, <2>3 DEF StreamInv, QueueInv
<1>12. ShownInv'
  BY <1>6 DEF ShownInv
<1>13. ASSUME ~OtherInFlight, NEW b \in Answers, b # a PROVE ~Live(b)'
  <2>1. \A i \in 1..Len(messages) : messages[i] \in ToSet(messages)
    BY <1>3 DEF ToSet
  <2>2. ~(capture[b].session \in Awaited /\ InFlight(b))
    BY <1>13 DEF OtherInFlight
  <2>3. Awaited' = Awaited
    BY <1>2, <1>6 DEF Awaited
  <2> QED BY <1>2, <1>5, <1>13, <2>1, <2>2, <2>3 DEF Live, InFlight
<1>14. SingleInv'
  <2>1. Pending(a)'
    BY <1>4, <1>5, <1>6 DEF Pending
  <2> QED BY <1>6, <1>13, <2>1 DEF SingleInv
<1> QED
  BY <1>7, <1>9, <1>11, <1>12, <1>14 DEF StreamInv

\* An answer of which more may be shown has been asked in a session.
LEMMA LiveHasSession ==
    ASSUME StreamInv, NEW a \in Answers,
           \/ capture[a].at = "streaming"
           \/ \E i \in 1..Len(messages) : OfStream(messages[i]) /\ messages[i].of = a
    PROVE  capture[a].session > 0
<1>1. capture[a] \in Captures /\ ReadSoFar(capture[a])
  BY DEF StreamInv, StreamTypeOK, CaptureInv
<1>2. CASE capture[a].at = "streaming"
  BY <1>1, <1>2 DEF ReadSoFar
<1>3. ASSUME NEW i \in 1..Len(messages), OfStream(messages[i]), messages[i].of = a, capture[a].at = "none"
      PROVE  FALSE
  <2>1. Faithful(messages[i]) /\ messages[i] \in Messages
    BY DEF StreamInv, StreamTypeOK, QueueInv
  <2>2. capture[a].pieces = <<>>
    BY <1>1, <1>3 DEF ReadSoFar
  <2> QED BY <1>3, <2>1, <2>2 DEF Faithful, OfStream, Messages
<1> QED
  BY <1>1, <1>2, <1>3 DEF ReadSoFar

\* A session is started, or one that runs is kept.
LEMMA StartStep ==
    ASSUME StreamInv, startSession
    PROVE  StreamInv'
<1>1. /\ capture' = capture /\ view' = [NoView EXCEPT !.mixed = view.mixed]
      /\ \/ current' = current + 1 /\ messages' = Append(messages, SessionActive(current + 1))
         \/ current' = current /\ messages' = messages
  BY DEF startSession
<1>2. /\ capture \in [Answers -> Captures] /\ current \in Nat /\ current > 0 /\ view \in Views
      /\ messages \in Seq(Messages)
  BY DEF StreamInv, StreamTypeOK
<1>3. /\ view'.session = 0 /\ view'.last = -1 /\ view'.text = <<>> /\ view'.mixed = view.mixed
      /\ view' \in Views
  <2>1. view.mixed \in BOOLEAN /\ view' = [session |-> 0, last |-> -1, text |-> <<>>, mixed |-> view.mixed]
    BY <1>1, <1>2 DEF NoView, Views
  <2>2. <<>> \in Seq(Pieces)
    OBVIOUS
  <2> QED BY <2>1, <2>2 DEF Views
<1>4. /\ messages' \in Seq(Messages) /\ current' \in Nat /\ current' > 0 /\ current <= current'
      /\ \A i \in 1..Len(messages) : messages'[i] = messages[i] /\ i \in 1..Len(messages')
      /\ \A i \in 1..Len(messages') :
           \/ i \in 1..Len(messages)
           \/ /\ i = Len(messages) + 1 /\ messages'[i].what = "active"
              /\ messages'[i].session = current + 1 /\ current' = current + 1
  <2>1. /\ SessionActive(current + 1) \in Messages /\ SessionActive(current + 1).what = "active"
        /\ SessionActive(current + 1).session = current + 1
    BY <1>2 DEF SessionActive, Messages
  <2>2. CASE current' = current /\ messages' = messages
    BY <1>2, <2>2
  <2>3. CASE current' = current + 1 /\ messages' = Append(messages, SessionActive(current + 1))
    <3> DEFINE x == SessionActive(current + 1)
    <3> HIDE DEF x
    <3>1. x \in Messages /\ messages' = Append(messages, x)
      BY <2>1, <2>3 DEF x
    <3>2. /\ messages' \in Seq(Messages) /\ Len(messages') = Len(messages) + 1 /\ Len(messages) \in Nat
          /\ \A i \in 1..Len(messages) : messages'[i] = messages[i]
          /\ messages'[Len(messages) + 1] = x
      BY <1>2, <3>1
    <3> QED BY <1>2, <2>1, <2>3, <3>2 DEF x
  <2> QED BY <1>1, <2>2, <2>3
<1>5. StreamTypeOK'
  BY <1>1, <1>2, <1>3, <1>4 DEF StreamTypeOK
<1>6. CaptureInv'
  <2>1. \A a \in Answers : capture[a].session \in Nat
    BY <1>2 DEF Captures
  <2> QED BY <1>1, <1>2, <1>4, <2>1 DEF StreamInv, CaptureInv
<1>7. \A i \in 1..Len(messages) : messages[i].of \in Answers => capture[messages[i].of].session <= current
  BY DEF StreamInv, CaptureInv
<1>8. \A a \in Answers : capture[a].session <= current /\ capture[a].session \in Nat
  BY <1>2 DEF StreamInv, CaptureInv, Captures
<1>9. \A b \in Answers : \A k : Queued(b, k)' <=> Queued(b, k)
  BY <1>4 DEF Queued
<1>10. QueueInv'
  <2>1. ASSUME NEW i \in 1..Len(messages') PROVE Faithful(messages[i])'
    <3>1. CASE i \in 1..Len(messages)
      <4>1. Faithful(messages[i]) /\ messages'[i] = messages[i] /\ messages[i] \in Messages
        BY <1>2, <1>4, <3>1 DEF StreamInv, QueueInv
      <4>2. messages[i].what = "active" => messages[i].session <= current'
        BY <1>2, <1>4, <4>1 DEF Faithful, Messages
      <4> QED BY <1>1, <4>1, <4>2 DEF Faithful, OfStream
    <3>2. CASE messages'[i].what = "active" /\ messages'[i].session = current'
      BY <1>4, <3>2 DEF Faithful, OfStream
    <3> QED BY <1>4, <3>1, <3>2
  <2>2. ASSUME NEW i \in 1..Len(messages'), NEW j \in 1..Len(messages'), i < j
        PROVE  Follows(messages[i], messages[j])'
    <3>1. i \in 1..Len(messages) /\ messages'[i] = messages[i]
      BY <1>2, <1>4, <2>2
    <3>2. CASE j \in 1..Len(messages)
      BY <1>4, <2>2, <3>1, <3>2 DEF StreamInv, QueueInv, Follows, OfStream
    <3>3. CASE messages'[j].what = "active" /\ messages'[j].session = current + 1
      <4>1. OfStream(messages[i]) => messages[i].session # current + 1
        <5>1. Faithful(messages[i])
          BY <3>1 DEF StreamInv, QueueInv
        <5>2. OfStream(messages[i]) => messages[i].of \in Answers /\ messages[i].session = capture[messages[i].of].session
          BY <5>1 DEF Faithful, OfStream
        <5> QED BY <1>2, <1>8, <5>2
      <4> QED BY <3>1, <3>3, <4>1 DEF Follows, OfStream
    <3> QED BY <1>4, <3>2, <3>3
  <2>3. ASSUME NEW i \in 1..Len(messages'), NEW b \in Answers,
               messages'[i].what = "active", messages'[i].session = capture'[b].session,
               NEW k \in 0..(Len(capture'[b].pieces) - 1)
        PROVE  Queued(b, k)'
    <3>1. i \in 1..Len(messages)
      BY <1>1, <1>2, <1>4, <1>8, <2>3
    <3> QED BY <1>1, <1>4, <1>9, <2>3, <3>1 DEF StreamInv, QueueInv
  <2> QED BY <2>1, <2>2, <2>3 DEF QueueInv
<1>11. ShownInv'
  BY <1>3 DEF ShownInv
<1>12. ASSUME NEW b \in Answers, Live(b)' PROVE Live(b) /\ Pending(b)'
  <2>1. \/ capture[b].at = "streaming"
        \/ \E i \in 1..Len(messages) : OfStream(messages[i]) /\ messages[i].of = b
    BY <1>1, <1>4, <1>12 DEF Live, OfStream
  <2>2. capture[b].session > 0 /\ capture[b].session \in Awaited'
    BY <1>1, <1>12, <2>1, LiveHasSession DEF Live
  <2>3. PICK i \in 1..Len(messages') : messages'[i].what = "active" /\ messages'[i].session = capture[b].session
    BY <1>3, <1>4, <2>2 DEF Awaited, ToSet
  <2>4. i \in 1..Len(messages) /\ messages[i].what = "active" /\ messages[i].session = capture[b].session
    BY <1>2, <1>4, <1>8, <2>3
  <2>5. capture[b].session \in Awaited
    BY <1>2, <2>4 DEF Awaited, ToSet
  <2>6. \A k \in 0..(Len(capture[b].pieces) - 1) : Queued(b, k)'
    BY <1>9, <2>4 DEF StreamInv, QueueInv
  <2>7. Len(capture[b].pieces) \in Nat
    BY <1>2 DEF Captures
  <2> QED BY <1>1, <1>3, <2>1, <2>5, <2>6, <2>7 DEF Live, Pending
<1>13. SingleInv'
  BY <1>3, <1>12 DEF StreamInv, SingleInv
<1> QED
  BY <1>5, <1>6, <1>10, <1>11, <1>13 DEF StreamInv

\* The first message leaves, and the others move up.
LEMMA MovedUp ==
    ASSUME StreamTypeOK, HandleMessage
    PROVE  /\ 1 \in 1..Len(messages) /\ Len(messages) \in Nat /\ Head(messages) = messages[1]
           /\ messages \in Seq(Messages) /\ messages' \in Seq(Messages) /\ capture' = capture
           /\ current' = current /\ view' = Handled(Head(messages))
           /\ \A j \in 1..Len(messages') : j + 1 \in 1..Len(messages) /\ messages'[j] = messages[j + 1]
           /\ \A i \in 2..Len(messages) : i - 1 \in 1..Len(messages') /\ messages'[i - 1] = messages[i]
<1>1. /\ messages # <<>> /\ messages' = Tail(messages) /\ capture' = capture /\ current' = current
      /\ view' = Handled(Head(messages)) /\ messages \in Seq(Messages)
  BY DEF HandleMessage, StreamTypeOK
<1>2. /\ Len(messages) \in Nat \ {0} /\ Head(messages) = messages[1]
      /\ messages' \in Seq(Messages) /\ Len(messages') = Len(messages) - 1
      /\ \A j \in 1..Len(messages') : messages'[j] = messages[j + 1]
  BY <1>1
<1>3. \A i \in 2..Len(messages) : i - 1 \in 1..Len(messages') /\ (i - 1) + 1 = i
  BY <1>2
<1> QED
  BY <1>1, <1>2, <1>3

\* The queue that is left is in order, and only the piece handled is not in it.
LEMMA HandledQueue ==
    ASSUME StreamInv, HandleMessage
    PROVE  /\ QueueInv' /\ CaptureInv'
           /\ \A a \in Answers : \A k : Queued(a, k)' => Queued(a, k)
           /\ \A a \in Answers : \A k : Queued(a, k) =>
                \/ Queued(a, k)'
                \/ messages[1].what = "chunk" /\ messages[1].of = a /\ messages[1].index = k
<1>1. /\ 1 \in 1..Len(messages) /\ Len(messages) \in Nat
      /\ messages \in Seq(Messages) /\ messages' \in Seq(Messages) /\ capture' = capture
      /\ current' = current
      /\ \A j \in 1..Len(messages') : j + 1 \in 1..Len(messages) /\ messages'[j] = messages[j + 1]
      /\ \A i \in 2..Len(messages) : i - 1 \in 1..Len(messages') /\ messages'[i - 1] = messages[i]
  BY MovedUp DEF StreamInv
<1>2. CaptureInv'
  BY <1>1 DEF StreamInv, CaptureInv
<1>3. \A a \in Answers : \A k : Queued(a, k)' => Queued(a, k)
  BY <1>1 DEF Queued
<1>4. \A i \in 1..Len(messages) : i = 1 \/ i \in 2..Len(messages)
  BY <1>1
<1>5. \A a \in Answers : \A k : Queued(a, k) =>
         \/ Queued(a, k)'
         \/ messages[1].what = "chunk" /\ messages[1].of = a /\ messages[1].index = k
  BY <1>1, <1>4 DEF Queued
<1>6. \A i \in 1..Len(messages') : Faithful(messages[i])'
  BY <1>1 DEF StreamInv, QueueInv, Faithful, OfStream
<1>7. ASSUME NEW i \in 1..Len(messages'), NEW j \in 1..Len(messages'), i < j
      PROVE  Follows(messages[i], messages[j])'
  <2>1. i + 1 < j + 1
    BY <1>7
  <2>2. Follows(messages[i + 1], messages[j + 1])
    BY <1>1, <2>1 DEF StreamInv, QueueInv
  <2>3. messages'[i] = messages[i + 1] /\ messages'[j] = messages[j + 1]
    BY <1>1
  <2> QED BY <2>2, <2>3 DEF Follows, OfStream
<1>8. ASSUME NEW i \in 1..Len(messages'), NEW a \in Answers,
             messages'[i].what = "active", messages'[i].session = capture'[a].session,
             NEW k \in 0..(Len(capture'[a].pieces) - 1)
      PROVE  Queued(a, k)'
  <2>1. /\ i + 1 \in 1..Len(messages) /\ messages[i + 1].what = "active"
        /\ messages[i + 1].session = capture[a].session /\ 1 < i + 1
    BY <1>1, <1>8
  <2>2. Queued(a, k)
    BY <1>1, <1>8, <2>1 DEF StreamInv, QueueInv
  <2>3. ~(messages[1].what = "chunk" /\ messages[1].of = a)
    <3>1. Faithful(messages[1]) /\ Follows(messages[1], messages[i + 1])
      BY <1>1, <2>1 DEF StreamInv, QueueInv
    <3> QED BY <2>1, <3>1 DEF Faithful, Follows, OfStream
  <2> QED BY <1>5, <2>2, <2>3
<1>9. QueueInv'
  BY <1>6, <1>7, <1>8 DEF QueueInv
<1> QED
  BY <1>2, <1>3, <1>5, <1>9

\* Nothing becomes live by being handled.
LEMMA HandledLive ==
    ASSUME StreamInv, HandleMessage, NEW a \in Answers, Live(a)'
    PROVE  Live(a)
<1> DEFINE m == messages[1]
<1>1. /\ 1 \in 1..Len(messages) /\ Head(messages) = m
      /\ messages \in Seq(Messages) /\ messages' \in Seq(Messages) /\ capture' = capture
      /\ view' = Handled(m)
      /\ \A j \in 1..Len(messages') : j + 1 \in 1..Len(messages) /\ messages'[j] = messages[j + 1]
  BY MovedUp DEF StreamInv
<1>2. view'.session = view.session \/ (m.what = "active" /\ view'.session = m.session)
  <2>1. view \in Views /\ m \in Messages
    BY <1>1 DEF StreamInv, StreamTypeOK
  <2> HIDE DEF m
  <2> QED BY <1>1, <2>1 DEF Handled, handleAnswerChunk, Views, Messages
<1>3. \A s \in Awaited' : s \in Awaited
  <2>1. \A n : n \in ToSet(messages') => n \in ToSet(messages)
    BY <1>1 DEF ToSet
  <2>2. m \in ToSet(messages)
    BY <1>1 DEF ToSet
  <2> HIDE DEF m
  <2> QED BY <1>2, <2>1, <2>2 DEF Awaited
<1>4. capture[a].session \in Awaited
  BY <1>1, <1>3 DEF Live
<1> QED
  BY <1>1, <1>4 DEF Live, OfStream

\* What is shown stays where it was.
LEMMA HandledShown ==
    ASSUME StreamInv, HandleMessage, NEW p, Shown(p)
    PROVE  Shown(p)'
<1>1. /\ capture' = capture
      /\ \A j \in 1..Len(messages') : j + 1 \in 1..Len(messages) /\ messages'[j] = messages[j + 1]
  BY MovedUp DEF StreamInv
<1> QED
  BY <1>1 DEF Shown

\* The pieces of an answer are in order, and of lines that have a number.
LEMMA PiecesRise ==
    ASSUME StreamInv, NEW a \in Answers
    PROVE  /\ capture[a].pieces \in Seq(Nat)
           /\ \A k \in 0..(Len(capture[a].pieces) - 1) : capture[a].pieces[k + 1] > 0
           /\ \A k, l \in 0..(Len(capture[a].pieces) - 1) :
                k < l => capture[a].pieces[k + 1] < capture[a].pieces[l + 1]
<1> DEFINE q == capture[a].pieces
           r == TextLines(capture[a].body, 1, Len(capture[a].body))
<1>1. capture[a] \in Captures /\ Begins(q, r)
  BY DEF StreamInv, StreamTypeOK, CaptureInv, ReadSoFar
<1>2. q \in Seq(Nat) /\ Len(capture[a].body) \in Nat
  BY <1>1 DEF Captures
<1>3. Rising(r, 1, Len(capture[a].body))
  BY <1>2, TextRises
<1> HIDE DEF q, r
<1>4. \A k \in 0..(Len(q) - 1) : k + 1 \in 1..Len(r) /\ q[k + 1] = r[k + 1]
  <2>1. r \in Seq(Nat)
    BY <1>3 DEF Rising
  <2>2. \A k \in 0..(Len(q) - 1) : k + 1 \in 1..Len(q) /\ k + 1 \in 1..Len(r)
    BY <1>1, <1>2, <2>1 DEF Begins
  <2> QED BY <1>1, <2>2 DEF Begins
<1>5. \A k \in 0..(Len(q) - 1) : q[k + 1] > 0
  <2>1. \A i \in 1..Len(r) : r[i] \in Nat /\ 1 <= r[i]
    BY <1>3 DEF Rising
  <2> QED BY <1>4, <2>1
<1>6. \A k, l \in 0..(Len(q) - 1) : k < l => q[k + 1] < q[l + 1]
  <2> SUFFICES ASSUME NEW k \in 0..(Len(q) - 1), NEW l \in 0..(Len(q) - 1), k < l
               PROVE  q[k + 1] < q[l + 1]
    OBVIOUS
  <2>1. k + 1 < l + 1
    OBVIOUS
  <2>2. r[k + 1] < r[l + 1]
    BY <1>3, <1>4, <2>1 DEF Rising
  <2> QED BY <1>4, <2>2
<1> QED
  BY <1>2, <1>5, <1>6 DEF q

\* A piece that the window leaves out is of no answer to be shown.
LEMMA LeftOutIsDead ==
    ASSUME StreamInv, HandleMessage, ~view.mixed, NEW a \in Answers, Live(a)',
           OfStream(messages[1]), messages[1].of = a
    PROVE  messages[1].session = view.session /\ (messages[1].what = "chunk" => messages[1].index > view.last)
<1> DEFINE m == messages[1]
<1>1. /\ 1 \in 1..Len(messages) /\ m = Head(messages)
      /\ messages \in Seq(Messages) /\ messages' \in Seq(Messages) /\ capture' = capture
      /\ view' = Handled(m)
      /\ \A j \in 1..Len(messages') : j + 1 \in 1..Len(messages) /\ messages'[j] = messages[j + 1]
  BY MovedUp DEF StreamInv
<1>2. Faithful(m) /\ m \in Messages /\ view \in Views
  BY <1>1 DEF StreamInv, StreamTypeOK, QueueInv
<1>3. m.session = capture[a].session
  BY <1>2 DEF Faithful
<1>4. view'.session = view.session
  <2> HIDE DEF m
  <2> QED BY <1>1, <1>2 DEF m, OfStream, Handled, handleAnswerChunk, Views
<1>5. ASSUME NEW j \in 1..Len(messages'), messages'[j].what = "active", messages'[j].session = m.session
      PROVE  FALSE
  <2>1. Follows(m, messages[j + 1])
    BY <1>1 DEF StreamInv, QueueInv
  <2> QED BY <1>1, <1>5, <2>1 DEF Follows
<1>6. m.session = view.session
  <2>1. m.session \in Awaited'
    BY <1>1, <1>3 DEF Live
  <2>2. m.session = view'.session \/ \E n \in ToSet(messages') : n.what = "active" /\ n.session = m.session
    BY <2>1 DEF Awaited
  <2>3. \A n \in ToSet(messages') : \E j \in 1..Len(messages') : n = messages'[j]
    BY <1>1 DEF ToSet
  <2> HIDE DEF m
  <2> QED BY <1>4, <1>5, <2>2, <2>3
<1>7. ASSUME m.what = "chunk" PROVE m.index > view.last
  <2>1. Pending(a)
    BY HandledLive DEF StreamInv, SingleInv
  <2>2. Queued(a, m.index)
    BY <1>1, <1>7 DEF Queued
  <2>3. m.index \in 0..(Len(capture[a].pieces) - 1)
    BY <1>2, <1>7, PiecesRise DEF Faithful, Messages
  <2> QED BY <2>1, <2>2, <2>3 DEF Pending
<1> QED
  BY <1>6, <1>7

\* A message that changes neither the pieces shown nor how far they go, or only
\* puts a card in the place of them
LEMMA QuietStep ==
    ASSUME StreamInv, HandleMessage, view' \in Views, view'.last = view.last,
           view'.mixed = view.mixed,
           view'.text = view.text \/ (Len(view'.text) = 1 /\ view'.text[1].line = 0),
           \A a \in Answers : Live(a)' /\ ~view.mixed =>
               ~(messages[1].what = "chunk" /\ messages[1].of = a)
    PROVE  StreamInv'
<1>1. capture' = capture /\ current' = current /\ messages' \in Seq(Messages)
  BY MovedUp DEF StreamInv
<1>2. StreamTypeOK'
  BY <1>1 DEF StreamInv, StreamTypeOK
<1>3. ShownInv'
  <2>1. view.last >= -1 /\ Len(view'.text) \in Nat
    BY DEF StreamInv, ShownInv, Views
  <2>2. CASE view'.text = view.text
    <3>1. \A p : Shown(p) => Shown(p)'
      BY HandledShown
    <3>2. \A i \in 1..Len(view.text) : Shown(view.text[i])
      BY DEF StreamInv, ShownInv
    <3>3. ASSUME NEW i \in 1..Len(view'.text) PROVE Shown(view.text[i])'
      <4> DEFINE p == view.text[i]
      <4>1. Shown(p)
        BY <2>2, <3>2
      <4>2. view'.text[i] = p
        BY <2>2
      <4>3. \E x : x = p
        OBVIOUS
      <4> HIDE DEF p
      <4>4. PICK x : x = p
        BY <4>3
      <4>5. Shown(x)
        BY <4>1, <4>4
      <4>6. Shown(x)'
        BY <4>5, HandledShown
      <4>7. view'.text[i] = x
        BY <4>2, <4>4
      <4> QED BY <4>6, <4>7 DEF Shown
    <3> QED BY <2>1, <2>2, <3>3 DEF StreamInv, ShownInv
  <2>3. CASE Len(view'.text) = 1 /\ view'.text[1].line = 0
    BY <2>1, <2>3 DEF ShownInv, Shown
  <2> QED BY <2>2, <2>3
<1>4. ASSUME ~view.mixed, NEW a \in Answers, Live(a)' PROVE Pending(a)'
  <2>1. Pending(a)
    BY <1>4, HandledLive DEF StreamInv, SingleInv
  <2>2. \A k : Queued(a, k)' <=> Queued(a, k)
    BY <1>4, HandledQueue
  <2> QED BY <1>1, <2>1, <2>2 DEF Pending
<1>5. SingleInv'
  <2> SUFFICES ASSUME ~view.mixed PROVE SingleInv'
    BY DEF SingleInv
  <2>1. \A a \in Answers : Live(a)' => Live(a)
    BY HandledLive
  <2>2. \A a, b \in Answers : Live(a)' /\ Live(b)' => a = b
    BY <2>1 DEF StreamInv, SingleInv
  <2>3. \A a \in Answers : Live(a)' /\ view'.text = <<>> => view'.last = -1
    <3>1. view'.text = <<>> => view.text = <<>>
      OBVIOUS
    <3> QED BY <2>1, <3>1 DEF StreamInv, SingleInv
  <2>4. view'.text # <<>> /\ view'.text[1].line # 0 =>
           /\ TextOf(view.text[1].of)'
           /\ \A a \in Answers : Live(a)' => a = view'.text[1].of /\ view'.last = Len(view'.text) - 1
    BY <1>1, <2>1 DEF StreamInv, SingleInv, TextOf
  <2> QED BY <1>4, <2>2, <2>3, <2>4 DEF SingleInv
<1> QED
  BY <1>2, <1>3, <1>5, HandledQueue DEF StreamInv

\* A piece is shown after those of its answer.
LEMMA ChunkStep ==
    ASSUME StreamInv, HandleMessage, NEW m, m = messages[1], NEW c, c = m.of, NEW x, x = Piece(m),
           m.what = "chunk", m.session = view.session, m.index > view.last
    PROVE  StreamInv'
<1>1. /\ 1 \in 1..Len(messages) /\ m = Head(messages) /\ Len(messages) \in Nat
      /\ messages \in Seq(Messages) /\ messages' \in Seq(Messages) /\ capture' = capture
      /\ current' = current /\ view' = Handled(m)
      /\ \A j \in 1..Len(messages') : j + 1 \in 1..Len(messages) /\ messages'[j] = messages[j + 1]
  BY MovedUp DEF StreamInv
<1>2. Faithful(m) /\ m \in Messages /\ view \in Views
  BY <1>1 DEF StreamInv, StreamTypeOK, QueueInv
<1>3. /\ c \in Answers /\ m.session = capture[c].session /\ m.index \in Nat /\ m.what = "chunk"
      /\ m.index < Len(capture[c].pieces) /\ m.line = capture[c].pieces[m.index + 1]
  BY <1>2 DEF Faithful, OfStream, Messages
<1>4. /\ capture[c].pieces \in Seq(Nat) /\ Len(capture[c].pieces) \in Nat
      /\ \A k \in 0..(Len(capture[c].pieces) - 1) : capture[c].pieces[k + 1] > 0
      /\ \A k, l \in 0..(Len(capture[c].pieces) - 1) :
           k < l => capture[c].pieces[k + 1] < capture[c].pieces[l + 1]
  <2>1. capture[c].pieces \in Seq(Nat)
    BY <1>3, PiecesRise
  <2>2. Len(capture[c].pieces) \in Nat
    BY <2>1
  <2> QED BY <1>3, <2>1, <2>2, PiecesRise
<1>5. x \in Pieces /\ x.of = c /\ x.line = m.line
  BY <1>2, <1>3 DEF Piece, Pieces, Messages
<1>6. /\ view'.session = view.session /\ view'.mixed = view.mixed /\ view'.last = m.index
      /\ view'.text = Append(view.text, x) /\ view' \in Views
  <2>1. m.session = view.session /\ ~(m.index <= view.last)
    BY <1>2, <1>3 DEF Views
  <2>2. view' = [view EXCEPT !.last = m.index, !.text = Append(view.text, Piece(m))]
    BY <1>1, <1>3, <2>1 DEF Handled, handleAnswerChunk
  <2>3. Piece(m) \in Pieces
    BY <1>5
  <2>4. Append(view.text, Piece(m)) \in Seq(Pieces) /\ m.index \in Int
    BY <1>2, <1>3, <2>3 DEF Views
  <2> QED BY <1>2, <2>2, <2>4 DEF Views
<1>7. /\ view.text \in Seq(Pieces) /\ view.last \in Int /\ Len(view.text) \in Nat
      /\ Len(view'.text) = Len(view.text) + 1 /\ view'.text[Len(view.text) + 1] = x
      /\ \A i \in 1..Len(view.text) : view'.text[i] = view.text[i]
  <2>1. view.text \in Seq(Pieces) /\ view.last \in Int
    BY <1>2 DEF Views
  <2> QED BY <1>5, <1>6, <2>1
<1>8. StreamTypeOK'
  BY <1>1, <1>6 DEF StreamInv, StreamTypeOK
<1>9. Queued(c, m.index)
  BY <1>1, <1>3 DEF Queued
<1>10. ASSUME NEW k, Queued(c, k), k # m.index PROVE k > m.index
  <2>1. PICK i \in 1..Len(messages) : messages[i].what = "chunk" /\ messages[i].of = c /\ messages[i].index = k
    BY <1>10 DEF Queued
  <2>2. i > 1
    BY <1>10, <2>1
  <2>3. Follows(m, messages[i])
    BY <1>1, <2>2 DEF StreamInv, QueueInv
  <2> QED BY <1>3, <2>1, <2>3 DEF Follows, OfStream
<1>11. ASSUME NEW k, Queued(c, k)' PROVE k > m.index
  <2>1. PICK i \in 1..Len(messages') : messages'[i].what = "chunk" /\ messages'[i].of = c /\ messages'[i].index = k
    BY <1>11 DEF Queued
  <2>2. i + 1 > 1 /\ i + 1 \in 1..Len(messages)
    BY <1>1, <2>1
  <2>3. Follows(m, messages[i + 1])
    BY <1>1, <2>2 DEF StreamInv, QueueInv
  <2> QED BY <1>1, <1>3, <2>1, <2>3 DEF Follows, OfStream
<1>12. Live(c)
  <2>1. m.session \in Awaited
    BY <1>3 DEF Awaited
  <2> QED BY <1>1, <1>3, <2>1 DEF Live, OfStream
<1>13. ASSUME NEW i \in 1..Len(view.text) PROVE Shown(view.text[i])'
  <2>1. PICK p : p = view.text[i]
    OBVIOUS
  <2>2. Shown(p)
    BY <2>1 DEF StreamInv, ShownInv
  <2>3. Shown(p)'
    BY <2>2, HandledShown
  <2>4. view'.text[i] = p
    BY <1>7, <2>1
  <2> QED BY <2>3, <2>4 DEF Shown
<1>14. Shown(x)'
  <2>1. \A i \in 1..Len(messages') :
           messages'[i].what = "chunk" /\ messages'[i].of = c => messages'[i].index > m.index
    BY <1>11 DEF Queued
  <2>2. m.index \in 0..(Len(capture[c].pieces) - 1) /\ capture[c].pieces[m.index + 1] = x.line
    BY <1>3, <1>4, <1>5
  <2> QED BY <1>1, <1>5, <2>1, <2>2 DEF Shown
<1>15. ASSUME NEW i \in 1..Len(view.text), view.text[i].of = c PROVE view.text[i].line < x.line
  <2>1. CASE view.text[i].line = 0
    BY <1>3, <1>4, <1>5, <2>1
  <2>2. CASE view.text[i].line # 0
    <3>1. Shown(view.text[i])
      BY DEF StreamInv, ShownInv
    <3>2. PICK k \in 0..(Len(capture[c].pieces) - 1) :
            capture[c].pieces[k + 1] = view.text[i].line /\ m.index > k
      BY <1>1, <1>3, <1>15, <2>2, <3>1 DEF Shown
    <3>3. m.index \in 0..(Len(capture[c].pieces) - 1)
      BY <1>3, <1>4
    <3> QED BY <1>3, <1>4, <1>5, <3>2, <3>3
  <2> QED BY <2>1, <2>2
<1>16. ShownInv'
  <2>1. view'.last >= -1
    BY <1>3, <1>6
  <2>2. \A i \in 1..Len(view'.text) : i \in 1..Len(view.text) \/ i = Len(view.text) + 1
    BY <1>7
  <2>3. ASSUME NEW i \in 1..Len(view'.text) PROVE Shown(view.text[i])'
    <3>1. CASE i \in 1..Len(view.text)
      BY <1>13, <3>1
    <3>2. CASE i = Len(view.text) + 1
      BY <1>7, <1>14, <3>2 DEF Shown
    <3> QED BY <2>2, <3>1, <3>2
  <2>4. ASSUME NEW i \in 1..Len(view'.text), NEW j \in 1..Len(view'.text), i < j,
               view'.text[i].of = view'.text[j].of
        PROVE  view'.text[i].line < view'.text[j].line
    <3>1. i \in 1..Len(view.text) /\ view'.text[i] = view.text[i]
      BY <1>7, <2>4
    <3>2. CASE j \in 1..Len(view.text)
      BY <1>7, <2>4, <3>1, <3>2 DEF StreamInv, ShownInv
    <3>3. CASE j = Len(view.text) + 1
      BY <1>5, <1>7, <1>15, <2>4, <3>1, <3>3
    <3> QED BY <2>2, <3>2, <3>3
  <2> QED BY <2>1, <2>3, <2>4 DEF ShownInv
<1>17. SingleInv'
  <2> SUFFICES ASSUME ~view.mixed PROVE SingleInv'
    BY <1>6 DEF SingleInv
  <2>1. \A a \in Answers : Live(a)' => a = c
    BY <1>3, <1>12, HandledLive DEF StreamInv, SingleInv
  <2>2. Pending(c) /\ (view.text = <<>> => view.last = -1)
    BY <1>3, <1>12 DEF StreamInv, SingleInv
  <2>3. Pending(c)'
    <3>1. ASSUME NEW k \in 0..(Len(capture[c].pieces) - 1), k > m.index PROVE Queued(c, k)'
      <4>1. Queued(c, k)
        BY <1>3, <1>7, <2>2, <3>1 DEF Pending
      <4> QED BY <1>3, <3>1, <4>1, HandledQueue
    <3> QED BY <1>1, <1>3, <1>6, <1>11, <3>1 DEF Pending
  <2>4. m.index = view.last + 1
    <3>1. view.last + 1 <= m.index /\ view.last >= -1
      BY <1>3, <1>7 DEF StreamInv, ShownInv
    <3>2. view.last + 1 \in 0..(Len(capture[c].pieces) - 1)
      <4>1. \A u, v, w \in Int : u + 1 <= v /\ u >= -1 /\ v < w => u + 1 \in 0..(w - 1)
        OBVIOUS
      <4>2. view.last \in Int /\ m.index \in Int /\ Len(capture[c].pieces) \in Int
        BY <1>3, <1>4, <1>7
      <4> QED BY <1>3, <3>1, <4>1, <4>2
    <3>3. Queued(c, view.last + 1)
      BY <1>7, <2>2, <3>2 DEF Pending
    <3>4. ~(view.last + 1 > m.index)
      BY <1>3, <1>7, <3>1
    <3> QED BY <1>10, <3>3, <3>4
  <2>5. ASSUME view'.text[1].of = c, Len(view'.text) <= Len(capture[c].pieces),
               \A i \in 1..Len(view'.text) : view'.text[i] = [of |-> c, line |-> capture[c].pieces[i]]
        PROVE  TextOf(view.text[1].of)'
    BY <1>1, <2>5 DEF TextOf
  <2>6. ASSUME view'.text[1].line # 0
        PROVE  /\ view'.text[1].of = c /\ TextOf(view.text[1].of)'
               /\ view'.last = Len(view'.text) - 1
    <3>1. CASE view.text = <<>>
      <4>1. Len(view.text) = 0 /\ m.index = 0 /\ view'.text[1] = x
        BY <1>7, <2>2, <2>4, <3>1
      <4>2. x = [of |-> c, line |-> capture[c].pieces[1]]
        BY <1>3, <1>5, <4>1 DEF Pieces
      <4>3. /\ view'.text[1].of = c /\ view'.last = Len(view'.text) - 1
            /\ Len(view'.text) <= Len(capture[c].pieces)
        BY <1>3, <1>4, <1>5, <1>6, <1>7, <4>1
      <4>4. \A i \in 1..Len(view'.text) : i = 1
        BY <1>7, <4>1
      <4>5. \A i \in 1..Len(view'.text) : view'.text[i] = [of |-> c, line |-> capture[c].pieces[i]]
        BY <4>1, <4>2, <4>4
      <4> QED BY <2>5, <4>3, <4>5
    <3>2. CASE view.text # <<>>
      <4>1. 1 \in 1..Len(view.text) /\ view'.text[1] = view.text[1]
        BY <1>7, <3>2
      <4>2. c = view.text[1].of /\ view.last = Len(view.text) - 1 /\ TextOf(c)
        BY <1>3, <1>12, <2>6, <3>2, <4>1 DEF StreamInv, SingleInv
      <4>3. x = [of |-> c, line |-> capture[c].pieces[Len(view.text) + 1]]
        BY <1>3, <1>5, <1>7, <2>4, <4>2 DEF Pieces
      <4>4. Len(view'.text) <= Len(capture[c].pieces)
        BY <1>3, <1>4, <1>7, <2>4, <4>2
      <4>5. \A i \in 1..Len(view'.text) : view'.text[i] = [of |-> c, line |-> capture[c].pieces[i]]
        <5>1. \A i \in 1..Len(view'.text) : i \in 1..Len(view.text) \/ i = Len(view.text) + 1
          BY <1>7
        <5> QED BY <1>7, <4>2, <4>3, <5>1 DEF TextOf
      <4>6. view'.text[1].of = c /\ view'.last = Len(view'.text) - 1
        BY <1>6, <1>7, <2>4, <4>1, <4>2
      <4> QED BY <2>5, <4>4, <4>5, <4>6
    <3> QED BY <3>1, <3>2
  <2>7. view'.text # <<>>
    BY <1>7
  <2> QED BY <1>6, <2>1, <2>3, <2>6, <2>7 DEF SingleInv
<1> QED
  BY <1>8, <1>16, <1>17, HandledQueue DEF StreamInv

\* The chunk that closes an answer: none of its pieces is on its way any more.
LEMMA FinalStep ==
    ASSUME StreamInv, HandleMessage, NEW m, m = messages[1], NEW c, c = m.of,
           m.what = "final", m.session = view.session
    PROVE  StreamInv'
<1>1. /\ 1 \in 1..Len(messages) /\ m = Head(messages) /\ Len(messages) \in Nat
      /\ messages \in Seq(Messages) /\ messages' \in Seq(Messages) /\ capture' = capture
      /\ current' = current /\ view' = Handled(m)
      /\ \A j \in 1..Len(messages') : j + 1 \in 1..Len(messages) /\ messages'[j] = messages[j + 1]
  BY MovedUp DEF StreamInv
<1>2. Faithful(m) /\ m \in Messages /\ view \in Views
  BY <1>1 DEF StreamInv, StreamTypeOK, QueueInv
<1>3. /\ c \in Answers /\ m.session = capture[c].session /\ m.index \in Nat
      /\ m.index = Len(capture[c].pieces) /\ capture[c].at # "streaming"
  BY <1>2 DEF Faithful, OfStream, Messages
<1>4. /\ view'.session = view.session /\ view'.mixed = view.mixed /\ view'.last = m.index
      /\ view'.text = view.text /\ view' \in Views
  <2>1. view' = [view EXCEPT !.last = m.index]
    BY <1>1, <1>2 DEF Handled, handleAnswerChunk, Views
  <2>2. view' = [session |-> view.session, last |-> m.index, text |-> view.text, mixed |-> view.mixed]
    BY <1>2, <2>1 DEF Views
  <2>3. /\ view.session \in Nat /\ view.text \in Seq(Pieces) /\ view.mixed \in BOOLEAN
        /\ m.index \in Int
    <3>1. m.index \in Nat
      BY <1>3
    <3> QED BY <1>2, <3>1 DEF Views
  <2> QED BY <2>2, <2>3 DEF Views
<1>5. ~Live(c)'
  <2>1. ASSUME NEW i \in 1..Len(messages'), OfStream(messages'[i]), messages'[i].of = c PROVE FALSE
    <3>1. Follows(m, messages[i + 1]) /\ Faithful(messages[i + 1]) /\ messages[i + 1] \in Messages
      BY <1>1 DEF StreamInv, QueueInv
    <3>2. messages[i + 1] = messages'[i]
      BY <1>1
    <3>3. m.index < messages'[i].index
      BY <2>1, <3>1, <3>2 DEF Follows, OfStream
    <3>4. messages'[i].index <= Len(capture[c].pieces) /\ messages'[i].index \in Nat
      BY <1>3, <2>1, <3>1, <3>2 DEF Faithful, OfStream, Messages
    <3> QED BY <1>3, <3>3, <3>4
  <2> QED BY <1>1, <1>3, <2>1 DEF Live, OfStream
<1>6. Live(c)
  <2>1. m.session \in Awaited
    BY <1>3 DEF Awaited
  <2> QED BY <1>1, <1>3, <2>1 DEF Live, OfStream
<1>7. ShownInv'
  <2>1. ASSUME NEW i \in 1..Len(view.text) PROVE Shown(view.text[i])'
    <3>1. PICK p : p = view.text[i]
      OBVIOUS
    <3>2. Shown(p)
      BY <3>1 DEF StreamInv, ShownInv
    <3>3. Shown(p)'
      BY <3>2, HandledShown
    <3>4. view'.text[i] = p
      BY <1>4, <3>1
    <3> QED BY <3>3, <3>4 DEF Shown
  <2> QED BY <1>3, <1>4, <2>1 DEF StreamInv, ShownInv
<1>8. SingleInv'
  <2> SUFFICES ASSUME ~view.mixed PROVE SingleInv'
    BY <1>4 DEF SingleInv
  <2>1. \A a \in Answers : ~Live(a)'
    BY <1>3, <1>5, <1>6, HandledLive DEF StreamInv, SingleInv
  <2>2. view'.text # <<>> /\ view'.text[1].line # 0 => TextOf(view.text[1].of)'
    BY <1>1, <1>4 DEF StreamInv, SingleInv, TextOf
  <2> QED BY <2>1, <2>2 DEF SingleInv
<1>9. StreamTypeOK'
  BY <1>1, <1>4 DEF StreamInv, StreamTypeOK
<1> QED
  BY <1>7, <1>8, <1>9, HandledQueue DEF StreamInv

\* The window handles a message.
LEMMA HandleStep ==
    ASSUME StreamInv, HandleMessage
    PROVE  StreamInv'
<1>1. PICK m : m = messages[1]
  OBVIOUS
<1>2. PICK c : c = m.of
  OBVIOUS
<1>3. PICK x : x = Piece(m)
  OBVIOUS
<1>4. view' = Handled(m) /\ m \in Messages /\ view \in Views /\ Faithful(m)
  BY <1>1, MovedUp DEF StreamInv, StreamTypeOK, QueueInv
<1>5. CASE m.what = "chunk" /\ m.session = view.session /\ m.index > view.last
  BY <1>1, <1>2, <1>3, <1>5, ChunkStep
<1>6. CASE m.what = "final" /\ m.session = view.session
  BY <1>1, <1>2, <1>6, FinalStep
<1>7. ASSUME OfStream(m), ~(m.session = view.session /\ (m.what = "chunk" => m.index > view.last))
      PROVE  StreamInv'
  <2>1. view' = view
    BY <1>4, <1>7 DEF Handled, handleAnswerChunk, OfStream, Messages, Views
  <2>2. \A a \in Answers : Live(a)' /\ ~view.mixed => ~(m.what = "chunk" /\ m.of = a)
    BY <1>1, <1>7, LeftOutIsDead
  <2> QED BY <1>1, <1>4, <2>1, <2>2, QuietStep
<1>8. CASE m.what = "ready"
  <2>1. m.of \in Answers /\ m.line = 0
    BY <1>4, <1>8 DEF Faithful
  <2>2. Piece(m) \in Pieces /\ Piece(m).line = 0
    BY <2>1 DEF Piece, Pieces
  <2>3. view' = [view EXCEPT !.text = <<Piece(m)>>]
    BY <1>4, <1>8 DEF Handled
  <2>4. /\ <<Piece(m)>> \in Seq(Pieces) /\ Len(<<Piece(m)>>) = 1 /\ <<Piece(m)>>[1].line = 0
    BY <2>2
  <2>5. /\ view' \in Views /\ view'.last = view.last /\ view'.mixed = view.mixed
        /\ view'.text = <<Piece(m)>>
    BY <1>4, <2>3, <2>4 DEF Views
  <2> QED BY <1>1, <1>8, <2>4, <2>5, QuietStep
<1>9. CASE m.what \in {"active", "failed"}
  <2>1. view' = [view EXCEPT !.session = m.session] \/ view' = view
    BY <1>4, <1>9 DEF Handled
  <2>2. /\ view' \in Views /\ view'.last = view.last /\ view'.mixed = view.mixed
        /\ view'.text = view.text
    BY <1>4, <2>1 DEF Views, Messages
  <2> QED BY <1>1, <1>9, <2>2, QuietStep
<1>10. m.what \in {"chunk", "final", "ready", "failed", "active"}
  BY <1>4 DEF Messages
<1> QED
  BY <1>5, <1>6, <1>7, <1>8, <1>9, <1>10 DEF OfStream

\* At the start nothing was asked, sent or shown.
LEMMA StreamInvInit == StreamInit => StreamInv
<1> SUFFICES ASSUME StreamInit PROVE StreamInv
  OBVIOUS
<1>1. /\ capture = [a \in Answers |-> NoCapture] /\ current = 1 /\ messages = <<>>
      /\ view = [session |-> 1, last |-> -1, text |-> <<>>, mixed |-> FALSE]
  BY DEF StreamInit, NoView
<1>2. <<>> \in Seq(Nat) /\ <<>> \in Seq(Lines) /\ <<>> \in Seq(Messages) /\ <<>> \in Seq(Pieces)
  OBVIOUS
<1>3. NoCapture \in Captures
  BY <1>2 DEF NoCapture, Captures
<1>4. StreamTypeOK
  BY <1>1, <1>2, <1>3 DEF StreamTypeOK, Views
<1>5. \A a \in Answers : capture[a] = NoCapture
  BY <1>1
<1>6. CaptureInv
  <2>1. TextLines(<<>>, 1, Len(<<>>)) \in Seq(Nat)
    BY TextRises DEF Rising
  <2>2. Begins(<<>>, TextLines(<<>>, 1, Len(<<>>)))
    BY <2>1 DEF Begins
  <2>3. ReadSoFar(NoCapture)
    BY <2>2 DEF ReadSoFar, NoCapture
  <2> QED BY <1>1, <1>5, <2>3 DEF CaptureInv, NoCapture
<1>7. QueueInv /\ ShownInv
  BY <1>1 DEF QueueInv, ShownInv
<1>8. \A a \in Answers : ~Live(a)
  BY <1>1, <1>5 DEF Live, NoCapture
<1>9. SingleInv
  BY <1>1, <1>8 DEF SingleInv
<1> QED
  BY <1>4, <1>6, <1>7, <1>9 DEF StreamInv

\* Every step keeps the invariant.
LEMMA StreamInvStep == StreamInv /\ [StreamNext]_streamVars => StreamInv'
<1> SUFFICES ASSUME StreamInv, [StreamNext]_streamVars PROVE StreamInv'
  OBVIOUS
<1>1. CASE UNCHANGED streamVars
  <2>1. capture' = capture /\ current' = current /\ messages' = messages /\ view' = view
    BY <1>1 DEF streamVars
  <2>2. StreamTypeOK' /\ CaptureInv'
    BY <2>1 DEF StreamInv, StreamTypeOK, CaptureInv
  <2>3. \A b \in Answers : \A k : Queued(b, k)' <=> Queued(b, k)
    BY <2>1 DEF Queued
  <2>4. QueueInv'
    BY <2>1, <2>3 DEF StreamInv, QueueInv, Faithful, Follows, OfStream
  <2>5. ShownInv'
    BY <2>1 DEF StreamInv, ShownInv, Shown
  <2>6. \A b \in Answers : (Live(b)' <=> Live(b)) /\ (Pending(b)' <=> Pending(b))
    BY <2>1, <2>3 DEF Live, Awaited, OfStream, Pending
  <2>7. TextOf(view.text[1].of)' <=> TextOf(view.text[1].of)
    BY <2>1 DEF TextOf
  <2>8. SingleInv'
    BY <2>1, <2>6, <2>7 DEF StreamInv, SingleInv
  <2> QED BY <2>2, <2>4, <2>5, <2>8 DEF StreamInv
<1>2. CASE StreamNext
  <2>1. \/ \E a \in Answers : \/ ReceiveChunk(a) \/ EndOfBody(a) \/ StreamFails(a)
                              \/ AnswerReady(a) \/ AnswerRefused(a)
        \/ \E a \in Answers : triggerHotkeyAnswer(a)
        \/ startSession \/ HandleMessage
    BY <1>2 DEF StreamNext
  <2> QED BY <2>1, BackendStep, TriggerStep, StartStep, HandleStep
<1> QED
  BY <1>1, <1>2

\* The invariant holds in every state.
LEMMA StreamInvAlways == StreamSpec => []StreamInv
BY StreamInvInit, StreamInvStep, PTL DEF StreamSpec

\* What the window shows of an answer that is being written is the beginning of
\* what the provider sends of it, piece by piece, whatever the chunks, the
\* sessions and the number of answers
\* (stream_text_response, capture_bilingual_answer, handleAnswerChunk).
THEOREM StreamIsShown == StreamSpec => []StreamShownAsSent
<1>1. StreamInv => StreamShownAsSent
  <2> SUFFICES ASSUME StreamInv PROVE StreamShownAsSent
    OBVIOUS
  <2> DEFINE text == view.text
             a == text[1].of
             whole == TextLines(capture[a].body, 1, Len(capture[a].body))
  <2>1. text \in Seq(Pieces) /\ DOMAIN text = 1..Len(text) /\ Len(text) \in Nat
    BY DEF StreamInv, StreamTypeOK, Views
  <2>2. \A i, j \in DOMAIN text : i < j /\ text[i].of = text[j].of => text[i].line < text[j].line
    BY <2>1 DEF StreamInv, ShownInv
  <2>3. ASSUME text # <<>>, text[1].line # 0, ~view.mixed
        PROVE  Len(text) <= Len(whole) /\ text = [i \in DOMAIN text |-> [of |-> a, line |-> whole[i]]]
    <3>1. TextOf(a) /\ a \in Answers
      <4>1. 1 \in 1..Len(text) /\ text[1] \in Pieces
        BY <2>1, <2>3
      <4> QED BY <2>3, <4>1 DEF StreamInv, SingleInv, Pieces
    <3>2. capture[a] \in Captures /\ Begins(capture[a].pieces, whole)
      BY <3>1 DEF StreamInv, StreamTypeOK, CaptureInv, ReadSoFar
    <3>3. whole \in Seq(Nat) /\ capture[a].pieces \in Seq(Nat)
      <4>1. Len(capture[a].body) \in Nat /\ capture[a].pieces \in Seq(Nat)
        BY <3>2 DEF Captures
      <4>2. Rising(whole, 1, Len(capture[a].body))
        BY <4>1, TextRises
      <4> QED BY <4>1, <4>2 DEF Rising
    <3> HIDE DEF whole
    <3>4. Len(text) <= Len(capture[a].pieces)
          /\ \A i \in 1..Len(text) : text[i] = [of |-> a, line |-> capture[a].pieces[i]]
      BY <3>1 DEF TextOf
    <3> HIDE DEF a, text
    <3>5. Len(text) <= Len(whole) /\ \A i \in 1..Len(text) : text[i] = [of |-> a, line |-> whole[i]]
      <4>1. \A i \in 1..Len(text) : i \in 1..Len(capture[a].pieces) /\ capture[a].pieces[i] = whole[i]
        BY <2>1, <3>2, <3>3, <3>4 DEF Begins
      <4>2. Len(text) <= Len(whole)
        BY <2>1, <3>2, <3>3, <3>4 DEF Begins
      <4> QED BY <3>4, <4>1, <4>2
    <3>6. text = [i \in DOMAIN text |-> text[i]]
      BY <2>1
    <3> QED BY <2>1, <3>5, <3>6
  <2> QED BY <2>2, <2>3 DEF StreamShownAsSent
<1>2. QED
  BY <1>1, StreamInvAlways, PTL
=============================================================================
