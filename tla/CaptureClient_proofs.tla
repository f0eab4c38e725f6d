------------------------- MODULE CaptureClient_proofs -------------------------
(***************************************************************************)
(* What CaptureClient promises, for any number of recordings, commands and *)
(* transcripts.                                                            *)
(***************************************************************************)
EXTENDS CaptureClient, ContextMemo_proofs

\* What a command has, by where it is: a stop past the mutex its run, past the
\* provider its transcript, and a command that waits for a card all the card
\* is made of.
Ready(c) ==
    /\ c.kind = "stop" /\ c.pc \in {"stopping", "stt", "reading", "llm", "recording"}
         => c.run \in RunIds
    /\ c.kind = "stop" /\ c.pc \in {"reading", "llm", "recording"}
         => c.text = c.run
    /\ c.pc = "llm" => c.text \in Texts /\ c.mode \in Modes

JobsReady == \A j \in Slots : Ready(jobs[j])

TypeInv == BackendTypeOK /\ JobsReady

\* Run ids are given out by runSeq.
RunsStarted ==
    /\ held <= runSeq
    /\ \A j \in Slots : jobs[j].run \in RunIds => jobs[j].run <= runSeq

OwnerInv == RunsStarted /\ RecordingHasOwner /\ RunTakenOnce

\* The sequence s holds only runs whose stop command is past the pcs.
HoldsPast(s, pcs) ==
    /\ \A t \in Range(s) : t <= runSeq /\ t # held
    /\ \A j \in Slots : At(j, "stop", pcs) => jobs[j].run \notin Range(s)

BeforeCommit == {"stopping", "stt", "reading", "llm"}
BeforeReturn == {"stopping", "stt", "reading", "llm", "recording"}

CommitInv ==
    /\ HoldsPast(memo.entries, BeforeCommit)
    /\ HoldsPast(session.questions, BeforeReturn)
    /\ CommittedOnce

IInv == TypeInv /\ OwnerInv /\ CommitInv

----------------------------------------------------------------------------
(* The table of commands *)

Table == [Slots -> Jobs]

\* g is f with command j moved to pc, with this run, text and mode.
Moved(f, g, j, pc, run, text, mode) ==
    /\ g \in Table
    /\ \A i \in Slots \ {j} : g[i] = f[i]
    /\ g[j].kind = f[j].kind /\ g[j].owner = f[j].owner
    /\ g[j].pc = pc /\ g[j].run = run /\ g[j].text = text /\ g[j].mode = mode

\* Setting one field of a command's record moves that command and no other.
LEMMA SetPc ==
    ASSUME NEW f \in Table, NEW j \in Slots, NEW pc \in Pcs
    PROVE  Moved(f, [f EXCEPT ![j].pc = pc], j,
                 pc, f[j].run, f[j].text, f[j].mode)
BY DEF Table, Jobs, Moved

\* the run it took
LEMMA SetRun ==
    ASSUME NEW f \in Table, NEW j \in Slots, NEW r \in AnyRun
    PROVE  Moved(f, [f EXCEPT ![j].run = r], j,
                 f[j].pc, r, f[j].text, f[j].mode)
BY DEF Table, Jobs, Moved

\* the transcript it analyses
LEMMA SetText ==
    ASSUME NEW f \in Table, NEW j \in Slots, NEW t \in Texts \cup {NoText}
    PROVE  Moved(f, [f EXCEPT ![j].text = t], j,
                 f[j].pc, f[j].run, t, f[j].mode)
BY DEF Table, Jobs, Moved

\* the mode it chose
LEMMA SetMode ==
    ASSUME NEW f \in Table, NEW j \in Slots, NEW m \in Modes \cup {"none"}
    PROVE  Moved(f, [f EXCEPT ![j].mode = m], j,
                 f[j].pc, f[j].run, f[j].text, m)
BY DEF Table, Jobs, Moved

\* and the flags it returns
LEMMA SetFlags ==
    ASSUME NEW f \in Table, NEW j \in Slots, NEW b \in Flags
    PROVE  Moved(f, [f EXCEPT ![j].flags = b], j,
                 f[j].pc, f[j].run, f[j].text, f[j].mode)
BY DEF Table, Jobs, Moved

\* A command that goes on, and what the others change beside the pc
LEMMA GoesMoves ==
    ASSUME BackendTypeOK, NEW j \in Slots, NEW pc \in Pcs
    PROVE  Moved(jobs, Goes(j, pc), j,
                 pc, jobs[j].run, jobs[j].text, jobs[j].mode)
BY SetPc DEF Goes, BackendTypeOK, Table

\* a stop at the mutex: the run
LEMMA StopTakesRunMoves ==
    ASSUME TypeInv, NEW j \in Slots, StopTakesRun(j)
    PROVE  Moved(jobs, jobs', j,
                 "stopping", held, jobs[j].text, jobs[j].mode)
<1> DEFINE f == [jobs EXCEPT ![j].pc = "stopping"]
<1>1. jobs \in Table /\ "stopping" \in Pcs
  BY DEF TypeInv, BackendTypeOK, Table, Pcs
<1>2. held \in AnyRun
  BY DEF TypeInv, BackendTypeOK, AnyRun
<1>3. Moved(jobs, f, j,
          "stopping", jobs[j].run, jobs[j].text, jobs[j].mode)
  BY <1>1, SetPc
<1>4. f \in Table /\ f[j].pc = "stopping" /\ f[j].run = jobs[j].run
      /\ f[j].text = jobs[j].text /\ f[j].mode = jobs[j].mode
  BY <1>3 DEF Moved
<1>5. jobs' = [f EXCEPT ![j].run = held]
  BY <1>1 DEF StopTakesRun, Table
<1> HIDE DEF f
<1>6. Moved(f, jobs', j,
          f[j].pc, held, f[j].text, f[j].mode)
  BY <1>2, <1>4, <1>5, SetRun
<1>7. QED
  BY <1>3, <1>4, <1>6 DEF Moved

\* a stop past the provider: the transcript
LEMMA TranscriptArrivesMoves ==
    ASSUME TypeInv, NEW j \in Slots, TranscriptArrives(j)
    PROVE  Moved(jobs, jobs', j,
                 "reading", jobs[j].run, jobs[j].run, jobs[j].mode)
<1> DEFINE f == [jobs EXCEPT ![j].pc = "reading"]
<1>1. jobs \in Table /\ "reading" \in Pcs
  BY DEF TypeInv, BackendTypeOK, Table, Pcs
<1>2. jobs[j].run \in Texts
  BY PipelineAssumption DEF TypeInv, JobsReady, Ready, TranscriptArrives, At
<1>3. Moved(jobs, f, j,
          "reading", jobs[j].run, jobs[j].text, jobs[j].mode)
  BY <1>1, SetPc
<1>4. f \in Table /\ f[j].pc = "reading" /\ f[j].run = jobs[j].run
      /\ f[j].text = jobs[j].text /\ f[j].mode = jobs[j].mode
  BY <1>3 DEF Moved
<1>5. jobs' = [f EXCEPT ![j].text = jobs[j].run]
  BY <1>1 DEF TranscriptArrives, Table
<1> HIDE DEF f
<1>6. Moved(f, jobs', j,
          f[j].pc, f[j].run, jobs[j].run, f[j].mode)
  BY <1>2, <1>4, <1>5, SetText
<1>7. QED
  BY <1>3, <1>4, <1>6 DEF Moved

\* a stop that has read the context: the mode
LEMMA ContextReadMoves ==
    ASSUME TypeInv, NEW j \in Slots, ContextRead(j)
    PROVE  Moved(jobs, jobs', j,
                 "llm", jobs[j].run, jobs[j].text, ModeNow)
<1> DEFINE f == [jobs EXCEPT ![j].pc = "llm"]
<1>1. jobs \in Table /\ "llm" \in Pcs
  BY DEF TypeInv, BackendTypeOK, Table, Pcs
<1>2. ModeNow \in Modes
  BY DEF ModeNow, Modes
<1>3. Moved(jobs, f, j,
          "llm", jobs[j].run, jobs[j].text, jobs[j].mode)
  BY <1>1, SetPc
<1>4. f \in Table /\ f[j].pc = "llm" /\ f[j].run = jobs[j].run
      /\ f[j].text = jobs[j].text /\ f[j].mode = jobs[j].mode
  BY <1>3 DEF Moved
<1>5. jobs' = [f EXCEPT ![j].mode = ModeNow]
  BY <1>1 DEF ContextRead, Table
<1> HIDE DEF f
<1>6. Moved(f, jobs', j,
          f[j].pc, f[j].run, f[j].text, ModeNow)
  BY <1>2, <1>4, <1>5, SetMode
<1>7. QED
  BY <1>3, <1>4, <1>6 DEF Moved

\* a retry that has read the context: transcript and mode
LEMMA RetryReadsMoves ==
    ASSUME TypeInv, NEW j \in Slots, RetryReads(j)
    PROVE  \E t \in Texts, m \in Modes :
               Moved(jobs, jobs', j, "llm", jobs[j].run, t, m)
<1> DEFINE c == Unexpired(memo)
           t == c.lastText
           m == IF c.lastCard # NoCard THEN c.lastCard.mode ELSE ModeNow
           f == [jobs EXCEPT ![j].pc = "llm"]
           g == [f EXCEPT ![j].text = t]
<1>1. jobs \in Table /\ "llm" \in Pcs
  BY DEF TypeInv, BackendTypeOK, Table, Pcs
<1>2. t \in Texts /\ m \in Modes
  <2>1. c \in Contexts
    BY UnexpiredType DEF TypeInv, BackendTypeOK
  <2>2. t # NoText
    BY DEF RetryReads
  <2> HIDE DEF c
  <2> QED BY <2>1, <2>2 DEF Contexts, Cards, ModeNow, Modes
<1>3. jobs' = [g EXCEPT ![j].mode = m]
  BY <1>1 DEF RetryReads, Table
<1> HIDE DEF t, m
<1>4. Moved(jobs, f, j, "llm", jobs[j].run, jobs[j].text, jobs[j].mode)
  BY <1>1, SetPc
<1>5. f \in Table
  BY <1>4 DEF Moved
<1> HIDE DEF f
<1>6. Moved(f, g, j, f[j].pc, f[j].run, t, f[j].mode)
  BY <1>2, <1>5, SetText
<1>7. g \in Table
  BY <1>6 DEF Moved
<1> HIDE DEF g
<1>8. Moved(g, jobs', j, g[j].pc, g[j].run, g[j].text, m)
  BY <1>2, <1>3, <1>7, SetMode
<1>9. Moved(jobs, jobs', j, "llm", jobs[j].run, t, m)
  BY <1>4, <1>6, <1>8 DEF Moved
<1>10. QED
  BY <1>2, <1>9

\* get_context_status: nothing but its flags
LEMMA ContextStatusMoves ==
    ASSUME TypeInv, NEW j \in Slots, ContextStatus(j)
    PROVE  \E pc \in {"toldOk", "toldErr"} :
               Moved(jobs, jobs', j,
                     pc, jobs[j].run, jobs[j].text, jobs[j].mode)
<1> DEFINE pc == IF jobs[j].pc = "askOk" THEN "toldOk" ELSE "toldErr"
           b == StatusOf(memo')
           f == [jobs EXCEPT ![j].pc = pc]
<1>1. jobs \in Table /\ pc \in Pcs /\ pc \in {"toldOk", "toldErr"}
  BY DEF TypeInv, BackendTypeOK, Table, Pcs
<1>2. b \in Flags
  BY DEF StatusOf, Flags
<1>3. jobs' = [f EXCEPT ![j].flags = b]
  BY <1>1 DEF ContextStatus, Table
<1> HIDE DEF pc, b
<1>4. Moved(jobs, f, j, pc, jobs[j].run, jobs[j].text, jobs[j].mode)
  BY <1>1, SetPc
<1>5. f \in Table
  BY <1>4 DEF Moved
<1> HIDE DEF f
<1>6. Moved(f, jobs', j, f[j].pc, f[j].run, f[j].text, f[j].mode)
  BY <1>2, <1>3, <1>5, SetFlags
<1>7. Moved(jobs, jobs', j, pc, jobs[j].run, jobs[j].text, jobs[j].mode)
  BY <1>4, <1>6 DEF Moved
<1>8. QED
  BY <1>1, <1>7

\* The commands a client adds to the table and takes out of it
LEMMA InvokedType ==
    ASSUME NEW kind \in {"stop", "retry", "answer"}, NEW o \in Nat,
           NEW run \in AnyRun
    PROVE  /\ Invoked(kind, o, run) \in Jobs /\ FreeJob \in Jobs
           /\ Invoked(kind, o, run).kind = kind
           /\ Invoked(kind, o, run).pc = "invoked"
           /\ Invoked(kind, o, run).run = run
           /\ Invoked(kind, o, run).owner = o
           /\ FreeJob.kind = "none" /\ FreeJob.pc = "free" /\ FreeJob.run = NoRun
BY DEF Invoked, FreeJob, Jobs, Pcs, AnyRun, NoFlags, Flags

----------------------------------------------------------------------------
(* Types *)

\* The initial state is well typed.
LEMMA TypeInit == BackendInit => TypeInv
<1> SUFFICES ASSUME BackendInit PROVE TypeInv
  OBVIOUS
<1>1. FreeJob \in Jobs /\ Ready(FreeJob)
  BY DEF FreeJob, Jobs, Pcs, AnyRun, NoFlags, Flags, Ready
<1>2. NoSession \in Sessions
  BY DEF NoSession, Sessions
<1>3. BackendTypeOK
  BY <1>1, <1>2, EmptyContextType, PipelineAssumption
  DEF BackendInit, BackendTypeOK
<1>4. JobsReady
  BY <1>1 DEF BackendInit, JobsReady
<1>5. QED
  BY <1>3, <1>4 DEF TypeInv

\* A status event sent is an event.
LEMMA StatusType ==
    ASSUME NEW j \in Slots, NEW r \in AnyRun,
           NEW w \in {"transcribing", "analyzing", "ready"}
    PROVE  Status(j, r, w) \in Events
BY DEF Status, Events

\* A question appended leaves a session.
LEMMA QuestionType ==
    ASSUME NEW s \in Sessions, NEW t \in Texts
    PROVE  /\ [s EXCEPT !.questions = Append(@, t)] \in Sessions
           /\ [s EXCEPT !.questions = Append(@, t)].questions
                = Append(s.questions, t)
<1>1. Append(s.questions, t) \in Seq(Texts)
  BY AppendProperties DEF Sessions
<1>2. QED
  BY <1>1 DEF Sessions

\* A moved command that is ready where it goes keeps the table ready.
LEMMA MovedType ==
    ASSUME TypeInv, NEW j \in Slots, NEW pc, NEW run, NEW text, NEW mode,
           Moved(jobs, jobs', j, pc, run, text, mode),
           Ready(jobs'[j])
    PROVE  jobs' \in [Slots -> Jobs] /\ JobsReady'
BY DEF TypeInv, JobsReady, Moved, Table

\* The steps of a stop keep the types.
LEMMA TypeStop ==
    ASSUME TypeInv, NEW j \in Slots, StopStep(j)
    PROVE  TypeInv'
<1>0. /\ BackendTypeOK /\ jobs[j] \in Jobs /\ Ready(jobs[j])
      /\ \A pc \in Pcs : Moved(jobs, Goes(j, pc), j,
                               pc, jobs[j].run, jobs[j].text, jobs[j].mode)
  BY GoesMoves DEF TypeInv, JobsReady, BackendTypeOK
<1> USE DEF At
<1>1. CASE StopRefused(j)
  <2>1. Moved(jobs, jobs', j, "err", jobs[j].run, jobs[j].text, jobs[j].mode)
    BY <1>0, <1>1 DEF StopRefused, Fails, Pcs
  <2>2. jobs' \in [Slots -> Jobs] /\ JobsReady'
    BY <2>1, MovedType DEF Moved, Ready
  <2> QED BY <1>0, <1>1, <2>2 DEF StopRefused, Fails, TypeInv, BackendTypeOK
<1>2. CASE StopTakesRun(j)
  <2>1. held \in RunIds
    BY <1>0, <1>2 DEF StopTakesRun, BackendTypeOK
  <2>2. jobs' \in [Slots -> Jobs] /\ JobsReady'
    BY <1>2, <2>1, StopTakesRunMoves, MovedType DEF Moved, Ready
  <2>3. Status(j, held, "transcribing") \in Events
    BY <2>1, StatusType DEF AnyRun
  <2> QED
    BY <1>0, <1>2, <2>2, <2>3 DEF StopTakesRun, TypeInv, BackendTypeOK
<1>3. CASE StopJoined(j)
  <2>1. Moved(jobs, jobs', j, "stt", jobs[j].run, jobs[j].text, jobs[j].mode)
    BY <1>0, <1>3 DEF StopJoined, Pcs
  <2>2. jobs' \in [Slots -> Jobs] /\ JobsReady'
    BY <1>0, <1>3, <2>1, MovedType DEF StopJoined, Moved, Ready
  <2> QED BY <1>0, <1>3, <2>2 DEF StopJoined, TypeInv, BackendTypeOK
<1>4. CASE StopJoinFails(j)
  <2>1. Moved(jobs, jobs', j, "err", jobs[j].run, jobs[j].text, jobs[j].mode)
    BY <1>0, <1>4 DEF StopJoinFails, Fails, Pcs
  <2>2. jobs' \in [Slots -> Jobs] /\ JobsReady'
    BY <2>1, MovedType DEF Moved, Ready
  <2> QED BY <1>0, <1>4, <2>2 DEF StopJoinFails, Fails, TypeInv, BackendTypeOK
<1>5. CASE TranscriptArrives(j)
  <2>1. jobs[j].run \in RunIds /\ jobs[j].run \in Texts
    BY <1>0, <1>5, PipelineAssumption DEF TranscriptArrives, Ready
  <2>2. jobs' \in [Slots -> Jobs] /\ JobsReady'
    BY <1>5, <2>1, TranscriptArrivesMoves, MovedType DEF Moved, Ready
  <2>3. Status(j, jobs[j].run, "analyzing") \in Events
    BY <2>1, StatusType DEF AnyRun
  <2>4. memo' \in Contexts
    BY <1>0, <1>5, <2>1, RememberedType DEF TranscriptArrives, BackendTypeOK
  <2> QED
    BY <1>0, <1>5, <2>2, <2>3, <2>4
    DEF TranscriptArrives, TypeInv, BackendTypeOK, captureVars
<1>6. CASE ContextRead(j)
  <2>1. jobs[j].text = jobs[j].run /\ jobs[j].run \in Texts /\ ModeNow \in Modes
    BY <1>0, <1>6, PipelineAssumption DEF ContextRead, Ready, ModeNow, Modes
  <2>2. jobs[j].run \in RunIds
    BY <2>1, PipelineAssumption
  <2>3. jobs' \in [Slots -> Jobs] /\ JobsReady'
    BY <1>6, <2>1, <2>2, ContextReadMoves, MovedType DEF Moved, Ready
  <2>4. memo' \in Contexts
    BY <1>0, <1>6, UnexpiredType DEF ContextRead, BackendTypeOK
  <2> QED
    BY <1>0, <1>6, <2>3, <2>4 DEF ContextRead, TypeInv, BackendTypeOK, captureVars
<1>7. CASE PipelineFails(j)
  <2>1. Moved(jobs, jobs', j, "err", jobs[j].run, jobs[j].text, jobs[j].mode)
    BY <1>0, <1>7 DEF PipelineFails, Fails, Pcs
  <2>2. jobs' \in [Slots -> Jobs] /\ JobsReady'
    BY <2>1, MovedType DEF Moved, Ready
  <2> QED BY <1>0, <1>7, <2>2 DEF PipelineFails, Fails, TypeInv, BackendTypeOK
<1>8. CASE CardCommitted(j)
  <2>1. Moved(jobs, jobs', j,
              "recording", jobs[j].run, jobs[j].text, jobs[j].mode)
    BY <1>0, <1>8 DEF CardCommitted, Pcs
  <2>2. jobs' \in [Slots -> Jobs] /\ JobsReady'
    BY <1>0, <1>8, <2>1, MovedType DEF CardCommitted, Moved, Ready
  <2>3. CardOf(j) \in Cards /\ jobs[j].text \in Texts
    BY <1>0, <1>8 DEF CardCommitted, Ready, CardOf, Cards
  <2>4. Committed(memo, jobs[j].text) \in Contexts
    BY <1>0, <2>3, CommittedType DEF BackendTypeOK
  <2>5. memo' \in Contexts
    BY <1>8, <2>3, <2>4, WithCardType DEF CardCommitted
  <2> QED
    BY <1>0, <1>8, <2>2, <2>5 DEF CardCommitted, TypeInv, BackendTypeOK, captureVars
<1>9. CASE CardReturned(j)
  <2>1. Moved(jobs, jobs', j, "ok", jobs[j].run, jobs[j].text, jobs[j].mode)
    BY <1>0, <1>9 DEF CardReturned, Pcs
  <2>2. jobs' \in [Slots -> Jobs] /\ JobsReady'
    BY <2>1, MovedType DEF Moved, Ready
  <2>3. jobs[j].run \in AnyRun /\ jobs[j].text \in Texts
    BY <1>0, <1>9, PipelineAssumption DEF CardReturned, Ready, AnyRun
  <2>4. Status(j, jobs[j].run, "ready") \in Events
    BY <2>3, StatusType
  <2>5. session' \in Sessions
    BY <1>0, <1>9, <2>3, QuestionType DEF CardReturned, BackendTypeOK
  <2> QED
    BY <1>0, <1>9, <2>2, <2>4, <2>5
    DEF CardReturned, TypeInv, BackendTypeOK, captureVars
<1>10. QED
  BY <1>1, <1>2, <1>3, <1>4, <1>5, <1>6, <1>7, <1>8, <1>9 DEF StopStep

\* The steps of a retry, of a bilingual answer and of get_context_status
\* keep the types.
LEMMA TypeRetry ==
    ASSUME TypeInv, NEW j \in Slots, RetryStep(j)
    PROVE  TypeInv'
<1>0. /\ BackendTypeOK /\ jobs[j] \in Jobs /\ Ready(jobs[j])
      /\ \A pc \in Pcs : Moved(jobs, Goes(j, pc), j,
                               pc, jobs[j].run, jobs[j].text, jobs[j].mode)
  BY GoesMoves DEF TypeInv, JobsReady, BackendTypeOK
<1>a. jobs[j].run \in AnyRun
  BY <1>0 DEF Jobs
<1> USE DEF At
<1>1. CASE RetryFails(j)
  <2>1. Moved(jobs, jobs', j, "err", jobs[j].run, jobs[j].text, jobs[j].mode)
    BY <1>0, <1>1 DEF RetryFails, Fails, Pcs
  <2>2. jobs' \in [Slots -> Jobs] /\ JobsReady'
    BY <2>1, MovedType DEF Moved, Ready
  <2>3. memo' \in Contexts
    BY <1>0, <1>1, UnexpiredType DEF RetryFails, BackendTypeOK
  <2> QED
    BY <1>0, <1>1, <2>2, <2>3 DEF RetryFails, Fails, TypeInv, BackendTypeOK
<1>2. CASE RetryReads(j)
  <2>1. PICK t \in Texts, m \in Modes :
            Moved(jobs, jobs', j, "llm", jobs[j].run, t, m)
    BY <1>2, RetryReadsMoves
  <2>2. jobs' \in [Slots -> Jobs] /\ JobsReady'
    BY <1>2, <2>1, MovedType DEF RetryReads, Moved, Ready
  <2>3. Status(j, jobs[j].run, "analyzing") \in Events
    BY <1>a, StatusType
  <2>4. memo' \in Contexts
    BY <1>0, <1>2, UnexpiredType DEF RetryReads, BackendTypeOK
  <2>5. events' = Append(events, Status(j, jobs[j].run, "analyzing"))
        /\ UNCHANGED <<captureVars, session, replies>>
    BY <1>2 DEF RetryReads
  <2> QED
    BY <1>0, <2>2, <2>3, <2>4, <2>5
    DEF TypeInv, BackendTypeOK, captureVars
<1>3. CASE RetryReturns(j)
  <2>1. Moved(jobs, jobs', j, "ok", jobs[j].run, jobs[j].text, jobs[j].mode)
    BY <1>0, <1>3 DEF RetryReturns, Pcs
  <2>2. jobs' \in [Slots -> Jobs] /\ JobsReady'
    BY <2>1, MovedType DEF Moved, Ready
  <2>3. Status(j, jobs[j].run, "ready") \in Events
    BY <1>a, StatusType
  <2>4. CardOf(j) \in Cards
    BY <1>0, <1>3 DEF RetryReturns, Ready, CardOf, Cards
  <2>5. memo' \in Contexts
    BY <1>0, <1>3, <2>4, WithCardType DEF RetryReturns, BackendTypeOK
  <2> QED
    BY <1>0, <1>3, <2>2, <2>3, <2>5
    DEF RetryReturns, TypeInv, BackendTypeOK, captureVars
<1>4. QED
  BY <1>1, <1>2, <1>3 DEF RetryStep

\* A bilingual answer keeps the types.
LEMMA TypeAnswer ==
    ASSUME TypeInv, NEW j \in Slots, AnswerReturns(j)
    PROVE  TypeInv'
<1>1. BackendTypeOK
  BY DEF TypeInv
<1>2. Moved(jobs, jobs', j, "ok", jobs[j].run, jobs[j].text, jobs[j].mode)
  BY <1>1, GoesMoves DEF AnswerReturns, Pcs
<1>3. jobs' \in [Slots -> Jobs] /\ JobsReady'
  BY <1>2, MovedType DEF Moved, Ready
<1>4. QED
  BY <1>1, <1>3 DEF AnswerReturns, TypeInv, BackendTypeOK, captureVars

\* get_context_status keeps the types.
LEMMA TypeContextStatus ==
    ASSUME TypeInv, NEW j \in Slots, ContextStatus(j)
    PROVE  TypeInv'
<1>1. BackendTypeOK
  BY DEF TypeInv
<1>2. PICK pc \in {"toldOk", "toldErr"} :
          Moved(jobs, jobs', j, pc, jobs[j].run, jobs[j].text, jobs[j].mode)
  BY ContextStatusMoves
<1>3. jobs' \in [Slots -> Jobs] /\ JobsReady'
  BY <1>2, MovedType DEF Moved, Ready
<1>4. memo' \in Contexts
  BY <1>1, UnexpiredType DEF ContextStatus, BackendTypeOK
<1>5. UNCHANGED <<captureVars, session, events, replies>>
  BY DEF ContextStatus
<1>6. QED
  BY <1>1, <1>3, <1>4, <1>5 DEF TypeInv, BackendTypeOK, captureVars

\* The tray, the clock, the recorder threads and the interview commands keep
\* the types.
LEMMA TypeEnvironment ==
    ASSUME TypeInv, Environment
    PROVE  TypeInv'
<1>0. BackendTypeOK /\ JobsReady
  BY DEF TypeInv
<1>1. ASSUME NEW r \in RunIds, RecorderEnds(r) PROVE TypeInv'
  BY <1>0, <1>1 DEF RecorderEnds, TypeInv, BackendTypeOK, JobsReady
<1>2. CASE TrayClear
  <2>1. ClearedEvent \in Events
    BY DEF ClearedEvent, Events, AnyRun
  <2> QED
    BY <1>0, <1>2, <2>1, EmptyContextType
    DEF TrayClear, Cleared, TypeInv, BackendTypeOK, JobsReady, captureVars
<1>3. CASE TtlPasses
  <2>1. memo' \in Contexts
    BY <1>0, <1>3, AgedType DEF TtlPasses, BackendTypeOK
  <2> QED
    BY <1>0, <1>3, <2>1
    DEF TtlPasses, TypeInv, BackendTypeOK, JobsReady, captureVars
<1>4. CASE StartInterview
  <2>1. session' \in Sessions
    BY <1>4 DEF StartInterview, Sessions
  <2> QED
    BY <1>0, <1>4, <2>1
    DEF StartInterview, TypeInv, BackendTypeOK, JobsReady, captureVars
<1>5. CASE EndInterview
  <2>1. session' \in Sessions
    BY <1>5 DEF EndInterview, NoSession, Sessions
  <2> QED
    BY <1>0, <1>5, <2>1
    DEF EndInterview, TypeInv, BackendTypeOK, JobsReady, captureVars
<1>6. QED
  BY <1>1, <1>2, <1>3, <1>4, <1>5 DEF Environment

\* capture_start keeps the types.
LEMMA TypeCaptureStart ==
    ASSUME TypeInv, NEW o \in Nat, CaptureStart(o)
    PROVE  TypeInv'
<1>0. BackendTypeOK /\ JobsReady
  BY DEF TypeInv
<1>1. \A r \in RunIds \cup {NoRun} : StartReply(o, r) \in Replies
  BY DEF StartReply, Replies
<1>2. CASE CaptureStartOk(o)
  <2>1. runSeq' \in RunIds /\ runSeq' \in 0..MaxRuns
    BY <1>0, <1>2, PipelineAssumption DEF CaptureStartOk, BackendTypeOK, RunIds
  <2>2. QED
    BY <1>0, <1>1, <1>2, <2>1
    DEF CaptureStartOk, TypeInv, BackendTypeOK, JobsReady
<1>3. CASE CaptureStartAgain(o)
  BY <1>0, <1>1, <1>3
  DEF CaptureStartAgain, TypeInv, BackendTypeOK, JobsReady, captureVars
<1>4. CASE CaptureStartFails(o)
  BY <1>0, <1>1, <1>4
  DEF CaptureStartFails, TypeInv, BackendTypeOK, JobsReady, captureVars
<1>5. QED
  BY <1>2, <1>3, <1>4 DEF CaptureStart

\* A call puts an invoked command into the table and changes nothing else there.
LEMMA CallsMoves ==
    ASSUME BackendTypeOK, NEW kind \in {"stop", "retry", "answer"},
           NEW o \in Nat, NEW run \in AnyRun, Calls(kind, o, run)
    PROVE  /\ \E j \in Slots :
                 /\ jobs' \in Table
                 /\ \A i \in Slots \ {j} : jobs'[i] = jobs[i]
                 /\ jobs[j].pc = "free"
                 /\ jobs'[j].kind = kind /\ jobs'[j].pc = "invoked"
                 /\ jobs'[j].run = run /\ jobs'[j].owner = o
           /\ replies' \subseteq replies
           /\ UNCHANGED <<captureVars, memo, session, events>>
<1>1. PICK j \in Slots :
          /\ IsNextSlot(j)
          /\ jobs' = [jobs EXCEPT ![j] = Invoked(kind, o, run)]
          /\ replies' \in {replies} \cup {replies \ {m} : m \in replies}
          /\ UNCHANGED <<captureVars, memo, session, events>>
  BY DEF Calls
<1> DEFINE new == Invoked(kind, o, run)
<1>2. /\ new \in Jobs /\ new.kind = kind /\ new.pc = "invoked"
      /\ new.run = run /\ new.owner = o
  BY InvokedType
<1>3. jobs[j].pc = "free"
  BY <1>1 DEF IsNextSlot
<1> HIDE DEF new
<1>4. jobs' = [jobs EXCEPT ![j] = new]
  BY <1>1 DEF new
<1>5. QED
  BY <1>1, <1>2, <1>3, <1>4 DEF BackendTypeOK, Table

\* A handled result moves its command or frees it.
LEMMA TakesResultMoves ==
    ASSUME BackendTypeOK, NEW j \in Slots, ClientTakesResult(j)
    PROVE  /\ jobs' \in Table
           /\ \A i \in Slots \ {j} : jobs'[i] = jobs[i]
           /\ jobs[j].pc \in {"ok", "err", "toldOk", "toldErr"}
           /\ \/ jobs'[j] = FreeJob
              \/ /\ jobs'[j].pc \in {"askOk", "askErr"}
                 /\ jobs'[j].kind = jobs[j].kind
                 /\ jobs'[j].run = jobs[j].run
                 /\ jobs'[j].owner = jobs[j].owner
           /\ UNCHANGED <<captureVars, memo, session, events, replies>>
<1>1. CASE jobs' = [jobs EXCEPT ![j] = FreeJob]
  <2>1. FreeJob \in Jobs
    BY DEF FreeJob, Jobs, Pcs, AnyRun, NoFlags, Flags
  <2> QED BY <1>1, <2>1 DEF ClientTakesResult, BackendTypeOK, Table
<1>2. CASE jobs' = Goes(j, "askOk")
  <2>1. Moved(jobs, jobs', j,
              "askOk", jobs[j].run, jobs[j].text, jobs[j].mode)
    BY <1>2, GoesMoves DEF Pcs
  <2> QED BY <2>1 DEF ClientTakesResult, Moved
<1>3. CASE jobs' = Goes(j, "askErr")
  <2>1. Moved(jobs, jobs', j,
              "askErr", jobs[j].run, jobs[j].text, jobs[j].mode)
    BY <1>3, GoesMoves DEF Pcs
  <2> QED BY <2>1 DEF ClientTakesResult, Moved
<1>4. QED
  BY <1>1, <1>2, <1>3 DEF ClientTakesResult

\* The kinds of calls a client makes
LEMMA CallsOfClient ==
    ASSUME ClientCalls
    PROVE  \/ \E o \in Nat : CaptureStart(o)
           \/ \E kind \in {"stop", "retry", "answer"}, o \in Nat, run \in AnyRun :
                  /\ Calls(kind, o, run)
                  /\ run \notin RunIds
                  /\ kind = "retry" => run \in RetryIds
           \/ ClearContext
<1>1. ASSUME NEW o \in Owners, CaptureStart(o)
      PROVE  \E n \in Nat : CaptureStart(n)
  BY <1>1, ClientAssumption
<1>2. ASSUME NEW k \in {"stop", "answer"} \cap Kinds, NEW o \in Owners,
             Calls(k, o, NoRun)
      PROVE  \E kind \in {"stop", "retry", "answer"}, n \in Nat, run \in AnyRun :
                 /\ Calls(kind, n, run) /\ run \notin RunIds
                 /\ kind = "retry" => run \in RetryIds
  <2>1. NoRun \in AnyRun /\ NoRun \notin RunIds /\ o \in Nat
    BY ClientAssumption DEF AnyRun, NoRun, RunIds
  <2> QED BY <1>2, <2>1
<1>3. ASSUME NEW k \in {"retry"} \cap Kinds, NEW r \in RetryIds, Calls(k, 0, r)
      PROVE  \E kind \in {"stop", "retry", "answer"}, n \in Nat, run \in AnyRun :
                 /\ Calls(kind, n, run) /\ run \notin RunIds
                 /\ kind = "retry" => run \in RetryIds
  <2>1. r \in AnyRun /\ r \notin RunIds
    BY PipelineAssumption DEF AnyRun, RunIds
  <2> QED BY <1>3, <2>1
<1>4. QED
  BY <1>1, <1>2, <1>3, Zenon DEF ClientCalls

\* Whatever a client does keeps the types.
LEMMA TypeClient ==
    ASSUME TypeInv, ClientStep
    PROVE  TypeInv'
<1>0. BackendTypeOK /\ JobsReady
  BY DEF TypeInv
<1>1. CASE ClientCalls
  <2>1. CASE \E o \in Nat : CaptureStart(o)
    BY <2>1, TypeCaptureStart
  <2>2. ASSUME NEW kind \in {"stop", "retry", "answer"}, NEW o \in Nat,
               NEW run \in AnyRun, Calls(kind, o, run)
        PROVE  TypeInv'
    <3>1. PICK j \in Slots :
              /\ jobs' \in Table
              /\ \A i \in Slots \ {j} : jobs'[i] = jobs[i]
              /\ jobs'[j].pc = "invoked"
      BY <1>0, <2>2, CallsMoves
    <3>2. /\ replies' \subseteq replies
          /\ UNCHANGED <<captureVars, memo, session, events>>
      BY <1>0, <2>2, CallsMoves
    <3>3. JobsReady'
      BY <1>0, <3>1 DEF JobsReady, Ready
    <3> QED
      BY <1>0, <3>1, <3>2, <3>3 DEF TypeInv, BackendTypeOK, Table, captureVars
  <2>3. CASE ClearContext
    <3>1. ClearReply \in Replies
      BY DEF ClearReply, Replies
    <3> QED
      BY <1>0, <2>3, <3>1, EmptyContextType
      DEF ClearContext, Cleared, TypeInv, BackendTypeOK, JobsReady, captureVars
  <2> QED BY <1>1, <2>1, <2>2, <2>3, CallsOfClient
<1>2. CASE ClientReloads
  <2>1. memo' \in Contexts
    BY <1>0, <1>2, UnexpiredType DEF ClientReloads, BackendTypeOK
  <2> QED
    BY <1>0, <1>2, <2>1
    DEF ClientReloads, TypeInv, BackendTypeOK, JobsReady, captureVars
<1>3. ASSUME NEW j \in Slots, ClientTakesResult(j) PROVE TypeInv'
  <2>1. /\ jobs' \in Table
        /\ \A i \in Slots \ {j} : jobs'[i] = jobs[i]
        /\ jobs'[j] = FreeJob \/ jobs'[j].pc \in {"askOk", "askErr"}
        /\ UNCHANGED <<captureVars, memo, session, events, replies>>
    BY <1>0, <1>3, TakesResultMoves
  <2>2. JobsReady'
    BY <1>0, <2>1 DEF JobsReady, Ready, FreeJob
  <2> QED
    BY <1>0, <2>1, <2>2 DEF TypeInv, BackendTypeOK, Table, captureVars
<1>4. CASE ClientTakesReply
  BY <1>0, <1>4
  DEF ClientTakesReply, TypeInv, BackendTypeOK, JobsReady, captureVars
<1>5. CASE ClientTakesEvent
  BY <1>0, <1>5, HeadTailProperties
  DEF ClientTakesEvent, TypeInv, BackendTypeOK, JobsReady, captureVars
<1>6. QED
  BY <1>1, <1>2, <1>3, <1>4, <1>5 DEF ClientStep

\* Every step keeps the types.
LEMMA TypeStep == TypeInv /\ [ClientNext]_backendVars => TypeInv'
<1> SUFFICES ASSUME TypeInv, [ClientNext]_backendVars PROVE TypeInv'
  OBVIOUS
<1>1. CASE UNCHANGED backendVars
  BY <1>1 DEF backendVars, captureVars, TypeInv, BackendTypeOK, JobsReady
<1>2. CASE Environment
  BY <1>2, TypeEnvironment
<1>3. ASSUME NEW j \in Slots, JobStep(j) PROVE TypeInv'
  BY <1>3, TypeStop, TypeRetry, TypeAnswer, TypeContextStatus DEF JobStep
<1>4. CASE ClientStep
  BY <1>4, TypeClient
<1>5. QED
  BY <1>1, <1>2, <1>3, <1>4 DEF ClientNext, BackendStep

\* Under any client the state of the backend keeps its types, and every
\* command has what the code unwraps where it is.
THEOREM TypeCorrect == ClientSpec => [](BackendTypeOK /\ JobsReady)
BY TypeInit, TypeStep, PTL DEF ClientSpec, TypeInv

----------------------------------------------------------------------------
(* Ownership of runs, and what is committed *)

\* Only command j changes, and it either has no run afterwards or is no nearer
\* to its commit than before.
Advances(j) ==
    /\ \A i \in Slots \ {j} : jobs'[i] = jobs[i]
    /\ \/ jobs'[j].run \notin RunIds
       \/ /\ jobs'[j].run = jobs[j].run /\ jobs'[j].kind = jobs[j].kind
          /\ jobs[j].kind = "stop" =>
               /\ jobs'[j].pc \in BeforeCommit => jobs[j].pc \in BeforeCommit
               /\ jobs'[j].pc \in BeforeReturn => jobs[j].pc \in BeforeReturn

\* The recording that was joined with command j is over; all others go on.
Joins(j) ==
    \/ recording' = recording \ {jobs[j].run}
    \/ recording' = recording /\ ~At(j, "stop", {"stopping"})

\* The sequences of a cleared context, an ended session or an unchanged one
EmptiedOrSame ==
    /\ memo'.entries \in {memo.entries, <<>>}
    /\ session'.questions \in {session.questions, <<>>}

\* The window and the report are sequences of run ids.
LEMMA EntriesType ==
    ASSUME TypeInv
    PROVE  /\ memo.entries \in Seq(Texts) /\ Range(memo.entries) \subseteq RunIds
           /\ session.questions \in Seq(Texts)
           /\ Range(session.questions) \subseteq RunIds
           /\ IsInjective(<<>>) /\ Range(<<>>) = {}
<1>1. memo.entries \in Seq(Texts) /\ session.questions \in Seq(Texts)
  BY DEF TypeInv, BackendTypeOK, Contexts, Sessions
<1>2. \A s \in Seq(Texts) : Range(s) \subseteq RunIds
  BY PipelineAssumption DEF Range
<1>3. IsInjective(<<>>) /\ Range(<<>>) = {}
  BY DEF IsInjective, Range
<1>4. QED
  BY <1>1, <1>2, <1>3

\* A command that goes on with its run, and does not come to the join, keeps
\* the owners.
LEMMA AdvanceKeepsOwner ==
    ASSUME TypeInv, OwnerInv, NEW j \in Slots, Advances(j), Joins(j),
           UNCHANGED <<held, runSeq>>
    PROVE  OwnerInv'
<1>1. RunsStarted'
  BY DEF OwnerInv, RunsStarted, Advances
<1>2. RunTakenOnce'
  BY DEF OwnerInv, RunTakenOnce, Advances
<1>3. RecordingHasOwner'
  <2> SUFFICES ASSUME NEW r \in recording', r # held
               PROVE  r \in Taken({"stopping"})'
    BY DEF RecordingHasOwner
  <2>1. r \in recording
    BY DEF Joins
  <2>2. PICK i \in Slots : At(i, "stop", {"stopping"}) /\ jobs[i].run = r
    BY <2>1 DEF OwnerInv, RecordingHasOwner, Taken, At
  <2>3. i # j
    BY <2>2 DEF Joins
  <2>4. jobs'[i] = jobs[i]
    BY <2>3 DEF Advances
  <2> QED BY <2>2, <2>4 DEF Taken, At
<1>4. QED
  BY <1>1, <1>2, <1>3 DEF OwnerInv

\* It also keeps what a sequence holds, when it does not go back before the pcs,
LEMMA AdvanceKeepsPast ==
    ASSUME TypeInv, NEW s, Range(s) \subseteq RunIds, NEW j \in Slots, Advances(j),
           NEW pcs \in {BeforeCommit, BeforeReturn}, HoldsPast(s, pcs),
           UNCHANGED <<held, runSeq>>
    PROVE  /\ \A t \in Range(s) : t <= runSeq' /\ t # held'
           /\ \A i \in Slots : At(i, "stop", pcs)' => jobs'[i].run \notin Range(s)
BY DEF HoldsPast, Advances, At

\* and so the window and the report.
LEMMA AdvanceKeepsCommit ==
    ASSUME TypeInv, CommitInv, NEW j \in Slots, Advances(j), EmptiedOrSame,
           UNCHANGED <<held, runSeq>>
    PROVE  CommitInv'
<1>1. HoldsPast(memo.entries, BeforeCommit)'
  <2>1. CASE memo'.entries = memo.entries
    <3>1. Range(memo.entries) \subseteq RunIds
      BY EntriesType
    <3>2. /\ \A t \in Range(memo.entries) : t <= runSeq' /\ t # held'
          /\ \A i \in Slots : At(i, "stop", BeforeCommit)'
                                => jobs'[i].run \notin Range(memo.entries)
      BY <3>1, AdvanceKeepsPast DEF CommitInv
    <3> QED BY <2>1, <3>2 DEF HoldsPast
  <2>2. CASE memo'.entries = <<>>
    BY <2>2, EntriesType DEF HoldsPast
  <2> QED BY <2>1, <2>2 DEF EmptiedOrSame
<1>2. HoldsPast(session.questions, BeforeReturn)'
  <2>1. CASE session'.questions = session.questions
    <3>1. Range(session.questions) \subseteq RunIds
      BY EntriesType
    <3>2. /\ \A t \in Range(session.questions) : t <= runSeq' /\ t # held'
          /\ \A i \in Slots : At(i, "stop", BeforeReturn)'
                                => jobs'[i].run \notin Range(session.questions)
      BY <3>1, AdvanceKeepsPast DEF CommitInv
    <3> QED BY <2>1, <3>2 DEF HoldsPast
  <2>2. CASE session'.questions = <<>>
    BY <2>2, EntriesType DEF HoldsPast
  <2> QED BY <2>1, <2>2 DEF EmptiedOrSame
<1>3. CommittedOnce'
  BY EntriesType DEF CommitInv, CommittedOnce, EmptiedOrSame
<1>4. QED
  BY <1>1, <1>2, <1>3 DEF CommitInv

\* A step that changes no command keeps both.
LEMMA JobsSameKeeps ==
    ASSUME TypeInv, OwnerInv, CommitInv, jobs' = jobs, EmptiedOrSame,
           UNCHANGED <<held, runSeq>>, recording' \subseteq recording
    PROVE  OwnerInv' /\ CommitInv'
<1>1. OwnerInv'
  BY DEF OwnerInv, RunsStarted, RecordingHasOwner, RunTakenOnce, Taken
<1>2. IsInjective(<<>>) /\ Range(<<>>) = {}
  BY EntriesType
<1>3. HoldsPast(memo.entries, BeforeCommit)'
  BY <1>2 DEF CommitInv, HoldsPast, EmptiedOrSame, At
<1>4. HoldsPast(session.questions, BeforeReturn)'
  BY <1>2 DEF CommitInv, HoldsPast, EmptiedOrSame, At
<1>5. CommittedOnce'
  BY <1>2 DEF CommitInv, CommittedOnce, EmptiedOrSame
<1>6. QED
  BY <1>1, <1>3, <1>4, <1>5 DEF CommitInv

\* Initially nothing is owned and nothing committed.
LEMMA OwnedInit == BackendInit => OwnerInv /\ CommitInv
<1> SUFFICES ASSUME BackendInit PROVE OwnerInv /\ CommitInv
  OBVIOUS
<1>1. \A j \in Slots : jobs[j].kind = "none" /\ jobs[j].run = NoRun
  BY DEF BackendInit, FreeJob
<1>2. NoRun \notin RunIds
  BY DEF NoRun, RunIds
<1>3. OwnerInv
  BY <1>1, <1>2
  DEF BackendInit, OwnerInv, RunsStarted, RecordingHasOwner, RunTakenOnce, NoRun
<1>4. IsInjective(<<>>) /\ Range(<<>>) = {}
  BY DEF IsInjective, Range
<1>5. memo.entries = <<>> /\ session.questions = <<>>
  BY DEF BackendInit, EmptyContext, NoSession
<1>6. CommitInv
  BY <1>1, <1>4, <1>5 DEF CommitInv, HoldsPast, CommittedOnce, At
<1>7. QED
  BY <1>3, <1>6

\* The command that takes the held run becomes its only owner.
LEMMA OwnedTake ==
    ASSUME TypeInv, OwnerInv, CommitInv, NEW j \in Slots, StopTakesRun(j)
    PROVE  OwnerInv' /\ CommitInv'
<1>1. /\ held \in RunIds /\ held' = NoRun /\ NoRun \notin RunIds
      /\ UNCHANGED <<recording, runSeq, memo, session>>
  BY DEF StopTakesRun, TypeInv, BackendTypeOK, RunIds, NoRun
<1>2. /\ \A i \in Slots \ {j} : jobs'[i] = jobs[i]
      /\ jobs[j].kind = "stop" /\ jobs[j].pc = "invoked"
      /\ jobs'[j].kind = "stop" /\ jobs'[j].pc = "stopping"
      /\ jobs'[j].run = held
  BY StopTakesRunMoves DEF Moved, StopTakesRun, At
<1>3. RunsStarted'
  <2>1. runSeq \in Nat
    BY PipelineAssumption DEF TypeInv, BackendTypeOK
  <2> QED BY <1>1, <1>2, <2>1 DEF OwnerInv, RunsStarted, NoRun
<1>4. RunTakenOnce'
  BY <1>1, <1>2 DEF OwnerInv, RunTakenOnce
<1>5. RecordingHasOwner'
  <2> SUFFICES ASSUME NEW r \in recording PROVE r \in Taken({"stopping"})'
    BY <1>1 DEF RecordingHasOwner
  <2>1. CASE r = held
    BY <1>2, <2>1 DEF Taken
  <2>2. CASE r # held
    <3>1. PICK i \in Slots : At(i, "stop", {"stopping"}) /\ jobs[i].run = r
      BY <2>2 DEF OwnerInv, RecordingHasOwner, Taken, At
    <3>2. jobs'[i] = jobs[i]
      BY <1>2, <3>1 DEF At
    <3> QED BY <3>1, <3>2 DEF Taken, At
  <2> QED BY <2>1, <2>2
<1>6. \A pcs \in {BeforeCommit, BeforeReturn}, s \in {memo.entries, session.questions} :
          HoldsPast(s, pcs) => /\ \A t \in Range(s) : t <= runSeq' /\ t # held'
                               /\ \A i \in Slots : At(i, "stop", pcs)'
                                     => jobs'[i].run \notin Range(s)
  <2>1. NoRun \notin Range(memo.entries) /\ NoRun \notin Range(session.questions)
    BY <1>1, EntriesType
  <2> QED BY <1>1, <1>2, <2>1 DEF HoldsPast, At
<1>7. CommitInv'
  BY <1>1, <1>6 DEF CommitInv, HoldsPast, CommittedOnce
<1>8. QED
  BY <1>3, <1>4, <1>5, <1>7 DEF OwnerInv

\* The transcript of a run enters the context when its command commits it, and
\* it was in no window before.
LEMMA OwnedCommit ==
    ASSUME TypeInv, OwnerInv, CommitInv, NEW j \in Slots, CardCommitted(j)
    PROVE  OwnerInv' /\ CommitInv'
<1> DEFINE t == jobs[j].run
           old == memo.entries
           new == memo'.entries
<1>1. /\ UNCHANGED <<held, runSeq, recording, session>>
      /\ At(j, "stop", {"llm"})
  BY DEF CardCommitted, captureVars
<1>2. /\ \A i \in Slots \ {j} : jobs'[i] = jobs[i]
      /\ jobs'[j].kind = jobs[j].kind /\ jobs'[j].pc = "recording"
      /\ jobs'[j].run = jobs[j].run
  BY GoesMoves DEF CardCommitted, TypeInv, Moved, Pcs
<1>3. Advances(j) /\ Joins(j)
  BY <1>1, <1>2 DEF Advances, Joins, At, BeforeCommit, BeforeReturn
<1>4. OwnerInv'
  BY <1>1, <1>3, AdvanceKeepsOwner
<1>5. /\ t \in RunIds /\ t \in Texts /\ jobs[j].text = t
      /\ CardOf(j) \in Cards /\ memo \in Contexts
  BY <1>1, PipelineAssumption
  DEF TypeInv, BackendTypeOK, JobsReady, Ready, At, CardOf, Cards
<1>6. t \notin Range(old) /\ IsInjective(old) /\ Range(old) \subseteq RunIds
  BY <1>1, EntriesType DEF CommitInv, HoldsPast, BeforeCommit, CommittedOnce, At
<1>7. new = Committed(memo, t).entries
  <2>1. Committed(memo, t) \in Contexts
    BY <1>5, CommittedType
  <2>2. memo' = WithCard(Committed(memo, t), CardOf(j))
    BY <1>5 DEF CardCommitted
  <2> QED BY <1>5, <2>1, <2>2, WithCardType
<1>8. IsInjective(new) /\ Range(new) \subseteq Range(old) \cup {t}
  BY <1>5, <1>6, <1>7, CommittedInjective
<1>9. HoldsPast(memo.entries, BeforeCommit)'
  <2>1. /\ \A u \in Range(old) : u <= runSeq /\ u # held
        /\ \A i \in Slots : At(i, "stop", BeforeCommit)'
                              => jobs'[i].run \notin Range(old)
    BY <1>1, <1>3, <1>6, AdvanceKeepsPast DEF CommitInv
  <2>2. t <= runSeq /\ t # held /\ \A i \in Slots \ {j} : jobs[i].run # t
    BY <1>5 DEF OwnerInv, RunsStarted, RunTakenOnce
  <2>3. ~At(j, "stop", BeforeCommit)'
    BY <1>2 DEF At, BeforeCommit
  <2> QED BY <1>1, <1>2, <1>8, <2>1, <2>2, <2>3 DEF HoldsPast
<1>10. HoldsPast(session.questions, BeforeReturn)'
  <2>1. Range(session.questions) \subseteq RunIds
    BY EntriesType
  <2> QED BY <1>1, <1>3, <2>1, AdvanceKeepsPast DEF CommitInv, HoldsPast
<1>11. CommittedOnce'
  BY <1>1, <1>8 DEF CommitInv, CommittedOnce
<1>12. QED
  BY <1>4, <1>9, <1>10, <1>11 DEF CommitInv

\* The question enters the report when the command returns, and was not there.
LEMMA OwnedReturn ==
    ASSUME TypeInv, OwnerInv, CommitInv, NEW j \in Slots, CardReturned(j)
    PROVE  OwnerInv' /\ CommitInv'
<1> DEFINE t == jobs[j].run
           old == session.questions
           new == session'.questions
<1>1. /\ UNCHANGED <<held, runSeq, recording, memo>>
      /\ At(j, "stop", {"recording"})
  BY DEF CardReturned, captureVars
<1>2. /\ \A i \in Slots \ {j} : jobs'[i] = jobs[i]
      /\ jobs'[j].kind = jobs[j].kind /\ jobs'[j].pc = "ok"
      /\ jobs'[j].run = jobs[j].run
  BY GoesMoves DEF CardReturned, TypeInv, Moved, Pcs
<1>3. Advances(j) /\ Joins(j)
  BY <1>1, <1>2 DEF Advances, Joins, At, BeforeCommit, BeforeReturn
<1>4. OwnerInv'
  BY <1>1, <1>3, AdvanceKeepsOwner
<1>5. /\ t \in RunIds /\ t \in Texts /\ jobs[j].text = t
      /\ session \in Sessions /\ old \in Seq(Texts)
  BY <1>1, PipelineAssumption
  DEF TypeInv, BackendTypeOK, JobsReady, Ready, At, Sessions
<1>6. t \notin Range(old) /\ IsInjective(old) /\ Range(old) \subseteq RunIds
  BY <1>1, EntriesType DEF CommitInv, HoldsPast, BeforeReturn, CommittedOnce, At
<1>7. new = old \/ new = Append(old, t)
  BY <1>5, QuestionType DEF CardReturned
<1>8. IsInjective(new) /\ Range(new) \subseteq Range(old) \cup {t}
  <2>1. CASE new = old
    BY <1>6, <2>1
  <2>2. CASE new = Append(old, t)
    BY <1>5, <1>6, <2>2, AppendNewElement
  <2> QED BY <1>7, <2>1, <2>2
<1>9. HoldsPast(session.questions, BeforeReturn)'
  <2>1. /\ \A u \in Range(old) : u <= runSeq /\ u # held
        /\ \A i \in Slots : At(i, "stop", BeforeReturn)'
                              => jobs'[i].run \notin Range(old)
    BY <1>1, <1>3, <1>6, AdvanceKeepsPast DEF CommitInv
  <2>2. t <= runSeq /\ t # held /\ \A i \in Slots \ {j} : jobs[i].run # t
    BY <1>5 DEF OwnerInv, RunsStarted, RunTakenOnce
  <2>3. ~At(j, "stop", BeforeReturn)'
    BY <1>2 DEF At, BeforeReturn
  <2> QED BY <1>1, <1>2, <1>8, <2>1, <2>2, <2>3 DEF HoldsPast
<1>10. HoldsPast(memo.entries, BeforeCommit)'
  <2>1. Range(memo.entries) \subseteq RunIds
    BY EntriesType
  <2> QED BY <1>1, <1>3, <2>1, AdvanceKeepsPast DEF CommitInv, HoldsPast
<1>11. CommittedOnce'
  BY <1>1, <1>8 DEF CommitInv, CommittedOnce
<1>12. QED
  BY <1>4, <1>9, <1>10, <1>11 DEF CommitInv

\* An expiry check keeps the window or empties it.
LEMMA UnexpiredEntries ==
    ASSUME TypeInv
    PROVE  /\ Unexpired(memo).entries \in {memo.entries, <<>>}
           /\ EmptyContext.entries = <<>>
BY UnexpiredType DEF TypeInv, BackendTypeOK, EmptyContext

\* Any other step of a stop command
LEMMA OwnedStop ==
    ASSUME TypeInv, OwnerInv, CommitInv, NEW j \in Slots, StopStep(j)
    PROVE  OwnerInv' /\ CommitInv'
<1> SUFFICES ASSUME StopStep(j), ~StopTakesRun(j), ~CardCommitted(j),
                    ~CardReturned(j)
             PROVE  /\ Advances(j) /\ Joins(j) /\ EmptiedOrSame
                    /\ UNCHANGED <<held, runSeq>>
  BY OwnedTake, OwnedCommit, OwnedReturn, AdvanceKeepsOwner, AdvanceKeepsCommit
<1> USE DEF At, BeforeCommit, BeforeReturn
<1>0. \A pc \in Pcs : Moved(jobs, Goes(j, pc), j,
                            pc, jobs[j].run, jobs[j].text, jobs[j].mode)
  BY GoesMoves DEF TypeInv
<1>1. CASE StopRefused(j)
  BY <1>0, <1>1
  DEF StopRefused, Fails, Pcs, Moved, Advances, Joins, EmptiedOrSame
<1>2. CASE StopJoined(j)
  BY <1>0, <1>2
  DEF StopJoined, Pcs, Moved, Advances, Joins, EmptiedOrSame
<1>3. CASE StopJoinFails(j)
  BY <1>0, <1>3
  DEF StopJoinFails, Fails, Pcs, Moved, Advances, Joins, EmptiedOrSame
<1>4. CASE TranscriptArrives(j)
  <2>1. Advances(j)
    BY <1>4, TranscriptArrivesMoves DEF TranscriptArrives, Moved, Advances
  <2>2. memo'.entries = memo.entries
    <3>1. jobs[j].run \in Texts
      BY <1>4, PipelineAssumption DEF TypeInv, JobsReady, Ready, TranscriptArrives
    <3> QED
      BY <1>4, <3>1, RememberedType DEF TranscriptArrives, TypeInv, BackendTypeOK
  <2> QED
    BY <1>4, <2>1, <2>2 DEF TranscriptArrives, Joins, EmptiedOrSame, captureVars
<1>5. CASE ContextRead(j)
  <2>1. Advances(j)
    BY <1>5, ContextReadMoves DEF ContextRead, Moved, Advances
  <2>2. memo'.entries \in {memo.entries, <<>>}
    BY <1>5, UnexpiredEntries DEF ContextRead
  <2> QED
    BY <1>5, <2>1, <2>2 DEF ContextRead, Joins, EmptiedOrSame, captureVars
<1>6. CASE PipelineFails(j)
  BY <1>0, <1>6
  DEF PipelineFails, Fails, Pcs, Moved, Advances, Joins, EmptiedOrSame
<1>7. QED
  BY <1>1, <1>2, <1>3, <1>4, <1>5, <1>6 DEF StopStep

\* The other commands own no run and commit nothing.
LEMMA OwnedRetry ==
    ASSUME TypeInv, OwnerInv, CommitInv, NEW j \in Slots, RetryStep(j)
    PROVE  OwnerInv' /\ CommitInv'
<1> SUFFICES /\ Advances(j) /\ Joins(j) /\ EmptiedOrSame
             /\ UNCHANGED <<held, runSeq>>
  BY AdvanceKeepsOwner, AdvanceKeepsCommit
<1> USE DEF At, BeforeCommit, BeforeReturn
<1>0. \A pc \in Pcs : Moved(jobs, Goes(j, pc), j,
                            pc, jobs[j].run, jobs[j].text, jobs[j].mode)
  BY GoesMoves DEF TypeInv
<1>1. CASE RetryFails(j)
  <2>1. memo'.entries \in {memo.entries, <<>>}
    BY <1>1, UnexpiredEntries DEF RetryFails
  <2> QED
    BY <1>0, <1>1, <2>1
    DEF RetryFails, Fails, Pcs, Moved, Advances, Joins, EmptiedOrSame
<1>2. CASE RetryReads(j)
  <2>1. Advances(j)
    BY <1>2, RetryReadsMoves DEF RetryReads, Moved, Advances
  <2>2. memo'.entries \in {memo.entries, <<>>}
    BY <1>2, UnexpiredEntries DEF RetryReads
  <2>3. jobs[j].kind = "retry" /\ UNCHANGED <<captureVars, session>>
    BY <1>2 DEF RetryReads
  <2> QED
    BY <2>1, <2>2, <2>3 DEF Joins, EmptiedOrSame, captureVars
<1>3. CASE RetryReturns(j)
  <2>1. memo'.entries = memo.entries
    <3>1. CardOf(j) \in Cards
      BY <1>3 DEF TypeInv, JobsReady, Ready, RetryReturns, CardOf, Cards
    <3> QED
      BY <1>3, <3>1, WithCardType DEF RetryReturns, TypeInv, BackendTypeOK
  <2> QED
    BY <1>0, <1>3, <2>1
    DEF RetryReturns, Pcs, Moved, Advances, Joins, EmptiedOrSame, captureVars
<1>4. QED
  BY <1>1, <1>2, <1>3 DEF RetryStep

\* a bilingual answer
LEMMA OwnedAnswer ==
    ASSUME TypeInv, OwnerInv, CommitInv, NEW j \in Slots, AnswerReturns(j)
    PROVE  OwnerInv' /\ CommitInv'
<1>1. Moved(jobs, Goes(j, "ok"), j,
            "ok", jobs[j].run, jobs[j].text, jobs[j].mode)
  BY GoesMoves DEF TypeInv, Pcs
<1>2. /\ Advances(j) /\ Joins(j) /\ EmptiedOrSame
      /\ UNCHANGED <<held, runSeq>>
  BY <1>1 DEF AnswerReturns, At, Moved, Advances, Joins, EmptiedOrSame,
     captureVars, BeforeCommit, BeforeReturn
<1>3. QED
  BY <1>2, AdvanceKeepsOwner, AdvanceKeepsCommit

\* get_context_status
LEMMA OwnedContextStatus ==
    ASSUME TypeInv, OwnerInv, CommitInv, NEW j \in Slots, ContextStatus(j)
    PROVE  OwnerInv' /\ CommitInv'
<1>1. PICK pc \in {"toldOk", "toldErr"} :
          Moved(jobs, jobs', j, pc, jobs[j].run, jobs[j].text, jobs[j].mode)
  BY ContextStatusMoves
<1>2. memo'.entries \in {memo.entries, <<>>}
  BY UnexpiredEntries DEF ContextStatus
<1>3. jobs[j].pc \in {"askOk", "askErr"} /\ UNCHANGED <<captureVars, session>>
  BY DEF ContextStatus
<1>4. /\ Advances(j) /\ Joins(j) /\ EmptiedOrSame
      /\ UNCHANGED <<held, runSeq>>
  BY <1>1, <1>2, <1>3 DEF At, Moved, Advances, Joins, EmptiedOrSame,
     captureVars, BeforeCommit, BeforeReturn
<1>5. QED
  BY <1>4, AdvanceKeepsOwner, AdvanceKeepsCommit

\* The tray, the clock, the recorder threads and the interview commands
LEMMA OwnedEnvironment ==
    ASSUME TypeInv, OwnerInv, CommitInv, Environment
    PROVE  OwnerInv' /\ CommitInv'
<1> SUFFICES /\ jobs' = jobs /\ EmptiedOrSame
             /\ UNCHANGED <<held, runSeq>> /\ recording' \subseteq recording
  BY JobsSameKeeps
<1>1. ASSUME NEW r \in RunIds, RecorderEnds(r)
      PROVE  /\ jobs' = jobs /\ EmptiedOrSame
             /\ UNCHANGED <<held, runSeq>> /\ recording' \subseteq recording
  BY <1>1 DEF RecorderEnds, EmptiedOrSame
<1>2. CASE TrayClear
  BY <1>2, UnexpiredEntries DEF TrayClear, Cleared, EmptiedOrSame, captureVars
<1>3. CASE TtlPasses
  <2>1. memo'.entries = memo.entries
    BY <1>3, AgedType DEF TtlPasses, TypeInv, BackendTypeOK
  <2> QED BY <1>3, <2>1 DEF TtlPasses, EmptiedOrSame, captureVars
<1>4. CASE StartInterview
  BY <1>4 DEF StartInterview, EmptiedOrSame, captureVars
<1>5. CASE EndInterview
  BY <1>5 DEF EndInterview, NoSession, EmptiedOrSame, captureVars
<1>6. QED
  BY <1>1, <1>2, <1>3, <1>4, <1>5 DEF Environment

\* A new recording has a run id nothing else bears.
LEMMA OwnedCaptureStart ==
    ASSUME TypeInv, OwnerInv, CommitInv, NEW o \in Nat, CaptureStart(o)
    PROVE  OwnerInv' /\ CommitInv'
<1>1. CASE CaptureStartOk(o)
  <2>1. /\ runSeq \in Nat /\ runSeq' = runSeq + 1 /\ held' = runSeq'
        /\ held = NoRun /\ NoRun \notin RunIds /\ RunIds \subseteq Nat
        /\ recording \subseteq RunIds /\ recording' = recording \cup {held'}
        /\ UNCHANGED <<memo, session, jobs>>
    BY <1>1, PipelineAssumption
    DEF CaptureStartOk, TypeInv, BackendTypeOK, RunIds, NoRun
  <2>2. \A j \in Slots : jobs[j].run \in RunIds
            => jobs[j].run <= runSeq' /\ jobs[j].run # held'
    <3> SUFFICES ASSUME NEW j \in Slots, jobs[j].run \in RunIds
                 PROVE  jobs[j].run <= runSeq' /\ jobs[j].run # held'
      OBVIOUS
    <3>1. jobs[j].run <= runSeq
      BY DEF OwnerInv, RunsStarted
    <3>2. jobs[j].run \in Nat
      BY <2>1
    <3> HIDE DEF RunIds
    <3> QED BY <2>1, <3>1, <3>2
  <2>3. RunsStarted'
    <3>1. held' <= runSeq'
      BY <2>1
    <3> QED BY <2>1, <2>2, <3>1 DEF RunsStarted
  <2>4. RecordingHasOwner'
    BY <2>1 DEF OwnerInv, RecordingHasOwner, Taken
  <2>5. RunTakenOnce'
    BY <2>1, <2>2 DEF OwnerInv, RunTakenOnce
  <2>6. \A s \in {memo.entries, session.questions} :
            (\A t \in Range(s) : t <= runSeq) =>
                \A t \in Range(s) : t <= runSeq' /\ t # held'
    <3> SUFFICES ASSUME NEW s \in {memo.entries, session.questions},
                        NEW t \in Range(s), t <= runSeq
                 PROVE  t <= runSeq' /\ t # held'
      OBVIOUS
    <3>1. t \in Nat
      BY <2>1, EntriesType
    <3> QED BY <2>1, <3>1
  <2>7. CommitInv'
    BY <2>1, <2>6 DEF CommitInv, HoldsPast, CommittedOnce, At
  <2> QED BY <2>3, <2>4, <2>5, <2>7 DEF OwnerInv
<1>2. CASE CaptureStartAgain(o) \/ CaptureStartFails(o)
  <2>1. /\ jobs' = jobs /\ EmptiedOrSame
        /\ UNCHANGED <<held, runSeq>> /\ recording' \subseteq recording
    BY <1>2 DEF CaptureStartAgain, CaptureStartFails, EmptiedOrSame, captureVars
  <2> QED BY <2>1, JobsSameKeeps
<1>3. QED
  BY <1>1, <1>2 DEF CaptureStart

\* Whatever a client does
LEMMA OwnedClient ==
    ASSUME TypeInv, OwnerInv, CommitInv, ClientStep
    PROVE  OwnerInv' /\ CommitInv'
<1>0. BackendTypeOK
  BY DEF TypeInv
<1>1. CASE ClientCalls
  <2>1. CASE \E o \in Nat : CaptureStart(o)
    BY <2>1, OwnedCaptureStart
  <2>2. ASSUME NEW kind \in {"stop", "retry", "answer"}, NEW o \in Nat,
               NEW run \in AnyRun, Calls(kind, o, run), run \notin RunIds
        PROVE  OwnerInv' /\ CommitInv'
    <3>1. PICK j \in Slots :
              /\ \A i \in Slots \ {j} : jobs'[i] = jobs[i]
              /\ jobs[j].pc = "free"
              /\ jobs'[j].run = run
      BY <1>0, <2>2, CallsMoves
    <3>2. UNCHANGED <<captureVars, memo, session>>
      BY <1>0, <2>2, CallsMoves
    <3>3. /\ Advances(j) /\ Joins(j) /\ EmptiedOrSame
          /\ UNCHANGED <<held, runSeq>>
      BY <2>2, <3>1, <3>2 DEF Advances, Joins, EmptiedOrSame, At, captureVars
    <3> QED BY <3>3, AdvanceKeepsOwner, AdvanceKeepsCommit
  <2>3. CASE ClearContext
    <3>1. /\ jobs' = jobs /\ EmptiedOrSame
          /\ UNCHANGED <<held, runSeq>> /\ recording' \subseteq recording
      BY <2>3, UnexpiredEntries
      DEF ClearContext, Cleared, EmptiedOrSame, captureVars
    <3> QED BY <3>1, JobsSameKeeps
  <2> QED BY <1>1, <2>1, <2>2, <2>3, CallsOfClient
<1>2. CASE ClientReloads \/ ClientTakesReply \/ ClientTakesEvent
  <2>1. /\ jobs' = jobs /\ EmptiedOrSame
        /\ UNCHANGED <<held, runSeq>> /\ recording' \subseteq recording
    BY <1>2, UnexpiredEntries
    DEF ClientReloads, ClientTakesReply, ClientTakesEvent, EmptiedOrSame,
        captureVars
  <2> QED BY <2>1, JobsSameKeeps
<1>3. ASSUME NEW j \in Slots, ClientTakesResult(j)
      PROVE  OwnerInv' /\ CommitInv'
  <2>1. /\ \A i \in Slots \ {j} : jobs'[i] = jobs[i]
        /\ jobs[j].pc \in {"ok", "err", "toldOk", "toldErr"}
        /\ \/ jobs'[j] = FreeJob
           \/ /\ jobs'[j].pc \in {"askOk", "askErr"}
              /\ jobs'[j].kind = jobs[j].kind
              /\ jobs'[j].run = jobs[j].run
        /\ UNCHANGED <<captureVars, memo, session>>
    BY <1>0, <1>3, TakesResultMoves
  <2>2. FreeJob.run \notin RunIds
    BY DEF FreeJob, NoRun, RunIds
  <2>3. /\ Advances(j) /\ Joins(j) /\ EmptiedOrSame
        /\ UNCHANGED <<held, runSeq>>
    BY <2>1, <2>2 DEF Advances, Joins, EmptiedOrSame, At, captureVars,
       BeforeCommit, BeforeReturn
  <2> QED BY <2>3, AdvanceKeepsOwner, AdvanceKeepsCommit
<1>4. QED
  BY <1>1, <1>2, <1>3 DEF ClientStep

\* Every step keeps the owners and the commits.
LEMMA OwnedStep ==
    TypeInv /\ OwnerInv /\ CommitInv /\ [ClientNext]_backendVars
        => OwnerInv' /\ CommitInv'
<1> SUFFICES ASSUME TypeInv, OwnerInv, CommitInv, [ClientNext]_backendVars
             PROVE  OwnerInv' /\ CommitInv'
  OBVIOUS
<1>1. CASE UNCHANGED backendVars
  <2>1. /\ jobs' = jobs /\ EmptiedOrSame
        /\ UNCHANGED <<held, runSeq>> /\ recording' \subseteq recording
    BY <1>1 DEF backendVars, captureVars, EmptiedOrSame
  <2> QED BY <2>1, JobsSameKeeps
<1>2. CASE Environment
  BY <1>2, OwnedEnvironment
<1>3. ASSUME NEW j \in Slots, JobStep(j) PROVE OwnerInv' /\ CommitInv'
  BY <1>3, OwnedStop, OwnedRetry, OwnedAnswer, OwnedContextStatus DEF JobStep
<1>4. CASE ClientStep
  BY <1>4, OwnedClient
<1>5. QED
  BY <1>1, <1>2, <1>3, <1>4 DEF ClientNext, BackendStep

\* The inductive invariant holds in every reachable state, of any step.
LEMMA SafeInvariant == BackendInit /\ [][ClientNext]_backendVars => []IInv
<1>1. BackendInit => IInv
  BY TypeInit, OwnedInit DEF IInv
<1>2. IInv /\ [ClientNext]_backendVars => IInv'
  BY TypeStep, OwnedStep DEF IInv
<1>3. QED
  BY <1>1, <1>2, PTL

LEMMA Invariant == ClientSpec => []IInv
BY SafeInvariant, PTL DEF ClientSpec

\* Every recorder thread that runs can be stopped through the controller or is
\* being joined by the stop command that took it.
THEOREM RecordingOwned == ClientSpec => []RecordingHasOwner
<1>1. IInv => RecordingHasOwner
  BY DEF IInv, OwnerInv
<1>2. QED
  BY <1>1, Invariant, PTL

\* No two commands, and no command and the controller, ever have the same run.
THEOREM TakenOnce == ClientSpec => []RunTakenOnce
<1>1. IInv => RunTakenOnce
  BY DEF IInv, OwnerInv
<1>2. QED
  BY <1>1, Invariant, PTL

\* The context window and the interview report never hold an utterance twice.
THEOREM CommittedAtMostOnce == ClientSpec => []CommittedOnce
<1>1. IInv => CommittedOnce
  BY DEF IInv, CommitInv
<1>2. QED
  BY <1>1, Invariant, PTL

=============================================================================
