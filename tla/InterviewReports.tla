--------------------------- MODULE InterviewReports ---------------------------
(***************************************************************************)
(* interview_report.rs with commands/interview.rs: the interview session   *)
(* is in memory, its report is appended to a file when it ends, and every  *)
(* command that starts, ends or shows an interview first or last removes   *)
(* the reports older than the retention of the settings.  The commands run *)
(* one at a time; the pipelines append questions in between.  A question   *)
(* is a number; the scores and the texts of a report are left out.         *)
(***************************************************************************)
EXTENDS Integers, Sequences, SequencesExt

CONSTANTS MaxSessions,  \* bound on the interviews
          MaxQuestions, \* bound on the questions of all interviews
          MaxDays,      \* bound on the days that pass
          Retentions,   \* retention settings, in days: 0 keeps every report
          MaxDamages    \* bound on crashes and on damage to the file

ASSUME ReportsBoundsAssumption ==
    /\ MaxSessions \in Nat /\ MaxQuestions \in Nat /\ MaxDays \in Nat
    /\ Retentions \subseteq Nat /\ MaxDamages \in Nat

VARIABLES session,    \* the interview in memory
          reports,    \* the reports file, [is |-> "missing" or "torn" or "store"]
          ending,     \* the report end_interview_session has saved, in a sequence
          retention,  \* the setting
          today,
          asked,      \* history: questions appended so far
          sessions,   \* history: interviews started so far
          lost,       \* history: the reports that were in a damaged file
          damages

reportVars == <<session, reports, ending, retention, today, asked, sessions, lost,
                damages>>

NoSession == [active |-> FALSE, id |-> 0, questions |-> <<>>]
ReportsFile(list) == [is |-> "store", list |-> list]
NoReports == [is |-> "missing", list |-> <<>>]
TornReports == [is |-> "torn", list |-> <<>>]

ReportsInit ==
    /\ session = NoSession
    /\ reports = NoReports
    /\ ending = <<>>
    /\ retention \in Retentions
    /\ today = 0
    /\ asked = 0
    /\ sessions = 0
    /\ lost = {}
    /\ damages = 0

-------------------------------------------------------------------------------
(* load_store: a file that does not parse is an error, for every command. *)
Readable == reports.is # "torn"

(* enforce_retention: what stays, on the day it runs. *)
Fresh(r) == retention = 0 \/ r.ended >= today - retention

Retained(list) ==
    LET kept[i \in 0 .. Len(list)] ==
            IF i = 0 THEN <<>>
            ELSE IF Fresh(list[i]) THEN Append(kept[i - 1], list[i]) ELSE kept[i - 1]
    IN kept[Len(list)]

(* It writes only when it removed something. *)
EnforceRetention(list) ==
    reports' = IF Retained(list) = list THEN reports ELSE ReportsFile(Retained(list))

-------------------------------------------------------------------------------
(* start_interview_session: retention first; a session that is active already
   is replaced, and its questions are dropped. *)
StartSession ==
    /\ ending = <<>>
    /\ sessions < MaxSessions
    /\ Readable
    /\ EnforceRetention(reports.list)
    /\ sessions' = sessions + 1
    /\ session' = [active |-> TRUE, id |-> sessions + 1, questions |-> <<>>]
    /\ UNCHANGED <<ending, retention, today, asked, lost, damages>>

(* append_question, from a pipeline; the session is locked while it ends. *)
AppendQuestion ==
    /\ ending = <<>>
    /\ asked < MaxQuestions
    /\ asked' = asked + 1
    /\ session' = IF session.active
                  THEN [session EXCEPT !.questions = Append(@, asked + 1)]
                  ELSE session
    /\ UNCHANGED <<reports, ending, retention, today, sessions, lost, damages>>

Report == [id |-> session.id, ended |-> today, questions |-> session.questions]

(* A bug: the session is reset before its report is saved. *)
ResetThenSave ==
    /\ ending = <<>>
    /\ session.active
    /\ ending' = <<Report>>
    /\ session' = NoSession
    /\ reports' = IF Readable THEN ReportsFile(Append(reports.list, Report)) ELSE reports
    /\ UNCHANGED <<retention, today, asked, sessions, lost, damages>>

(* end_session up to its save: the report is added to the file. *)
SaveReport ==
    /\ ending = <<>>
    /\ session.active
    /\ Readable
    /\ reports' = ReportsFile(Append(reports.list, Report))
    /\ ending' = <<Report>>
    /\ UNCHANGED <<session, retention, today, asked, sessions, lost, damages>>

(* The save fails: the session stays active with its questions, and the
   command fails before the retention. *)
SaveReportFails ==
    /\ ending = <<>>
    /\ session.active
    /\ UNCHANGED reportVars

(* A bug: a retention that fails ends the command before the reset. *)
EndSessionUnlessRetentionFails ==
    /\ ending # <<>>
    /\ ending' = <<>>
    /\ \/ Readable /\ EnforceRetention(reports.list) /\ session' = NoSession
       \/ UNCHANGED <<reports, session>>
    /\ UNCHANGED <<retention, today, asked, sessions, lost, damages>>

(* The rest of end_interview_session: the session is reset, then the retention
   applies; when that fails the command fails although the report is saved. *)
EndSession ==
    /\ ending # <<>>
    /\ session' = NoSession
    /\ ending' = <<>>
    /\ \/ Readable /\ EnforceRetention(reports.list)
       \/ UNCHANGED reports
    /\ UNCHANGED <<retention, today, asked, sessions, lost, damages>>

(* get_interview_report, end_interview_session without a session: only the
   retention runs. *)
GetReport ==
    /\ ending = <<>>
    /\ Readable
    /\ EnforceRetention(reports.list)
    /\ UNCHANGED <<session, ending, retention, today, asked, sessions, lost, damages>>

(* clear_interview_reports: the file is removed, then the session is reset. *)
ClearReports ==
    /\ ending = <<>>
    /\ reports' = NoReports
    /\ session' = NoSession
    /\ UNCHANGED <<ending, retention, today, asked, sessions, lost, damages>>

(* The user changes the setting; a day passes. *)
SetRetention ==
    /\ ending = <<>>
    /\ retention' \in Retentions \ {retention}
    /\ UNCHANGED <<session, reports, ending, today, asked, sessions, lost, damages>>

DayPasses ==
    /\ today < MaxDays
    /\ ending = <<>>
    /\ today' = today + 1
    /\ UNCHANGED <<session, reports, ending, retention, asked, sessions, lost, damages>>

(* The app ends, also in the middle of ending a session, and starts again. *)
AppCrashes ==
    /\ damages < MaxDamages
    /\ damages' = damages + 1
    /\ session' = NoSession
    /\ ending' = <<>>
    /\ UNCHANGED <<reports, retention, today, asked, sessions, lost>>

(* Something outside the app damages the file. *)
ReportsDamaged ==
    /\ damages < MaxDamages
    /\ reports.is = "store"
    /\ damages' = damages + 1
    /\ reports' = TornReports
    /\ lost' = lost \cup ToSet(reports.list)
    /\ UNCHANGED <<session, ending, retention, today, asked, sessions>>

ReportsNext ==
    \/ StartSession \/ AppendQuestion \/ SaveReport \/ SaveReportFails \/ EndSession
    \/ GetReport \/ ClearReports \/ SetRetention \/ DayPasses
    \/ AppCrashes \/ ReportsDamaged

ReportsSpec == ReportsInit /\ [][ReportsNext]_reportVars

-------------------------------------------------------------------------------
(* An interview has at most one report, and once it has one its questions are
   not in memory any more, except while it is being ended: no failure between
   the save and the reset makes a second report (interview_report.rs:60). *)
ReportedOnce ==
    LET list == reports.list
    IN /\ \A i, j \in 1 .. Len(list) : list[i].id = list[j].id => i = j
       /\ session.active /\ ending = <<>> => \A r \in ToSet(list) : r.id # session.id

(* An interview that is ended leaves the memory with all its questions in a
   report on disk: a report that cannot be saved, or a retention that fails
   after it, costs no question (interview_report.rs:60, commands/interview.rs:45). *)
QuestionsReported ==
    [][(session.active /\ session' = NoSession /\ ~AppCrashes /\ ~ClearReports)
         => \E r \in ToSet(reports'.list) \cup lost' :
               r.id = session.id /\ r.questions = session.questions]_reportVars
===============================================================================
