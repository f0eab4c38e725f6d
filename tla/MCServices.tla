------------------------------ MODULE MCServices ------------------------------
(* The parts of the backend that share no state: the four stores on disk, the
   conversation context, the recorder and the analysis of one recording, and the
   stream of an answer.  One of them runs in each behaviour. *)
EXTENDS SoleWriter, ContextPacks, SettingsStore, InterviewReports,
        MCConversationContext, MCAnswerAnalysis, RecorderThread, AnswerStream

VARIABLE part

storageVars == <<fileVars, packVars, settingsVars, reportVars>>
speechVars == <<recorderVars, streamVars>>

\* Two lines of text; one after the mark of the end; none.
MCBodies == {<<"text", "text">>, <<"done", "text">>, <<"other">>}

MCInit == /\ part \in {"file", "packs", "settings", "reports", "context", "analysis",
                      "recorder", "stream"}
          /\ FileInit /\ PacksInit /\ SettingsInit /\ ReportsInit
          /\ Init /\ AnalysisInit /\ RecorderInit /\ StreamInit
          \* the parts that do not run start in one of their initial states
          /\ part # "file" => dest = Missing
          /\ part # "settings" => file = NoSettings
          /\ part # "reports" => retention = 0
          /\ part # "analysis" =>
                analysis = NewAnalysis("work", CHOOSE h \in Heards : TRUE,
                                       CHOOSE p \in Profiles : TRUE, FALSE)

MCNext == /\ \/ /\ part = "file" /\ FileNext
                /\ UNCHANGED <<packVars, settingsVars, reportVars, vars, analysisVars, speechVars>>
             \/ /\ part = "packs" /\ PacksNext
                /\ UNCHANGED <<fileVars, settingsVars, reportVars, vars, analysisVars, speechVars>>
             \/ /\ part = "settings" /\ SettingsNext
                /\ UNCHANGED <<fileVars, packVars, reportVars, vars, analysisVars, speechVars>>
             \/ /\ part = "reports" /\ ReportsNext
                /\ UNCHANGED <<fileVars, packVars, settingsVars, vars, analysisVars, speechVars>>
             \/ /\ part = "context" /\ Next
                /\ UNCHANGED <<storageVars, analysisVars, speechVars>>
             \/ /\ part = "analysis" /\ AnalysisNext
                /\ UNCHANGED <<storageVars, vars, speechVars>>
             \/ /\ part = "recorder" /\ RecorderNext
                /\ UNCHANGED <<storageVars, vars, analysisVars, streamVars>>
             \/ /\ part = "stream" /\ StreamNext
                /\ UNCHANGED <<storageVars, vars, analysisVars, recorderVars>>
          /\ UNCHANGED part

MCSpec == MCInit /\ [][MCNext]_<<part, storageVars, vars, analysisVars, speechVars>>
===============================================================================
