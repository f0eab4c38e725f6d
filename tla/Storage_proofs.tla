---------------------------- MODULE Storage_proofs ----------------------------
(***************************************************************************)
(* The four stores on disk: the file that a save replaces (AtomicFile,     *)
(* SoleWriter), the settings, the reports of interviews and the packs of   *)
(* context, for any number of versions, sessions, reports, packs, crashes  *)
(* and damages.  A section for each.                                       *)
(***************************************************************************)
EXTENDS SoleWriter, SettingsStore, InterviewReports, ContextPacks,
        SequenceInduction, FiniteSetTheorems

(***************************************************************************)
(* A save by a sole writer is a register, for every set of payloads, any   *)
(* number of temporary names and of crashes.                               *)
(***************************************************************************)

(* The writer has the file of its temporary name open from the open to the
   rename, what is renamed is complete and on the disk, and between saves the
   destination is a closed file with complete contents. *)
Open == step[Saver] \in {"write", "sync", "replace"}

SaverInv ==
    /\ FileTypeOK
    /\ dest \in Payloads \cup {Missing, Saver}
    /\ dest = Saver <=> step[Saver] = "return"
    /\ \A n \in Names : temps[n] = Saver <=> (Open /\ n = name[Saver])
    /\ step[Saver] \in {"sync", "replace", "return"} => written[Saver] = payload[Saver]
    /\ step[Saver] \in {"replace", "return"} => synced[Saver]
    /\ step[Saver] = "idle" => payload[Saver] = Missing
    /\ step[Saver] # "idle" => payload[Saver] \in Payloads

-------------------------------------------------------------------------------
USE SaverAssumption, PayloadsAssumption, BoundsAssumption

LEMMA FileInitInv == FileInit => SaverInv
  BY DEF FileInit, SaverInv, FileTypeOK, Steps, Closed, Names, Open

LEMMA BeginSaveInv == ASSUME SaverInv, NEW p \in Payloads, BeginSave(Saver, p) PROVE SaverInv'
  BY DEF SaverInv, FileTypeOK, Steps, Closed, Names, Open, BeginSave

LEMMA ReserveInv == ASSUME SaverInv, Reserve(Saver) PROVE SaverInv'
  BY DEF SaverInv, FileTypeOK, Steps, Closed, Names, Open, Reserve

LEMMA ReserveFailsInv == ASSUME SaverInv, ReserveFails(Saver) PROVE SaverInv'
  BY DEF SaverInv, FileTypeOK, Steps, Closed, Names, Open, ReserveFails, Ended

LEMMA CreateInv == ASSUME SaverInv, Create(Saver) PROVE SaverInv'
  BY DEF SaverInv, FileTypeOK, Steps, Closed, Names, Open, Create

LEMMA WriteInv == ASSUME SaverInv, Write(Saver) PROVE SaverInv'
  BY DEF SaverInv, FileTypeOK, Steps, Closed, Names, Open, Write

LEMMA SyncInv == ASSUME SaverInv, Sync(Saver) PROVE SaverInv'
  BY DEF SaverInv, FileTypeOK, Steps, Closed, Names, Open, Sync

LEMMA ReplaceInv == ASSUME SaverInv, Replace(Saver) PROVE SaverInv'
  BY DEF SaverInv, FileTypeOK, Steps, Closed, Names, Open, Replace

LEMMA ReturnInv == ASSUME SaverInv, Return(Saver) PROVE SaverInv'
  BY DEF SaverInv, FileTypeOK, Steps, Closed, Names, Open, Return, Ended, Closes, Closing

LEMMA FailsInv == ASSUME SaverInv, Fails(Saver) PROVE SaverInv'
  BY DEF SaverInv, FileTypeOK, Steps, Closed, Names, Open, Fails, Closes, Closing

LEMMA CleanInv == ASSUME SaverInv, Clean(Saver) PROVE SaverInv'
  BY DEF SaverInv, FileTypeOK, Steps, Closed, Names, Open, Clean, Ended

LEMMA CrashInv == ASSUME SaverInv, Crash PROVE SaverInv'
  BY DEF SaverInv, FileTypeOK, Steps, Closed, Names, Open, Crash, Closing

-------------------------------------------------------------------------------
LEMMA FileNextInv == ASSUME SaverInv, [FileNext]_fileVars PROVE SaverInv'
<1>1. CASE Crash
  BY <1>1, CrashInv
<1>2. CASE WriterStep(Saver)
  <2>1. ASSUME NEW p \in Payloads, BeginSave(Saver, p) PROVE SaverInv'
    BY <2>1, BeginSaveInv
  <2>2. CASE Reserve(Saver)
    BY <2>2, ReserveInv
  <2>3. CASE ReserveFails(Saver)
    BY <2>3, ReserveFailsInv
  <2>4. CASE Create(Saver)
    BY <2>4, CreateInv
  <2>5. CASE Write(Saver)
    BY <2>5, WriteInv
  <2>6. CASE Sync(Saver)
    BY <2>6, SyncInv
  <2>7. CASE Replace(Saver)
    BY <2>7, ReplaceInv
  <2>8. CASE Return(Saver)
    BY <2>8, ReturnInv
  <2>9. CASE Fails(Saver)
    BY <2>9, FailsInv
  <2>10. CASE Clean(Saver)
    BY <2>10, CleanInv
  <2> QED
    BY <1>2, <2>1, <2>2, <2>3, <2>4, <2>5, <2>6, <2>7, <2>8, <2>9, <2>10 DEF WriterStep
<1>3. CASE UNCHANGED fileVars
  BY <1>3 DEF SaverInv, FileTypeOK, Steps, Closed, Names, Open, fileVars
<1> QED
  BY <1>1, <1>2, <1>3 DEF FileNext

LEMMA SaverHolds == FileSpec => []SaverInv
<1>1. FileInit => SaverInv
  BY FileInitInv
<1>2. SaverInv /\ [FileNext]_fileVars => SaverInv'
  BY FileNextInv
<1> QED
  BY <1>1, <1>2, PTL DEF FileSpec

(* FileTypeOK: the saver's state and the files are well typed. *)
THEOREM FileTypeCorrect == FileSpec => []FileTypeOK
<1>1. SaverInv => FileTypeOK
  BY DEF SaverInv
<1> QED
  BY <1>1, SaverHolds, PTL

-------------------------------------------------------------------------------
(* Each step of the save is a step of the register or leaves it alone. *)
LEMMA InitMaps == FileInit => Register!Init
  BY DEF FileInit, Register!Init, Saving, Holds

LEMMA BeginSaveMaps ==
  ASSUME SaverInv, NEW p \in Payloads, BeginSave(Saver, p) PROVE Register!Ask(p)
  BY DEF SaverInv, FileTypeOK, Steps, Closed, BeginSave, Register!Ask, Saving, Holds

LEMMA ReplaceMaps == ASSUME SaverInv, Replace(Saver) PROVE Register!Take
  BY DEF SaverInv, FileTypeOK, Steps, Closed, Open, Replace, Register!Take, Saving, Holds

LEMMA ReturnMaps == ASSUME SaverInv, Return(Saver) PROVE Register!Return
  BY DEF SaverInv, FileTypeOK, Steps, Closed, Return, Ended, Closes, Closing,
         Register!Return, Saving, Holds

LEMMA FailureMaps ==
  ASSUME SaverInv, ReserveFails(Saver) \/ Clean(Saver) PROVE Register!Return
  BY DEF SaverInv, FileTypeOK, Steps, Closed, ReserveFails, Clean, Ended,
         Register!Return, Saving, Holds

LEMMA CrashMaps == ASSUME SaverInv, Crash PROVE Register!Crash
  BY DEF SaverInv, FileTypeOK, Steps, Closed, Crash, Closing, Register!Crash, Saving, Holds

LEMMA HiddenMaps ==
  ASSUME SaverInv,
         \/ Reserve(Saver) \/ Create(Saver) \/ Write(Saver) \/ Sync(Saver)
         \/ Fails(Saver) \/ UNCHANGED fileVars
  PROVE  UNCHANGED Register!vars
<1> USE DEF SaverInv, FileTypeOK, Steps, Closed, Register!vars, Saving, Holds
<1>1. CASE Reserve(Saver)
  BY <1>1 DEF Reserve
<1>2. CASE Create(Saver)
  BY <1>2 DEF Create
<1>3. CASE Write(Saver)
  BY <1>3 DEF Write
<1>4. CASE Sync(Saver)
  BY <1>4 DEF Sync
<1>5. CASE Fails(Saver)
  BY <1>5 DEF Fails, Closes, Closing
<1>6. CASE UNCHANGED fileVars
  BY <1>6 DEF fileVars
<1> QED
  BY <1>1, <1>2, <1>3, <1>4, <1>5, <1>6

LEMMA StepMaps ==
  ASSUME SaverInv, [FileNext]_fileVars PROVE [Register!Next]_Register!vars
<1>1. CASE Crash
  BY <1>1, CrashMaps DEF Register!Next
<1>2. ASSUME NEW p \in Payloads, BeginSave(Saver, p) PROVE Register!Next
  BY <1>2, BeginSaveMaps DEF Register!Next
<1>3. CASE Replace(Saver)
  BY <1>3, ReplaceMaps DEF Register!Next
<1>4. CASE Return(Saver) \/ ReserveFails(Saver) \/ Clean(Saver)
  BY <1>4, ReturnMaps, FailureMaps DEF Register!Next
<1>5. CASE \/ Reserve(Saver) \/ Create(Saver) \/ Write(Saver) \/ Sync(Saver)
           \/ Fails(Saver) \/ UNCHANGED fileVars
  BY <1>5, HiddenMaps
<1> QED
  BY <1>1, <1>2, <1>3, <1>4, <1>5 DEF FileNext, WriterStep

(* write_bytes_atomically implements an atomic register: with one writer, every
   reader at every moment, also after a crash, finds contents some save put
   there whole, and a save reports success exactly when it replaced them. *)
THEOREM FileImplementsRegister == FileSpec => ImplementsRegister
<1>1. FileInit => Register!Init
  BY InitMaps
<1>2. SaverInv /\ [FileNext]_fileVars => [Register!Next]_Register!vars
  BY StepMaps
<1> QED
  BY <1>1, <1>2, SaverHolds, PTL DEF FileSpec, ImplementsRegister, Register!Spec

-------------------------------------------------------------------------------
(* Between a failure and its removal there is one file more; a failed open has
   left none. *)
LeftoversInv ==
    /\ step[Saver] = "create" => temps[name[Saver]] = None
    /\ Cardinality(Leftovers) <=
           spoils + (IF step[Saver] = "clean" /\ temps[name[Saver]] \in Closed THEN 1 ELSE 0)

LEMMA LeftoversFinite == IsFiniteSet(Leftovers) /\ Cardinality(Leftovers) \in Nat
<1>1. IsFiniteSet(Names)
  BY FS_Interval DEF Names
<1> QED
  BY <1>1, FS_Subset, FS_CardinalityType DEF Leftovers

LEMMA LeftoversInit == FileInit => LeftoversInv
<1> SUFFICES ASSUME FileInit PROVE LeftoversInv
  OBVIOUS
<1>1. Leftovers = {}
  BY DEF FileInit, Leftovers, Closed
<1> QED
  BY <1>1, FS_EmptySet DEF FileInit, LeftoversInv

(* Steps that close no file under a temporary name. *)
LEMMA LeftoversQuiet ==
  ASSUME SaverInv, LeftoversInv,
         \/ \E p \in Payloads : BeginSave(Saver, p)
         \/ Reserve(Saver) \/ ReserveFails(Saver) \/ Create(Saver) \/ Write(Saver)
         \/ Sync(Saver) \/ Replace(Saver) \/ Return(Saver) \/ UNCHANGED fileVars
  PROVE  LeftoversInv'
<1>1. Leftovers' = Leftovers /\ spoils' = spoils
  <2> USE DEF SaverInv, FileTypeOK, Steps, Closed, Open, Leftovers
  <2>1. CASE \E p \in Payloads : BeginSave(Saver, p)
    BY <2>1 DEF BeginSave
  <2>2. CASE Reserve(Saver)
    BY <2>2 DEF Reserve
  <2>3. CASE ReserveFails(Saver)
    BY <2>3 DEF ReserveFails, Ended
  <2>4. CASE Create(Saver)
    BY <2>4 DEF Create
  <2>5. CASE Write(Saver)
    BY <2>5 DEF Write
  <2>6. CASE Sync(Saver)
    BY <2>6 DEF Sync
  <2>7. CASE Replace(Saver)
    BY <2>7 DEF Replace
  <2>8. CASE Return(Saver)
    BY <2>8 DEF Return, Ended, Closes, Closing
  <2>9. CASE UNCHANGED fileVars
    BY <2>9 DEF fileVars
  <2> QED
    BY <2>1, <2>2, <2>3, <2>4, <2>5, <2>6, <2>7, <2>8, <2>9
<1>2. (step[Saver] # "clean" /\ step'[Saver] # "clean") \/ UNCHANGED fileVars
  BY DEF SaverInv, FileTypeOK, Steps, BeginSave, Reserve, ReserveFails, Create, Write,
         Sync, Replace, Return, Ended
<1>3. step'[Saver] = "create" => temps'[name'[Saver]] = None
  BY DEF SaverInv, FileTypeOK, Steps, LeftoversInv, BeginSave, Reserve, ReserveFails,
         Create, Write, Sync, Replace, Return, Ended, fileVars
<1> QED
  BY <1>1, <1>2, <1>3, LeftoversFinite DEF LeftoversInv, SaverInv, FileTypeOK, fileVars

LEMMA LeftoversFails ==
  ASSUME SaverInv, LeftoversInv, Fails(Saver) PROVE LeftoversInv'
<1> USE DEF SaverInv, FileTypeOK, Closed
<1>1. step'[Saver] = "clean" /\ step[Saver] # "clean" /\ UNCHANGED <<spoils, name>>
  BY DEF Fails
<1>2. CASE Open
  <2>1. temps' = [temps EXCEPT ![name[Saver]] = written[Saver]]
    BY <1>2 DEF Fails, Closes, Closing
  <2>2. Leftovers' = Leftovers \cup {name[Saver]} /\ name[Saver] \notin Leftovers
    BY <1>2, <2>1 DEF Leftovers
  <2>3. Cardinality(Leftovers') = Cardinality(Leftovers) + 1
    BY <2>2, LeftoversFinite, FS_AddElement
  <2>4. temps'[name'[Saver]] \in Closed
    BY <1>1, <2>1
  <2> QED
    BY <1>1, <2>3, <2>4, LeftoversFinite DEF LeftoversInv
<1>3. CASE ~Open
  <2>1. temps' = temps
    BY <1>3 DEF Fails, Closes, Closing
  <2>2. Leftovers' = Leftovers
    BY <2>1 DEF Leftovers
  <2> QED
    BY <1>1, <2>1, <2>2, LeftoversFinite DEF LeftoversInv
<1> QED
  BY <1>2, <1>3

LEMMA LeftoversClean ==
  ASSUME SaverInv, LeftoversInv, Clean(Saver) PROVE LeftoversInv'
<1> USE DEF SaverInv, FileTypeOK, Closed
<1>1. step'[Saver] = "idle" /\ step[Saver] = "clean" /\ name' = name
  BY DEF Clean, Ended
<1>2. CASE temps' = [temps EXCEPT ![name[Saver]] = None] /\ UNCHANGED spoils
  <2>1. Leftovers' = Leftovers \ {name[Saver]}
    BY <1>2 DEF Leftovers
  <2>2. Cardinality(Leftovers') =
          IF name[Saver] \in Leftovers THEN Cardinality(Leftovers) - 1 ELSE Cardinality(Leftovers)
    BY <2>1, LeftoversFinite, FS_RemoveElement
  <2>3. name[Saver] \in Leftovers <=> temps[name[Saver]] \in Closed
    BY DEF Leftovers
  <2> QED
    BY <1>1, <1>2, <2>2, <2>3, LeftoversFinite DEF LeftoversInv
<1>3. CASE spoils' = spoils + 1 /\ UNCHANGED temps
  <2>1. Leftovers' = Leftovers
    BY <1>3 DEF Leftovers
  <2> QED
    BY <1>1, <1>3, <2>1, LeftoversFinite DEF LeftoversInv
<1> QED
  BY <1>2, <1>3 DEF Clean

LEMMA LeftoversCrash ==
  ASSUME SaverInv, LeftoversInv, Crash PROVE LeftoversInv'
<1> USE DEF SaverInv, FileTypeOK, Closed
<1>1. step'[Saver] = "idle" /\ spoils' = spoils + 1
  BY DEF Crash
<1>2. PICK c \in Closed :
        temps' = [n \in Names |-> IF temps[n] = Saver THEN c ELSE temps[n]]
  <2>1. CASE synced[Saver]
    BY <2>1 DEF Crash, Closing
  <2>2. CASE ~synced[Saver]
    BY <2>2 DEF Crash, Closing
  <2> QED
    BY <2>1, <2>2
<1>3. CASE Open
  <2>1. Leftovers' = Leftovers \cup {name[Saver]} /\ name[Saver] \notin Leftovers
    BY <1>2, <1>3 DEF Leftovers
  <2>2. Cardinality(Leftovers') = Cardinality(Leftovers) + 1
    BY <2>1, LeftoversFinite, FS_AddElement
  <2> QED
    BY <1>1, <1>3, <2>2, LeftoversFinite DEF LeftoversInv, Open
<1>4. CASE ~Open
  <2>1. temps' = temps
    BY <1>2, <1>4
  <2>2. Leftovers' = Leftovers
    BY <2>1 DEF Leftovers
  <2> QED
    BY <1>1, <2>2, LeftoversFinite DEF LeftoversInv
<1> QED
  BY <1>3, <1>4

(* However many saves fail, a temporary file is left behind only by a crash or
   by a removal that fails: the names of reserve_temp_path last for MaxTemps
   of those. *)
THEOREM FewLeftovers == FileSpec => []LeftoversAreSpoils
<1>1. FileInit => LeftoversInv
  BY LeftoversInit
<1>2. SaverInv /\ LeftoversInv /\ [FileNext]_fileVars => LeftoversInv'
  BY LeftoversQuiet, LeftoversFails, LeftoversClean, LeftoversCrash DEF FileNext, WriterStep
<1>3. SaverInv /\ LeftoversInv => LeftoversAreSpoils
  BY LeftoversFinite DEF LeftoversInv, LeftoversAreSpoils, SaverInv, FileTypeOK
<1> QED
  BY <1>1, <1>2, <1>3, SaverHolds, PTL DEF FileSpec

-------------------------------------------------------------------------------
(***************************************************************************)
(* Settings: a save is loaded as it was saved, an upgrade keeps what was   *)
(* chosen and a save without a route keeps the one there was, for every    *)
(* set of old files and any number of damages.                             *)
(***************************************************************************)

(* What migration makes of a file that parses. *)
MigratedMode(d) ==
    IF d.version >= 9 THEN d.settings.mode
    ELSE IF d.trace THEN "full_local" ELSE "redacted"

LEMMA SettingsAre ==
    ASSUME NEW s \in Settings, NEW m \in TraceModes
    PROVE  /\ [s EXCEPT !.mode = m] \in Settings
           /\ [s EXCEPT !.mode = m].hotkey = s.hotkey
           /\ [s EXCEPT !.mode = m].url = s.url
           /\ [s EXCEPT !.mode = m].model = s.model
           /\ [s EXCEPT !.mode = m].fields = s.fields
           /\ [s EXCEPT !.mode = m].mode = m
           /\ m = s.mode => [s EXCEPT !.mode = m] = s
  BY DEF Settings

LEMMA MigratedIs ==
    ASSUME NEW d \in Docs
    PROVE  /\ Migrated(d).shape = d.shape
           /\ Migrated(d).settings = [d.settings EXCEPT !.mode = MigratedMode(d)]
           /\ MigratedMode(d) \in TraceModes
<1>1. MigratedMode(d) \in TraceModes
  BY DEF MigratedMode, Docs, Settings, TraceModes
<1>2. (CASE d.version >= 9 -> d.settings.mode
         [] d.version < 9 /\ d.trace -> "full_local"
         [] OTHER -> "redacted") = MigratedMode(d)
  <2>1. d.version \in Nat
    BY DEF Docs
  <2>2. d.version >= 9 <=> ~(d.version < 9)
    BY <2>1
  <2> QED BY <2>2, Zenon DEF MigratedMode
<1>3. Migrated(d) = [d EXCEPT !.version = IF @ < CurrentVersion THEN CurrentVersion ELSE @,
                              !.settings.mode = MigratedMode(d)]
  BY <1>2, Zenon DEF Migrated
<1>4. QED
  BY <1>1, <1>3 DEF Docs, Settings

LEMMA MigratedKeeps ==
    ASSUME NEW d \in Docs
    PROVE  /\ Migrated(d).settings \in Settings
           /\ Migrated(d).settings.hotkey = d.settings.hotkey
           /\ Migrated(d).settings.url = d.settings.url
           /\ Migrated(d).settings.model = d.settings.model
           /\ Migrated(d).settings.fields = d.settings.fields
           /\ Migrated(d).settings.mode = MigratedMode(d)
<1>1. d.settings \in Settings
  BY DEF Docs
<1>2. MigratedMode(d) \in TraceModes /\ Migrated(d).settings = [d.settings EXCEPT !.mode = MigratedMode(d)]
  BY MigratedIs
<1>3. QED
  BY <1>1, <1>2, SettingsAre

(* What the load puts in order. *)
LEMMA CleanedIs ==
    ASSUME NEW s \in Settings
    PROVE  /\ Sanitized(WithHotkey(s)) \in Settings
           /\ Sanitized(WithHotkey(s)).hotkey =
                 IF s.hotkey = "reserved" THEN "default" ELSE s.hotkey
           /\ Sanitized(WithHotkey(s)).url = s.url
           /\ Sanitized(WithHotkey(s)).model = s.model
           /\ Sanitized(WithHotkey(s)).mode = s.mode
           /\ Sanitized(WithHotkey(s)).fields = IF s.fields = "odd" THEN "sound" ELSE s.fields
           /\ Sanitized(s) \in Settings
           /\ Sanitized(s).hotkey = s.hotkey /\ Sanitized(s).url = s.url
           /\ Sanitized(s).model = s.model /\ Sanitized(s).mode = s.mode
           /\ Sanitized(s).fields = IF s.fields = "odd" THEN "sound" ELSE s.fields
<1>1. /\ WithHotkey(s) \in Settings
      /\ WithHotkey(s).hotkey = IF s.hotkey = "reserved" THEN "default" ELSE s.hotkey
      /\ WithHotkey(s).url = s.url /\ WithHotkey(s).model = s.model
      /\ WithHotkey(s).mode = s.mode /\ WithHotkey(s).fields = s.fields
  BY DEF WithHotkey, Settings, Hotkeys, Default
<1>2. ASSUME NEW t \in Settings
      PROVE  /\ Sanitized(t) \in Settings
             /\ Sanitized(t).hotkey = t.hotkey /\ Sanitized(t).url = t.url
             /\ Sanitized(t).model = t.model /\ Sanitized(t).mode = t.mode
             /\ Sanitized(t).fields = IF t.fields = "odd" THEN "sound" ELSE t.fields
  BY DEF Sanitized, Settings, Fields
<1>3. QED
  BY <1>1, <1>2

(* Settings a save may store: the others it refuses. *)
Usable(s) == s \in Settings /\ Valid(s) /\ s.fields # "odd"

LEMMA SameSettings ==
    ASSUME NEW s \in Settings, NEW t \in Settings, s.hotkey = t.hotkey, s.url = t.url,
           s.model = t.model, s.mode = t.mode, s.fields = t.fields
    PROVE  s = t
  BY DEF Settings

LEMMA StoredDoc ==
    ASSUME NEW s \in Settings
    PROVE  /\ Doc(s).is = "doc" /\ Doc(s).doc \in Docs
           /\ Doc(s).doc.version = 10 /\ Doc(s).doc.shape = "whole"
           /\ Doc(s).doc.settings = s /\ ~Doc(s).doc.trace
  BY DEF Doc, Docs, CurrentVersion, Shapes

(* What a load makes of settings that a save stored, *)
LEMMA StoredIsLoaded ==
    ASSUME NEW s, Usable(s)
    PROVE  /\ Outcome(Doc(s)).ends = "loaded"
           /\ ~Outcome(Doc(s)).stores
           /\ Outcome(Doc(s)).settings = s
<1> DEFINE d == Doc(s).doc
           m == Migrated(d)
           c == Sanitized(WithHotkey(m.settings))
<1>1. s \in Settings /\ s.mode \in TraceModes /\ Valid(s)
  BY DEF Usable, Settings
<1>2. d \in Docs /\ d.version = 10 /\ d.shape = "whole" /\ d.settings = s /\ Doc(s).is = "doc"
  BY <1>1, StoredDoc
<1>3. MigratedMode(d) = s.mode
  BY <1>2 DEF MigratedMode
<1>4. m.shape = "whole" /\ m.settings = s
  <2> HIDE DEF d
  <2> QED BY <1>1, <1>2, <1>3, MigratedIs, SettingsAre
<1>5. c = s
  <2> HIDE DEF m
  <2> QED BY <1>1, <1>4, CleanedIs, SameSettings DEF Usable, Valid
<1>6. RequiredFields(m)
  <2> HIDE DEF m
  <2> QED BY <1>1, <1>4 DEF RequiredFields, Valid
<1>7. s.hotkey # "reserved"
  BY <1>1 DEF Valid
<1>8. Outcome(Doc(s)) = [ends |-> "loaded", settings |-> s, stores |-> FALSE]
  <2> HIDE DEF m, c
  <2>1. Outcome(Doc(s)) =
           [ends |-> CASE Doc(s).is = "missing" -> "default"
                       [] Doc(s).is = "doc" /\ RequiredFields(m) /\ m.shape = "whole" /\ Valid(c) -> "loaded"
                       [] OTHER -> "quarantined",
            settings |-> IF Doc(s).is = "doc" /\ RequiredFields(m) /\ m.shape = "whole" /\ Valid(c) THEN c ELSE Default,
            stores |-> (Doc(s).is = "doc" /\ RequiredFields(m) /\ m.shape = "whole" /\ Valid(c)) /\ m.settings.hotkey = "reserved"]
    BY DEF Outcome, m, c
  <2> QED BY <1>1, <1>2, <1>4, <1>5, <1>6, <1>7, <2>1
<1>9. QED
  BY <1>8

(* and of a whole file of any version, if it was sound. *)
LEMMA UpgradedIsLoaded ==
    ASSUME NEW f, f.is = "doc", f.doc \in Docs, f.doc.shape = "whole",
           Valid(Sanitized(f.doc.settings))
    PROVE  /\ Outcome(f).ends = "loaded"
           /\ Outcome(f).settings.hotkey = f.doc.settings.hotkey
           /\ Outcome(f).settings.url = f.doc.settings.url
           /\ Outcome(f).settings.model = f.doc.settings.model
           /\ Outcome(f).settings.mode = MigratedMode(f.doc)
<1> DEFINE s == f.doc.settings
           m == Migrated(f.doc)
           c == Sanitized(WithHotkey(m.settings))
           usable == f.is = "doc" /\ RequiredFields(m) /\ m.shape = "whole" /\ Valid(c)
<1>1. s \in Settings
  BY DEF Docs
<1>2. /\ m.shape = "whole" /\ m.settings \in Settings
      /\ m.settings.hotkey = s.hotkey /\ m.settings.url = s.url
      /\ m.settings.model = s.model /\ m.settings.fields = s.fields
      /\ m.settings.mode = MigratedMode(f.doc)
  BY MigratedIs, MigratedKeeps
<1>3. /\ s.hotkey \notin {"", "reserved"} /\ s.model # "" /\ s.url # "bad" /\ s.fields # "bad"
  BY <1>1, CleanedIs DEF Valid
<1>4. /\ c.hotkey = s.hotkey /\ c.url = s.url /\ c.model = s.model
      /\ c.mode = MigratedMode(f.doc) /\ c.fields # "bad"
  <2> DEFINE k == m.settings
  <2>1. /\ c.hotkey = IF k.hotkey = "reserved" THEN "default" ELSE k.hotkey
        /\ c.url = k.url /\ c.model = k.model /\ c.mode = k.mode
        /\ c.fields = IF k.fields = "odd" THEN "sound" ELSE k.fields
    BY <1>2, CleanedIs
  <2> HIDE DEF c, m, s
  <2> QED BY <1>2, <1>3, <2>1
<1>5. Valid(c) /\ RequiredFields(m)
  <2> HIDE DEF m, c, s
  <2> QED BY <1>2, <1>3, <1>4 DEF Valid, RequiredFields
<1>6. Outcome(f) = [ends |-> CASE f.is = "missing" -> "default"
                               [] usable           -> "loaded"
                               [] OTHER            -> "quarantined",
                    settings |-> IF usable THEN c ELSE Default,
                    stores   |-> usable /\ m.settings.hotkey = "reserved"]
  BY DEF Outcome
<1>7. Outcome(f).ends = "loaded" /\ Outcome(f).settings = c
  <2>1. usable
    BY <1>2, <1>5
  <2> HIDE DEF usable, c, m
  <2> QED BY <1>6, <2>1
<1>8. QED
  <2> HIDE DEF c, s
  <2> QED BY <1>4, <1>7 DEF s

LEMMA OutcomeIsSettings ==
    ASSUME NEW f, f.doc \in Docs PROVE Outcome(f).settings \in Settings
<1>1. Migrated(f.doc).settings \in Settings
  BY MigratedKeeps
<1>2. Default \in Settings
  BY DEF Default, Settings, Hotkeys, Urls, Models, TraceModes, Fields
<1>3. Sanitized(WithHotkey(Migrated(f.doc).settings)) \in Settings
  BY <1>1, CleanedIs
<1>4. QED
  BY <1>2, <1>3 DEF Outcome

-------------------------------------------------------------------------------
(* A file of the settings; only files of before version 9 have the flag. *)
SettingsFile(f) == /\ f.doc \in Docs
                   /\ f.doc.trace => f.doc.version < 9

(* The work of a thread. *)
Work(w) == /\ w.at \in {"idle", "read", "writes"}
           /\ w.at = "read" => SettingsFile(w.file) /\ w.job.input \in Settings
           /\ w.at = "writes" => /\ w.settings \in Settings
                                 /\ HasRoute(w.read) => w.settings.url # ""

SettingsInv ==
    /\ SettingsFile(file)
    /\ chosen.is => file = Doc(chosen.settings) /\ Usable(chosen.settings)
    /\ doing = [t \in SettingsThreads |-> doing[t]]
    /\ \A t \in SettingsThreads : Work(doing[t])

LEMMA FilesAreFiles ==
    /\ SettingsFile(NoSettings) /\ SettingsFile(TornSettings)
    /\ \A s \in Settings : SettingsFile(Doc(s))
<1>1. Default \in Settings
  BY DEF Default, Settings, Hotkeys, Urls, Models, TraceModes, Fields
<1>2. NoDoc \in Docs /\ ~NoDoc.trace
  BY <1>1 DEF NoDoc, Docs, Shapes
<1>3. SettingsFile(NoSettings) /\ SettingsFile(TornSettings)
  <2> HIDE DEF NoDoc
  <2> QED BY <1>2 DEF NoSettings, TornSettings, SettingsFile
<1>4. QED
  BY <1>3, StoredDoc DEF SettingsFile

LEMMA NoRouteThere == ~HasRoute(NoSettings)
  BY DEF HasRoute, NoSettings

LEMMA SettingsBegin == SettingsInit => SettingsInv
<1> SUFFICES ASSUME SettingsInit PROVE SettingsInv
  OBVIOUS
<1>1. SettingsFile(file)
  <2>1. ASSUME NEW d \in OldDocs PROVE d \in Docs /\ (d.trace => d.version < 9)
    BY VersionsAssumption DEF OldDocs, Docs
  <2>2. ASSUME NEW d \in OldDocs, file = [is |-> "doc", doc |-> d] PROVE SettingsFile(file)
    BY <2>1, <2>2 DEF SettingsFile
  <2> QED BY <2>2, FilesAreFiles DEF SettingsInit
<1>2. QED
  BY <1>1 DEF SettingsInit, SettingsInv, Work, Resting, NotChosen

(* One thread's work changes. *)
LEMMA WorkStep ==
    ASSUME SettingsInv, NEW t \in SettingsThreads, NEW w, Work(w),
           doing' = [doing EXCEPT ![t] = w], SettingsFile(file)',
           (chosen.is => file = Doc(chosen.settings) /\ Usable(chosen.settings))'
    PROVE  SettingsInv'
  BY DEF SettingsInv, Work, HasRoute

LEMMA ReadsStep ==
    ASSUME SettingsInv, NEW t \in SettingsThreads, LoadReads(t, Use) PROVE SettingsInv'
<1> DEFINE w == [at |-> "read", job |-> Use, file |-> file]
<1>1. Default \in Settings
  BY DEF Default, Settings, Hotkeys, Urls, Models, TraceModes, Fields
<1>2. Work(w)
  BY <1>1 DEF Work, Use, SettingsInv
<1>3. doing' = [doing EXCEPT ![t] = w] /\ UNCHANGED <<file, chosen>>
  BY DEF LoadReads
<1> HIDE DEF w
<1>4. QED
  BY <1>2, <1>3, WorkStep DEF SettingsInv, SettingsFile

LEMMA PreservedIs ==
    ASSUME NEW input \in Settings, NEW stored \in Settings
    PROVE  /\ Preserved(input, stored) \in Settings
           /\ stored.url # "" => Preserved(input, stored).url # ""
  BY DEF Preserved, Settings

LEMMA FailsStep ==
    ASSUME SettingsInv, NEW t \in SettingsThreads, LoadFails(t) PROVE SettingsInv'
<1> DEFINE w == IF doing[t].job.why = "use" THEN Resting
                ELSE Writing(doing[t].job.input, NoSettings)
<1>1. Work(Resting)
  BY DEF Work, Resting
<1>2. Work(Writing(doing[t].job.input, NoSettings))
  BY NoRouteThere DEF Work, Writing, LoadFails, SettingsInv
<1>3. doing' = [doing EXCEPT ![t] = w] /\ UNCHANGED <<file, chosen>>
  BY DEF LoadFails, SettingsInv
<1>4. Work(w)
  BY <1>1, <1>2
<1> HIDE DEF w
<1>5. QED
  BY <1>3, <1>4, WorkStep DEF SettingsInv, SettingsFile

LEMMA EndsStep ==
    ASSUME SettingsInv, NEW t \in SettingsThreads, LoadEnds(t) PROVE SettingsInv'
<1> DEFINE f == doing[t].file
           o == Outcome(f)
           p == Preserved(doing[t].job.input, o.settings)
           w == IF doing[t].job.why = "use" THEN Resting ELSE Writing(p, f)
<1>1. SettingsFile(f) /\ doing[t].job.input \in Settings
  BY DEF SettingsInv, Work, LoadEnds
<1>2. o.settings \in Settings
  BY <1>1, OutcomeIsSettings DEF SettingsFile
<1>3. Work(Resting)
  BY DEF Work, Resting
<1>4. Work(Writing(p, f))
  <2>1. p \in Settings /\ (o.settings.url # "" => p.url # "")
    BY <1>1, <1>2, PreservedIs
  <2>2. HasRoute(f) => o.settings.url # ""
    BY DEF HasRoute
  <2> HIDE DEF p, o, f
  <2> QED BY <2>1, <2>2 DEF Work, Writing
<1>5. doing' = [doing EXCEPT ![t] = w]
  BY DEF LoadEnds, SettingsInv
<1>6. file' \in {file, NoSettings, Doc(o.settings)}
      /\ chosen' = IF file' = file THEN chosen ELSE NotChosen
  BY DEF LoadEnds
<1>7. SettingsFile(file)'
  BY <1>2, <1>6, FilesAreFiles DEF SettingsInv, SettingsFile
<1>8. (chosen.is => file = Doc(chosen.settings) /\ Usable(chosen.settings))'
  BY <1>6 DEF SettingsInv, NotChosen
<1>9. Work(w)
  BY <1>3, <1>4
<1> HIDE DEF w
<1>10. QED
  BY <1>5, <1>7, <1>8, <1>9, WorkStep

LEMMA SaveBeginsStep ==
    ASSUME SettingsInv, NEW s \in Inputs, SaveBegins(s) PROVE SettingsInv'
<1> DEFINE w == IF s.url = ""
                THEN [at |-> "read", job |-> [why |-> "save", input |-> s], file |-> file]
                ELSE Writing(s, NoSettings)
<1>1. s \in Settings
  BY DEF Inputs
<1>2. Work(w)
  BY <1>1, NoRouteThere DEF Work, Writing, SettingsInv
<1>3. doing' = [doing EXCEPT ![Page] = w] /\ UNCHANGED <<file, chosen>>
  BY DEF SaveBegins
<1> HIDE DEF w
<1>4. QED
  BY <1>2, <1>3, WorkStep DEF SettingsInv, SettingsFile, SettingsThreads

LEMMA SaveWritesStep ==
    ASSUME SettingsInv, SaveWrites
    PROVE  SettingsInv' /\ (HasRoute(doing[Page].read) => HasRoute(file'))
<1> DEFINE given == doing[Page].settings
           s == Sanitized(given)
<1>0. given \in Settings
  BY DEF SettingsInv, Work, SaveWrites, SettingsThreads
<1>1. HasRoute(doing[Page].read) => given.url # ""
  BY DEF SettingsInv, Work, SaveWrites, SettingsThreads
<1>2. Valid(s) /\ file' = Doc(s) /\ chosen' = Chosen(s)
      /\ doing' = [doing EXCEPT ![Page] = Resting]
  BY DEF SaveWrites
<1>3. /\ Usable(s) /\ s \in Settings /\ s.url = given.url
  <2>1. /\ s \in Settings /\ s.url = given.url
        /\ s.fields = IF given.fields = "odd" THEN "sound" ELSE given.fields
    BY <1>0, CleanedIs
  <2> HIDE DEF s, given
  <2> QED BY <1>2, <2>1 DEF Usable
<1>4. SettingsFile(file)' /\ (chosen.is => file = Doc(chosen.settings) /\ Usable(chosen.settings))'
  <2> HIDE DEF s
  <2>1. SettingsFile(Doc(s))
    BY <1>3, FilesAreFiles
  <2>2. SettingsFile(file)'
    BY <1>2, <2>1 DEF SettingsFile
  <2>3. chosen'.settings = s
    BY <1>2 DEF Chosen
  <2> QED BY <1>2, <1>3, <2>2, <2>3 DEF Usable, Valid
<1>5. Work(Resting)
  BY DEF Work, Resting
<1>6. SettingsInv'
  BY <1>2, <1>4, <1>5, WorkStep DEF SettingsThreads
<1>7. HasRoute(doing[Page].read) => HasRoute(file')
  <2> HIDE DEF s, given
  <2>1. s.url # "" => HasRoute(file')
    BY <1>2, <1>3, StoredIsLoaded, StoredDoc DEF HasRoute
  <2> QED BY <1>1, <1>3, <2>1, Zenon
<1>8. QED
  BY <1>6, <1>7

LEMMA SettingsStep == ASSUME SettingsInv, [SettingsNext]_settingsVars PROVE SettingsInv'
<1>1. CASE SaveFails
  <2>1. Work(Resting) /\ Page \in SettingsThreads
    BY DEF Work, Resting, SettingsThreads
  <2> QED BY <1>1, <2>1, WorkStep DEF SaveFails, SettingsInv, SettingsFile
<1>2. CASE FileDamaged
  <2>1. file' = TornSettings /\ chosen' = NotChosen /\ UNCHANGED doing
    BY <1>2 DEF FileDamaged
  <2> QED BY <2>1, FilesAreFiles DEF SettingsInv, SettingsFile, NotChosen, Work, HasRoute
<1>3. CASE UNCHANGED settingsVars
  BY <1>3 DEF settingsVars, SettingsInv, SettingsFile, Work, HasRoute
<1>4. QED
  BY <1>1, <1>2, <1>3, ReadsStep, FailsStep, EndsStep, SaveBeginsStep, SaveWritesStep
  DEF SettingsNext

LEMMA SettingsHold == SettingsSpec => []SettingsInv
<1>1. SettingsInit => SettingsInv
  BY SettingsBegin
<1>2. SettingsInv /\ [SettingsNext]_settingsVars => SettingsInv'
  BY SettingsStep
<1>3. QED
  BY <1>1, <1>2, PTL DEF SettingsSpec

(* What was saved last is loaded as it was saved, unless it was damaged or an
   older file took its place. *)
THEOREM LoadGivesSaved == SettingsSpec => []SavedIsLoaded
<1>1. SettingsInv => SavedIsLoaded
  BY StoredIsLoaded DEF SettingsInv, SavedIsLoaded
<1>2. QED
  BY <1>1, SettingsHold, PTL

(* A sound file of any older version keeps its hotkey, route and model, and
   its flag becomes the trace mode. *)
THEOREM UpgradeIsFaithful == SettingsSpec => []UpgradeKeepsChoices
<1>1. SettingsInv => UpgradeKeepsChoices
  <2> SUFFICES ASSUME SettingsInv, NEW t \in SettingsThreads, doing[t].at = "read",
                      doing[t].file.is = "doc", doing[t].file.doc.shape = "whole",
                      Valid(Sanitized(doing[t].file.doc.settings))
               PROVE  LET read == doing[t].file
                          s == read.doc.settings
                          o == Outcome(read)
                      IN  /\ o.ends = "loaded"
                          /\ o.settings.hotkey = s.hotkey
                          /\ o.settings.url = s.url
                          /\ o.settings.model = s.model
                          /\ read.doc.version >= 9 => o.settings.mode = s.mode
                          /\ read.doc.trace => o.settings.mode = "full_local"
    BY DEF UpgradeKeepsChoices
  <2> DEFINE f == doing[t].file
  <2>1. f.doc \in Docs /\ (f.doc.trace => f.doc.version < 9)
    BY DEF SettingsInv, Work, SettingsFile
  <2>2. f.doc.version >= 9 => MigratedMode(f.doc) = f.doc.settings.mode
    BY DEF MigratedMode
  <2>3. f.doc.trace => MigratedMode(f.doc) = "full_local"
    <3>1. f.doc.version \in Nat
      BY <2>1 DEF Docs
    <3> HIDE DEF f
    <3> QED BY <2>1, <3>1 DEF MigratedMode
  <2> QED BY <2>1, <2>2, <2>3, UpgradedIsLoaded
<1>2. QED
  BY <1>1, SettingsHold, PTL

(* A save of settings without a URL keeps the one of the file it has read. *)
THEOREM RouteIsKept == SettingsSpec => SaveKeepsRoute
<1>1. SettingsInv /\ [SettingsNext]_settingsVars
        => [SaveWrites /\ HasRoute(doing[Page].read) => HasRoute(file')]_settingsVars
  BY SaveWritesStep
<1>2. QED
  BY <1>1, SettingsHold, PTL DEF SettingsSpec, SaveKeepsRoute

-------------------------------------------------------------------------------
(***************************************************************************)
(* Reports: one for each interview, with all its questions, for any number *)
(* of sessions and questions and every retention.                          *)
(***************************************************************************)

Reports == [id : Nat, ended : Nat, questions : Seq(Nat)]

Once(list) == \A i, j \in 1 .. Len(list) : list[i].id = list[j].id => i = j

\* Retention keeps every fresh report, adds none, and keeps their ids apart.
LEMMA RetainedIs ==
    ASSUME NEW list \in Seq(Reports)
    PROVE  /\ Retained(list) \in Seq(Reports)
           /\ ToSet(Retained(list)) \subseteq ToSet(list)
           /\ \A r \in ToSet(list) : Fresh(r) => r \in ToSet(Retained(list))
           /\ Once(list) => Once(Retained(list))
<1> DEFINE n == Len(list)
           Grown(v, i) == IF Fresh(list[i]) THEN Append(v, list[i]) ELSE v
           V == Seq(Reports)
           grow == [i \in 1 .. n |-> [v \in V |-> Grown(v, i)]]
           Body(f) == [i \in 0 .. n |-> IF i = 0 THEN <<>> ELSE Grown(f[i - 1], i)]
           kept == CHOOSE f : f = Body(f)
<1>1. n \in Nat /\ \A i \in 1 .. n : list[i] \in Reports
  OBVIOUS
<1>2. grow \in [1 .. n -> [V -> V]] /\ <<>> \in V
  BY <1>1
<1>3. \A i \in 1 .. n, v \in V : grow[i][v] = Grown(v, i)
  OBVIOUS
<1>4. PICK g : Builds(g, n, V, <<>>, grow)
  <2> HIDE DEF grow, n, V
  <2> QED BY <1>1, <1>2, PrefixRecursion
<1>5. g = Body(g)
  <2> HIDE DEF grow
  <2>1. g \in [0 .. n -> V] /\ g[0] = <<>> /\ \A i \in 1 .. n : g[i] = grow[i][g[i - 1]]
    BY <1>4 DEF Builds
  <2>2. \A i \in 1 .. n : i - 1 \in 0 .. n /\ g[i - 1] \in V
    <3> HIDE DEF V, n
    <3>1. \A i \in 1 .. n : i - 1 \in 0 .. n
      BY <1>1
    <3> QED BY <2>1, <3>1, Zenon
  <2>3. \A i \in 1 .. n : g[i] = Grown(g[i - 1], i)
    BY <1>3, <2>1, <2>2
  <2> HIDE DEF Grown, V, n
  <2> QED BY <1>1, <2>1, <2>3
<1>6. kept = Body(kept)
  <2> HIDE DEF Body
  <2> QED BY <1>5
<1>7. Retained(list) = kept[n]
  BY DEF Retained
<1>8. kept[0] = <<>> /\ \A i \in 1 .. n : kept[i] = Grown(kept[i - 1], i)
  <2> HIDE DEF kept, Grown
  <2> QED BY <1>1, <1>6
<1> HIDE DEF kept, grow, Body
<1> DEFINE From(v, i) == /\ v \in V
                         /\ \A m \in 1 .. Len(v) : \E k \in 1 .. i : v[m] = list[k]
                         /\ \A k \in 1 .. i : Fresh(list[k]) => \E m \in 1 .. Len(v) : v[m] = list[k]
                         /\ Once(list) => Once(v)
           S == {i \in 0 .. n : From(kept[i], i)}
<1>9. 0 \in S
  <2>1. From(<<>>, 0)
    BY DEF Once
  <2>2. 0 \in 0 .. n
    BY <1>1
  <2> HIDE DEF From
  <2> QED BY <1>8, <2>1, <2>2
<1>10. ASSUME NEW i \in 1 .. n, i - 1 \in S PROVE i \in S
  <2> DEFINE v == kept[i - 1]
             w == Append(v, list[i])
  <2>1. From(v, i - 1)
    BY <1>10
  <2>2. kept[i] = IF Fresh(list[i]) THEN w ELSE v
    BY <1>8
  <2> HIDE DEF v
  <2>3. ASSUME ~Fresh(list[i]) PROVE From(v, i)
    BY <1>1, <2>1, <2>3
  <2>4. From(w, i)
    <3>1. /\ w \in V /\ Len(w) = Len(v) + 1 /\ w[Len(v) + 1] = list[i]
          /\ Len(v) \in Nat
          /\ \A m \in 1 .. Len(v) : w[m] = v[m]
      BY <1>1, <2>1
    <3> HIDE DEF w
    <3>2. ASSUME NEW m \in 1 .. Len(w) PROVE \E k \in 1 .. i : w[m] = list[k]
      <4>1. CASE m = Len(v) + 1
        BY <3>1, <4>1
      <4>2. CASE m # Len(v) + 1
        <5>1. m \in 1 .. Len(v)
          BY <3>1, <4>2
        <5>2. PICK k \in 1 .. (i - 1) : v[m] = list[k]
          BY <2>1, <5>1
        <5> QED BY <3>1, <5>1, <5>2
      <4> QED BY <4>1, <4>2
    <3>3. ASSUME NEW k \in 1 .. i, Fresh(list[k]) PROVE \E m \in 1 .. Len(w) : w[m] = list[k]
      <4>1. CASE k = i
        BY <3>1, <4>1
      <4>2. CASE k # i
        <5>1. k \in 1 .. (i - 1)
          BY <4>2
        <5>2. PICK m \in 1 .. Len(v) : v[m] = list[k]
          BY <2>1, <3>3, <5>1
        <5> QED BY <3>1, <5>2
      <4> QED BY <4>1, <4>2
    <3>4. ASSUME Once(list), NEW a \in 1 .. Len(w), NEW b \in 1 .. Len(w), w[a].id = w[b].id
          PROVE  a = b
      <4>1. \A m \in 1 .. Len(v) : v[m].id # list[i].id
        <5> TAKE m \in 1 .. Len(v)
        <5>1. PICK k \in 1 .. (i - 1) : v[m] = list[k]
          BY <2>1
        <5>2. k # i /\ k \in 1 .. n /\ i \in 1 .. n
          BY <1>1
        <5> QED BY <3>4, <5>1, <5>2 DEF Once
      <4>2. Once(v)
        BY <2>1, <3>4
      <4>3. CASE a \in 1 .. Len(v) /\ b \in 1 .. Len(v)
        BY <3>1, <3>4, <4>2, <4>3 DEF Once
      <4>4. CASE a = Len(v) + 1 /\ b \in 1 .. Len(v)
        BY <3>1, <3>4, <4>1, <4>4
      <4>5. CASE b = Len(v) + 1 /\ a \in 1 .. Len(v)
        BY <3>1, <3>4, <4>1, <4>5
      <4> QED BY <3>1, <4>3, <4>4, <4>5
    <3>5. Once(list) => Once(w)
      BY <3>4 DEF Once
    <3> QED BY <3>1, <3>2, <3>3, <3>5
  <2>5. From(kept[i], i)
    <3> HIDE DEF From, w
    <3> QED BY <2>2, <2>3, <2>4
  <2>6. i \in 0 .. n
    BY <1>1
  <2> HIDE DEF From
  <2> QED BY <2>5, <2>6
<1>11. From(kept[n], n)
  <2>1. n \in S
    <3> HIDE DEF S
    <3>1. \A i \in 1 .. n : i - 1 \in S => i \in S
      BY <1>10
    <3>2. 0 .. n \subseteq S
      BY <1>1, <1>9, <3>1, UpTo
    <3> QED BY <1>1, <3>2
  <2> HIDE DEF From
  <2> QED BY <2>1
<1>12. /\ Retained(list) = kept[n]
       /\ kept[n] \in Seq(Reports) /\ (Once(list) => Once(kept[n]))
       /\ DOMAIN kept[n] = 1 .. Len(kept[n]) /\ DOMAIN list = 1 .. n
  BY <1>1, <1>7, <1>11
<1>13. ToSet(kept[n]) \subseteq ToSet(list)
  BY <1>11, <1>12 DEF ToSet
<1>14. \A r \in ToSet(list) : Fresh(r) => r \in ToSet(kept[n])
  BY <1>11, <1>12 DEF ToSet
<1>15. QED
  BY <1>12, <1>13, <1>14

-------------------------------------------------------------------------------
(* What the file holds, the session in memory, and a report that is saved
   while its session is not reset yet. *)
ReportsType ==
    /\ reports.list \in Seq(Reports)
    /\ ~Readable => reports.list = <<>>
    /\ retention \in Nat /\ today \in Nat /\ sessions \in Nat /\ asked \in Nat
    /\ session \in [active : BOOLEAN, id : Nat, questions : Seq(Nat)]

(* The ids of the reports are apart, of interviews begun, and not of the one
   that goes on. *)
IdsInv ==
    /\ Once(reports.list)
    /\ \A r \in ToSet(reports.list) : r.id <= sessions
    /\ session.active => session.id <= sessions
    /\ session.active /\ ending = <<>> => \A r \in ToSet(reports.list) : r.id # session.id

(* While an interview is being ended it is as its report has it, of today, in
   the file or in one that was damaged. *)
EndingInv ==
    ending # <<>> => /\ session.active
                     /\ Report \in ToSet(reports.list) \cup lost

ReportsInv == ReportsType /\ IdsInv /\ EndingInv

LEMMA ReportsBegin == ReportsInit => ReportsInv
  BY ReportsBoundsAssumption
  DEF ReportsInit, ReportsInv, ReportsType, IdsInv, EndingInv, NoSession, NoReports, Once,
      ToSet, Readable

(* Retention keeps the ids apart, *)
LEMMA RetentionKeeps ==
    ASSUME ReportsInv, EnforceRetention(reports.list)
    PROVE  /\ reports'.list = Retained(reports.list)
           /\ reports'.list \in Seq(Reports)
           /\ Once(reports'.list)
           /\ ToSet(reports'.list) \subseteq ToSet(reports.list)
           /\ reports'.is = "torn" => reports'.list = <<>>
<1>1. reports'.list = Retained(reports.list)
  BY DEF EnforceRetention, ReportsFile
<1>2. reports'.is = "torn" => reports' = reports
  BY DEF EnforceRetention, ReportsFile
<1>3. reports.list \in Seq(Reports) /\ Once(reports.list)
  BY DEF ReportsInv, ReportsType, IdsInv
<1>4. QED
  BY <1>1, <1>2, <1>3, RetainedIs DEF ReportsInv, ReportsType, Readable

(* and so does the report of an interview that has none yet. *)
LEMMA AppendedIs ==
    ASSUME NEW list \in Seq(Reports), Once(list), NEW r \in Reports,
           \A q \in ToSet(list) : q.id # r.id
    PROVE  /\ Append(list, r) \in Seq(Reports)
           /\ Once(Append(list, r))
           /\ ToSet(Append(list, r)) = ToSet(list) \cup {r}
<1> DEFINE w == Append(list, r)
<1>1. /\ w \in Seq(Reports) /\ Len(w) = Len(list) + 1 /\ Len(list) \in Nat
      /\ w[Len(list) + 1] = r /\ DOMAIN w = 1 .. Len(w) /\ DOMAIN list = 1 .. Len(list)
      /\ \A i \in 1 .. Len(list) : w[i] = list[i]
  OBVIOUS
<1> HIDE DEF w
<1>2. \A i \in 1 .. Len(list) : list[i].id # r.id
  BY <1>1 DEF ToSet
<1>3. ASSUME NEW i \in 1 .. Len(w), NEW j \in 1 .. Len(w), w[i].id = w[j].id PROVE i = j
  <2>1. CASE i \in 1 .. Len(list) /\ j \in 1 .. Len(list)
    BY <1>1, <1>3, <2>1 DEF Once
  <2>2. CASE i = Len(list) + 1 /\ j \in 1 .. Len(list)
    BY <1>1, <1>2, <1>3, <2>2
  <2>3. CASE j = Len(list) + 1 /\ i \in 1 .. Len(list)
    BY <1>1, <1>2, <1>3, <2>3
  <2> QED BY <1>1, <2>1, <2>2, <2>3
<1>4. ToSet(w) = ToSet(list) \cup {r}
  <2>1. \A q : q \in ToSet(w) <=> \E i \in 1 .. Len(w) : w[i] = q
    BY <1>1 DEF ToSet
  <2>2. \A q : q \in ToSet(list) <=> \E i \in 1 .. Len(list) : list[i] = q
    BY <1>1 DEF ToSet
  <2>3. ASSUME NEW q \in ToSet(w) PROVE q \in ToSet(list) \cup {r}
    <3>1. PICK i \in 1 .. Len(w) : w[i] = q
      BY <2>1
    <3>2. i \in 1 .. Len(list) \/ i = Len(list) + 1
      BY <1>1
    <3> QED BY <1>1, <2>2, <3>1, <3>2
  <2>4. r \in ToSet(w)
    BY <1>1, <2>1
  <2>5. ASSUME NEW q \in ToSet(list) PROVE q \in ToSet(w)
    <3>1. PICK i \in 1 .. Len(list) : list[i] = q
      BY <2>2
    <3>2. i \in 1 .. Len(w) /\ w[i] = q
      BY <1>1, <3>1
    <3> QED BY <2>1, <3>2
  <2> QED BY <2>3, <2>4, <2>5
<1>5. QED
  BY <1>1, <1>3, <1>4 DEF Once, w

(* One lemma for each command that changes the file. *)
LEMMA StartKeeps == ASSUME ReportsInv, StartSession PROVE ReportsInv'
<1>1. EnforceRetention(reports.list)
  BY DEF StartSession
<1>2. session' = [active |-> TRUE, id |-> sessions + 1, questions |-> <<>>]
      /\ sessions' = sessions + 1 /\ sessions \in Nat
      /\ ending' = <<>> /\ UNCHANGED <<retention, today, asked, lost>>
  BY DEF StartSession, ReportsInv, ReportsType
<1>3. \A r \in ToSet(reports'.list) : r.id <= sessions /\ r.id \in Nat
  <2>1. \A r \in ToSet(reports.list) : r \in Reports
    BY DEF ToSet, ReportsInv, ReportsType
  <2> QED BY <1>1, <2>1, RetentionKeeps DEF ReportsInv, IdsInv, Reports
<1>4. ReportsType'
  BY <1>1, <1>2, RetentionKeeps DEF ReportsInv, ReportsType, Readable
<1>5. IdsInv'
  BY <1>1, <1>2, <1>3, RetentionKeeps DEF IdsInv
<1>6. EndingInv'
  BY <1>2 DEF EndingInv
<1>7. QED
  BY <1>4, <1>5, <1>6 DEF ReportsInv

LEMMA SaveKeeps == ASSUME ReportsInv, SaveReport PROVE ReportsInv'
<1>1. /\ session.active /\ ending = <<>> /\ ending' = <<Report>> /\ ending' # <<>>
      /\ reports' = ReportsFile(Append(reports.list, Report))
      /\ UNCHANGED <<session, retention, today, asked, sessions, lost>>
  BY DEF SaveReport
<1>2. Report \in Reports /\ Report.id = session.id /\ Report' = Report
  BY <1>1 DEF Report, Reports, ReportsInv, ReportsType
<1>3. \A q \in ToSet(reports.list) : q.id # Report.id
  BY <1>1, <1>2 DEF ReportsInv, IdsInv
<1>4. /\ reports'.list \in Seq(Reports) /\ Once(reports'.list)
      /\ ToSet(reports'.list) = ToSet(reports.list) \cup {Report}
      /\ reports'.is = "store"
  <2> HIDE DEF Report
  <2> QED BY <1>1, <1>2, <1>3, AppendedIs DEF ReportsInv, ReportsType, IdsInv, ReportsFile
<1>5. ReportsType'
  BY <1>1, <1>4 DEF ReportsInv, ReportsType, Readable
<1>6. IdsInv'
  BY <1>1, <1>2, <1>4 DEF ReportsInv, IdsInv
<1>7. EndingInv'
  BY <1>1, <1>2, <1>4 DEF EndingInv
<1>8. QED
  BY <1>5, <1>6, <1>7 DEF ReportsInv

(* The session is reset, and the retention may or may not run. *)
LEMMA EndKeeps == ASSUME ReportsInv, EndSession PROVE ReportsInv'
<1>1. /\ session' = NoSession /\ ending' = <<>>
      /\ EnforceRetention(reports.list) \/ UNCHANGED reports
      /\ UNCHANGED <<retention, today, asked, sessions, lost>>
  BY DEF EndSession
<1>2. /\ reports'.list \in Seq(Reports) /\ Once(reports'.list)
      /\ ToSet(reports'.list) \subseteq ToSet(reports.list)
      /\ reports'.is = "torn" => reports'.list = <<>>
  BY <1>1, RetentionKeeps DEF ReportsInv, ReportsType, IdsInv, Readable
<1>3. QED
  BY <1>1, <1>2
  DEF ReportsInv, ReportsType, IdsInv, EndingInv, NoSession, Readable

LEMMA GetKeeps == ASSUME ReportsInv, GetReport PROVE ReportsInv'
<1>1. /\ ending = <<>>
      /\ EnforceRetention(reports.list)
      /\ UNCHANGED <<session, ending, retention, today, asked, sessions, lost>>
  BY DEF GetReport
<1>2. QED
  BY <1>1, RetentionKeeps DEF ReportsInv, ReportsType, IdsInv, EndingInv, Readable

LEMMA ReportsStep == ASSUME ReportsInv, [ReportsNext]_reportVars PROVE ReportsInv'
<1>1. CASE AppendQuestion
  <2>0. Append(session.questions, asked + 1) \in Seq(Nat)
    BY DEF ReportsInv, ReportsType
  <2>1. session' \in [active : BOOLEAN, id : Nat, questions : Seq(Nat)]
        /\ session'.active = session.active /\ session'.id = session.id
    BY <1>1, <2>0 DEF AppendQuestion, ReportsInv, ReportsType
  <2>2. asked' \in Nat
    BY <1>1 DEF AppendQuestion, ReportsInv, ReportsType
  <2>3. ending = <<>> /\ UNCHANGED <<reports, ending, retention, today, sessions, lost>>
    BY <1>1 DEF AppendQuestion
  <2>4. ReportsType' /\ IdsInv'
    BY <2>1, <2>2, <2>3 DEF ReportsInv, ReportsType, IdsInv, Readable
  <2>5. EndingInv'
    BY <2>3 DEF EndingInv
  <2> QED BY <2>4, <2>5 DEF ReportsInv
<1>2. CASE ClearReports
  BY <1>2 DEF ClearReports, ReportsInv, ReportsType, IdsInv, EndingInv, NoSession, NoReports,
      Once, ToSet, Readable
<1>3. CASE SetRetention
  BY <1>3, ReportsBoundsAssumption
  DEF SetRetention, ReportsInv, ReportsType, IdsInv, EndingInv, Readable
<1>4. CASE DayPasses
  BY <1>4 DEF DayPasses, ReportsInv, ReportsType, IdsInv, EndingInv, Readable
<1>5. CASE AppCrashes
  BY <1>5 DEF AppCrashes, ReportsInv, ReportsType, IdsInv, EndingInv, NoSession, Readable
<1>6. CASE ReportsDamaged
  <2>1. /\ reports' = TornReports /\ lost' = lost \cup ToSet(reports.list)
        /\ UNCHANGED <<session, ending, retention, today, asked, sessions>>
    BY <1>6 DEF ReportsDamaged
  <2>2. Report' = Report
    BY <2>1 DEF Report
  <2> QED BY <2>1, <2>2 DEF ReportsInv, ReportsType, IdsInv, EndingInv, TornReports, Once, ToSet,
      Readable
<1>7. CASE UNCHANGED reportVars
  BY <1>7 DEF reportVars, ReportsInv, ReportsType, IdsInv, EndingInv, Readable, Report
<1>8. QED
  BY <1>1, <1>2, <1>3, <1>4, <1>5, <1>6, <1>7, StartKeeps, SaveKeeps, EndKeeps, GetKeeps
  DEF ReportsNext, SaveReportFails

LEMMA ReportsHold == ReportsSpec => []ReportsInv
<1>1. ReportsInit => ReportsInv
  BY ReportsBegin
<1>2. ReportsInv /\ [ReportsNext]_reportVars => ReportsInv'
  BY ReportsStep
<1>3. QED
  BY <1>1, <1>2, PTL DEF ReportsSpec

(* However the saves, the retention and the reset of an ending fail, and
   whatever is started, cleared or lost meanwhile, no interview gets a second
   report. *)
THEOREM OneReportEach == ReportsSpec => []ReportedOnce
<1>1. ReportsInv => ReportedOnce
  BY DEF ReportsInv, IdsInv, Once, ReportedOnce
<1>2. QED
  BY <1>1, ReportsHold, PTL

(* A session that leaves the memory when an interview ends leaves all its
   questions in a report, which the retention of that same command keeps. *)
THEOREM NoQuestionLost == ReportsSpec => QuestionsReported
<1> DEFINE Leaves == session.active /\ session' = NoSession /\ ~AppCrashes /\ ~ClearReports
           Kept == \E r \in ToSet(reports'.list) \cup lost' :
                       r.id = session.id /\ r.questions = session.questions
<1>1. ASSUME ReportsInv, [ReportsNext]_reportVars, Leaves PROVE Kept
  <2>1. session' # session /\ ~session'.active
    BY <1>1 DEF NoSession
  <2>2. ~(StartSession \/ AppendQuestion)
    <3>1. ~StartSession
      BY <2>1 DEF StartSession
    <3>2. ~AppendQuestion
      BY <1>1, <2>1 DEF AppendQuestion, ReportsInv, ReportsType
    <3> QED BY <3>1, <3>2
  <2>3. EndSession
    BY <1>1, <2>1, <2>2 DEF ReportsNext, reportVars, SaveReport, SaveReportFails, GetReport,
       SetRetention, DayPasses, ReportsDamaged
  <2>4. Report \in ToSet(reports.list) \cup lost /\ lost' = lost
    BY <1>1, <2>3 DEF EndSession, ReportsInv, EndingInv
  <2>5. Fresh(Report)
    BY <1>1 DEF Fresh, Report, ReportsInv, ReportsType
  <2>6. Report \in ToSet(reports.list) => Report \in ToSet(reports'.list)
    <3>1. CASE UNCHANGED reports
      BY <3>1
    <3>2. CASE EnforceRetention(reports.list)
      <4>1. reports'.list = Retained(reports.list) /\ reports.list \in Seq(Reports)
        BY <1>1, <3>2, RetentionKeeps DEF ReportsInv, ReportsType
      <4> QED BY <2>5, <4>1, RetainedIs
    <3> QED BY <2>3, <3>1, <3>2 DEF EndSession
  <2>7. Report.id = session.id /\ Report.questions = session.questions
    BY DEF Report
  <2>8. Report \in ToSet(reports'.list) \cup lost'
    <3> HIDE DEF Report
    <3> QED BY <2>4, <2>6
  <2> QED BY <2>7, <2>8
<1>2. ReportsInv /\ [ReportsNext]_reportVars => [Leaves => Kept]_reportVars
  BY <1>1
<1>3. QED
  BY <1>2, ReportsHold, PTL DEF ReportsSpec, QuestionsReported

-------------------------------------------------------------------------------
(***************************************************************************)
(* Packs: at most one is active, in every file, backup and store in        *)
(* memory, for any number of packs, of app instances and of pipelines; and *)
(* one instance loses none that it does not delete.                        *)
(***************************************************************************)

USE PacksBoundsAssumption

LEMMA DeactivatedIsStore == ASSUME NEW store \in Stores PROVE Deactivated(store) \in Stores
<1>1. ASSUME NEW p \in store PROVE [id |-> p.id, active |-> FALSE] \in Packs
  <2>1. p.id \in PackIds
    BY DEF Stores, Packs
  <2> QED
    BY <2>1 DEF Packs
<1> QED
  BY <1>1 DEF Deactivated, Stores

LEMMA ResultIsStore ==
  ASSUME NEW o \in Operations, NEW store \in Stores, o.op # "list"
  PROVE  Result(o, store) \in Stores
<1>1. Deactivated(store) \in Stores
  BY DeactivatedIsStore
<1>2. ASSUME NEW id PROVE Without(store, id) \in Stores
                          /\ Deactivated(Without(store, id)) \in Stores
  BY DeactivatedIsStore DEF Without, Stores
<1>3. CASE o.op = "save"
  <2>1. o.pack \in Packs
    BY <1>3 DEF Operations
  <2>2. Saved(store, o.pack) \in Stores
    BY <2>1, <1>2 DEF Saved, Stores
  <2> QED
    BY <1>3, <2>2 DEF Result
<1>4. CASE o.op \in {"delete", "activate"}
  <2>1. o.id \in PackIds
    BY <1>4 DEF Operations
  <2>2. [id |-> o.id, active |-> TRUE] \in Packs
    BY <2>1 DEF Packs
  <2>3. Activated(store, o.id) \in Stores
    BY <2>1, <2>2, <1>2 DEF Activated, Stores
  <2> QED
    BY <1>4, <2>1, <2>3, <1>2 DEF Result
<1>5. CASE o.op = "deactivate"
  BY <1>1, <1>5 DEF Result
<1> QED
  BY <1>3, <1>4, <1>5 DEF Operations

LEMMA EmptyKept == WellKept(EmptyStore) /\ EmptyStore \in Stores
  BY DEF WellKept, EmptyStore, Stores

LEMMA WithoutKept ==
  ASSUME NEW store \in Stores, WellKept(store), NEW id
  PROVE  /\ WellKept(Without(store, id))
         /\ Without(store, id) \in Stores
         /\ id \notin Ids(Without(store, id))
  BY DEF WellKept, Without, Ids, Stores

(* Deactivating keeps the ids apart and leaves no pack active. *)
LEMMA DeactivatedKept ==
  ASSUME NEW store \in Stores, WellKept(store)
  PROVE  /\ WellKept(Deactivated(store))
         /\ \A p \in Deactivated(store) : ~p.active
         /\ Ids(Deactivated(store)) = Ids(store)
         /\ Deactivated(store) \in Stores
<1>3. \A q \in Deactivated(store) : \E p \in store : q = [id |-> p.id, active |-> FALSE]
  BY DEF Deactivated
<1>4. \A p \in Deactivated(store) : ~p.active
  BY <1>3
<1>5. Deactivated(store) \in Stores
  BY DeactivatedIsStore
<1>6. Ids(Deactivated(store)) = Ids(store)
  <2>1. \A p \in store : [id |-> p.id, active |-> FALSE] \in Deactivated(store)
    BY DEF Deactivated
  <2>2. \A id : id \in Ids(store) <=> id \in Ids(Deactivated(store))
    <3>1. ASSUME NEW p \in store PROVE p.id \in Ids(Deactivated(store))
      <4>1. [id |-> p.id, active |-> FALSE].id = p.id
        OBVIOUS
      <4> QED
        BY <2>1, <4>1 DEF Ids
    <3>2. ASSUME NEW q \in Deactivated(store) PROVE q.id \in Ids(store)
      BY <1>3 DEF Ids
    <3> QED
      BY <3>1, <3>2 DEF Ids
  <2> QED
    BY <2>2
<1>7. WellKept(Deactivated(store))
  <2> SUFFICES ASSUME NEW p \in Deactivated(store), NEW q \in Deactivated(store), p.id = q.id
               PROVE  p = q
    BY <1>4 DEF WellKept
  <2>1. PICK a \in store : p = [id |-> a.id, active |-> FALSE]
    BY <1>3
  <2>2. PICK b \in store : q = [id |-> b.id, active |-> FALSE]
    BY <1>3
  <2> QED
    BY <2>1, <2>2
<1> QED
  BY <1>4, <1>5, <1>6, <1>7

(* One pack more, with an id of its own and active only when no other is. *)
LEMMA AddedKept ==
  ASSUME NEW store, WellKept(store), NEW pack \in Packs, pack.id \notin Ids(store),
         pack.active => \A p \in store : ~p.active
  PROVE  WellKept(store \cup {pack})
  BY DEF WellKept, Ids

LEMMA ResultKept ==
  ASSUME NEW o \in Operations, NEW store \in Stores, WellKept(store), o.op # "list"
  PROVE  WellKept(Result(o, store))
<1>1. CASE o.op = "save"
  <2>1. o.pack \in Packs
    BY <1>1 DEF Operations
  <2> DEFINE rest == Without(store, o.pack.id)
  <2>2. WellKept(rest) /\ rest \in Stores /\ o.pack.id \notin Ids(rest)
    BY WithoutKept
  <2>3. CASE o.pack.active
    <3>1. WellKept(Deactivated(rest) \cup {o.pack})
      <4> HIDE DEF rest
      <4> QED
        BY <2>1, <2>2, DeactivatedKept, AddedKept
    <3> QED
      BY <1>1, <2>3, <3>1 DEF Result, Saved
  <2>4. CASE ~o.pack.active
    <3>1. WellKept(rest \cup {o.pack})
      <4> HIDE DEF rest
      <4> QED
        BY <2>1, <2>2, <2>4, AddedKept
    <3> QED
      BY <1>1, <2>4, <3>1 DEF Result, Saved
  <2> QED
    BY <2>3, <2>4
<1>2. CASE o.op = "delete"
  BY <1>2, WithoutKept DEF Result
<1>3. CASE o.op = "activate"
  <2>1. o.id \in PackIds
    BY <1>3 DEF Operations
  <2> DEFINE rest == Without(store, o.id)
             pack == [id |-> o.id, active |-> TRUE]
  <2>2. WellKept(rest) /\ rest \in Stores /\ o.id \notin Ids(rest)
    BY WithoutKept
  <2>3. pack \in Packs /\ pack.id = o.id
    BY <2>1 DEF Packs
  <2>4. WellKept(Deactivated(rest) \cup {pack})
    <3> HIDE DEF rest, pack
    <3> QED
      BY <2>2, <2>3, DeactivatedKept, AddedKept
  <2> QED
    BY <1>3, <2>4 DEF Result, Activated
<1>4. CASE o.op = "deactivate"
  BY <1>4, DeactivatedKept DEF Result
<1> QED
  BY <1>1, <1>2, <1>3, <1>4 DEF Operations
-------------------------------------------------------------------------------
LEMMA PacksInitTyped == PacksInit => PacksTypeOK
  BY PacksBoundsAssumption DEF PacksInit, PacksTypeOK, NoFile, EmptyStore, Files, Stores, Idle, Threads

Jobs == {Idle} \cup [at : {"quarantine"}, op : Operations]
             \cup [at : {"loaded"}, op : Operations, store : Stores]

LEMMA QuarantineJob == ASSUME NEW o \in Operations PROVE [at |-> "quarantine", op |-> o] \in Jobs
  BY DEF Jobs

LEMMA LoadedJob ==
  ASSUME NEW o \in Operations, NEW store \in Stores
  PROVE  [at |-> "loaded", op |-> o, store |-> store] \in Jobs
  BY DEF Jobs

LEMMA JobsAre ==
  ASSUME NEW j \in Jobs
  PROVE  /\ j.at = "quarantine" => j.op \in Operations
         /\ j.at = "loaded" => j.op \in Operations /\ j.store \in Stores
  BY DEF Jobs, Idle

LEMMA FilesAre ==
  /\ NoFile \in Files /\ Damaged \in Files
  /\ \A store \in Stores : File(store) \in Files
  /\ \A f \in Files : f.store \in Stores
  BY DEF Files, NoFile, Damaged, File, Stores, EmptyStore

LEMMA StartsTyped ==
  ASSUME PacksTypeOK, NEW t \in Threads, NEW o \in Operations, Starts(t, o)
  PROVE  PacksTypeOK'
<1>1. task \in [Threads -> Jobs]
  BY DEF PacksTypeOK, Jobs
<1>2. packsFile.store \in Stores /\ EmptyStore \in Stores
  BY FilesAre, EmptyKept DEF PacksTypeOK
<1>3. faults' \in 0 .. MaxFaults
  BY DEF Starts, ReadInto, PacksTypeOK
<1>4. PICK j \in Jobs : task' = [task EXCEPT ![t] = j]
  BY <1>2, QuarantineJob, LoadedJob DEF Starts, ReadInto, Loads
<1>5. task' \in [Threads -> Jobs]
  BY <1>1, <1>4
<1> QED
  BY <1>3, <1>5 DEF PacksTypeOK, Starts, Jobs

LEMMA QuarantineTyped ==
  ASSUME PacksTypeOK, NEW t \in Threads, Quarantine(t) PROVE PacksTypeOK'
<1>1. task \in [Threads -> Jobs] /\ task[t].op \in Operations
  BY JobsAre DEF PacksTypeOK, Jobs, Quarantine
<1>2. task' \in [Threads -> Jobs]
  BY <1>1, LoadedJob, EmptyKept DEF Quarantine, Loads
<1>3. Ids(backups[second].store) \subseteq PackIds
  BY FilesAre DEF PacksTypeOK, Ids, Stores, Packs
<1>4. packsFile' \in Files /\ backups' \in [0 .. MaxSeconds -> Files] /\ clobbered' \subseteq PackIds
  BY <1>3, FilesAre DEF PacksTypeOK, Quarantine
<1> QED
  BY <1>2, <1>4 DEF PacksTypeOK, Quarantine, Jobs

LEMMA CommandSavesTyped ==
  ASSUME PacksTypeOK, NEW t \in Threads, CommandSaves(t) PROVE PacksTypeOK'
<1>1. task \in [Threads -> Jobs] /\ task[t].op \in Operations /\ task[t].store \in Stores
  BY JobsAre DEF PacksTypeOK, Jobs, CommandSaves
<1>2. Result(task[t].op, task[t].store) \in Stores
  BY <1>1, ResultIsStore DEF CommandSaves, Saves
<1>3. packsFile' \in Files
  BY <1>2, FilesAre DEF CommandSaves
<1>4. task' \in [Threads -> Jobs]
  BY <1>1 DEF CommandSaves, Loads, Jobs
<1>5. owned' \subseteq PackIds
  BY <1>1 DEF CommandSaves, OwnedAfter, Operations, Packs, PacksTypeOK
<1> QED
  BY <1>3, <1>4, <1>5 DEF PacksTypeOK, CommandSaves, Jobs

LEMMA PacksNextTyped == ASSUME PacksTypeOK, [PacksNext]_packVars PROVE PacksTypeOK'
<1>1. CASE Corrupts
  BY <1>1, FilesAre DEF PacksTypeOK, Corrupts
<1>2. CASE Ticks
  BY <1>2 DEF PacksTypeOK, Ticks
<1>3. ASSUME NEW t \in MainThreads, NEW o \in Operations, Starts(t, o) PROVE PacksTypeOK'
  BY <1>3, StartsTyped DEF Threads
<1>4. ASSUME NEW t \in Pipelines, Starts(t, [op |-> "list"]) PROVE PacksTypeOK'
  BY <1>4, StartsTyped DEF Threads, Operations
<1>5. ASSUME NEW t \in Threads, Quarantine(t) \/ CommandSaves(t) \/ Ends(t) PROVE PacksTypeOK'
  BY <1>5, QuarantineTyped, CommandSavesTyped DEF Ends, Loads, PacksTypeOK
<1>6. CASE UNCHANGED packVars
  BY <1>6 DEF PacksTypeOK, packVars
<1> QED
  BY <1>1, <1>2, <1>3, <1>4, <1>5, <1>6 DEF PacksNext

LEMMA PacksTyped == PacksSpec => []PacksTypeOK
<1>1. PacksInit => PacksTypeOK
  BY PacksInitTyped
<1>2. PacksTypeOK /\ [PacksNext]_packVars => PacksTypeOK'
  BY PacksNextTyped
<1> QED
  BY <1>1, <1>2, PTL DEF PacksSpec

-------------------------------------------------------------------------------
LEMMA PacksInitKept == PacksInit => OneActivePack
  BY EmptyKept DEF PacksInit, OneActivePack, NoFile, Idle

LEMMA PacksNextKept ==
  ASSUME PacksTypeOK, OneActivePack, [PacksNext]_packVars PROVE OneActivePack'
<1>1. CASE Corrupts
  BY <1>1, EmptyKept DEF OneActivePack, Corrupts, Damaged
<1>2. CASE Ticks
  BY <1>2 DEF OneActivePack, Ticks
<1>3. ASSUME NEW t \in Threads, NEW o \in Operations, Starts(t, o) PROVE OneActivePack'
  <2>1. \/ task'[t].at = "loaded" /\ task'[t].store \in {EmptyStore, packsFile.store}
        \/ task'[t].at = "quarantine"
    BY <1>3 DEF Starts, ReadInto, Loads, PacksTypeOK
  <2>2. \A u \in Threads : u # t => task'[u] = task[u]
    BY <1>3 DEF Starts, ReadInto, Loads, PacksTypeOK
  <2> QED
    BY <1>3, <2>1, <2>2, EmptyKept DEF OneActivePack, Starts
<1>4. ASSUME NEW t \in Threads, Quarantine(t) PROVE OneActivePack'
  <2>1. \A u \in Threads : task'[u].at = "loaded" =>
              WellKept(task'[u].store)
    BY <1>4, EmptyKept DEF OneActivePack, Quarantine, Loads, PacksTypeOK
  <2>2. WellKept(packsFile'.store) /\ \A s \in 0 .. MaxSeconds : WellKept(backups'[s].store)
    BY <1>4, EmptyKept DEF OneActivePack, Quarantine, PacksTypeOK, NoFile
  <2> QED
    BY <2>1, <2>2 DEF OneActivePack
<1>5. ASSUME NEW t \in Threads, CommandSaves(t) PROVE OneActivePack'
  <2>1. task[t].op \in Operations /\ task[t].store \in Stores
    BY <1>5, JobsAre DEF PacksTypeOK, Jobs, CommandSaves
  <2>2. WellKept(task[t].store)
    BY <1>5 DEF OneActivePack, CommandSaves
  <2>3. WellKept(packsFile'.store)
    BY <1>5, <2>1, <2>2, ResultKept DEF CommandSaves, Saves, File
  <2> QED
    BY <1>5, <2>3 DEF OneActivePack, CommandSaves, Loads, PacksTypeOK, Idle
<1>6. ASSUME NEW t \in Threads, Ends(t) PROVE OneActivePack'
  BY <1>6 DEF OneActivePack, Ends, Loads, PacksTypeOK, Idle
<1>7. CASE UNCHANGED packVars
  BY <1>7 DEF OneActivePack, packVars
<1> QED
  BY <1>1, <1>2, <1>3, <1>4, <1>5, <1>6, <1>7 DEF PacksNext, Threads, Operations

(* However many instances of the app and pipelines load, save and quarantine
   the file at the same time, no store of theirs has an id twice or two active
   packs. *)
THEOREM AtMostOneActive == PacksSpec => []OneActivePack
<1>1. PacksInit => OneActivePack
  BY PacksInitKept
<1>2. PacksTypeOK /\ OneActivePack /\ [PacksNext]_packVars => OneActivePack'
  BY PacksNextKept
<1> QED
  BY <1>1, <1>2, PacksTyped, PTL DEF PacksSpec

-------------------------------------------------------------------------------
(* The ids that quarantining has put aside. *)
SetAside == clobbered \cup UNION {Ids(backups[s].store) : s \in 0 .. MaxSeconds}

(* What a command has loaded has all that is in the file. *)
SurvivesInv ==
    /\ \A id \in owned : id \in Ids(packsFile.store) \/ id \in SetAside
    /\ \A t \in MainThreads : task[t].at = "loaded" => packsFile.store \subseteq task[t].store

LEMMA SetAsideIs ==
    \A id : id \in SetAside <=> \/ id \in clobbered
                                \/ \E s \in 0 .. MaxSeconds : id \in Ids(backups[s].store)
<1>1. \A id : id \in UNION {Ids(backups[s].store) : s \in 0 .. MaxSeconds}
                <=> \E s \in 0 .. MaxSeconds : id \in Ids(backups[s].store)
  OBVIOUS
<1>2. QED
  BY <1>1 DEF SetAside

(* An operation keeps every id but the deleted one. *)
LEMMA ResultIds ==
    ASSUME NEW o \in Operations, NEW store \in Stores, o.op # "list",
           NEW id \in OwnedAfter(o), id \in owned => id \in Ids(store)
    PROVE  id \in Ids(Result(o, store))
<1>1. ASSUME NEW k, id # k, id \in Ids(store)
      PROVE  id \in Ids(Without(store, k)) /\ id \in Ids(Deactivated(Without(store, k)))
  <2>1. PICK p \in store : p.id = id
    BY <1>1 DEF Ids
  <2>2. p \in Without(store, k)
    BY <1>1, <2>1 DEF Without
  <2>3. [id |-> p.id, active |-> FALSE] \in Deactivated(Without(store, k))
    BY <2>2 DEF Deactivated
  <2>4. [id |-> p.id, active |-> FALSE].id = id
    BY <2>1
  <2> QED BY <2>1, <2>2, <2>3, <2>4 DEF Ids
<1>2. CASE o.op = "save"
  <2>1. id = o.pack.id \/ (id # o.pack.id /\ id \in Ids(store))
    BY <1>2 DEF OwnedAfter
  <2>2. \A s : o.pack \in s => o.pack.id \in Ids(s)
    BY DEF Ids
  <2>3. o.pack \in Saved(store, o.pack)
    BY DEF Saved
  <2>4. \A p : p \in Without(store, o.pack.id) /\ ~o.pack.active => p \in Saved(store, o.pack)
    BY DEF Saved
  <2>5. \A p : p \in Deactivated(Without(store, o.pack.id)) /\ o.pack.active => p \in Saved(store, o.pack)
    BY DEF Saved
  <2>6. id \in Ids(Saved(store, o.pack))
    BY <1>1, <2>1, <2>2, <2>3, <2>4, <2>5 DEF Ids
  <2> QED BY <1>2, <2>6 DEF Result
<1>3. CASE o.op = "delete"
  BY <1>1, <1>3 DEF OwnedAfter, Result
<1>4. CASE o.op = "activate"
  <2> DEFINE new == [id |-> o.id, active |-> TRUE]
  <2>1. id \in Ids(store)
    BY <1>4 DEF OwnedAfter
  <2>2. new \in Activated(store, o.id) /\ new.id = o.id
    BY DEF Activated
  <2>3. \A p : p \in Deactivated(Without(store, o.id)) => p \in Activated(store, o.id)
    BY DEF Activated
  <2>4. id \in Ids(Activated(store, o.id))
    <3> HIDE DEF new
    <3> QED BY <1>1, <2>1, <2>2, <2>3 DEF Ids
  <2> QED BY <1>4, <2>4 DEF Result
<1>5. CASE o.op = "deactivate"
  <2>1. id \in Ids(store)
    BY <1>5 DEF OwnedAfter
  <2>2. PICK p \in store : p.id = id
    BY <2>1 DEF Ids
  <2>3. [id |-> p.id, active |-> FALSE] \in Deactivated(store) /\ [id |-> p.id, active |-> FALSE].id = id
    BY <2>2 DEF Deactivated
  <2>4. id \in Ids(Deactivated(store))
    BY <2>3 DEF Ids
  <2> QED BY <1>5, <2>4 DEF Result
<1>6. QED
  BY <1>2, <1>3, <1>4, <1>5 DEF Operations

LEMMA StartsSurvives ==
    ASSUME PacksTypeOK, SurvivesInv, NEW t \in Threads, NEW o \in Operations, Starts(t, o)
    PROVE  SurvivesInv'
<1>1. \/ task'[t].at = "loaded" /\ packsFile.store = task'[t].store
      \/ task'[t].at = "quarantine"
  BY DEF Starts, ReadInto, Loads, PacksTypeOK, NoFile
<1>2. \A u \in Threads : u # t => task'[u] = task[u]
  BY DEF Starts, ReadInto, Loads, PacksTypeOK
<1>3. UNCHANGED <<packsFile, backups, clobbered, owned>>
  BY DEF Starts
<1>4. SetAside' = SetAside
  BY <1>3 DEF SetAside
<1>5. QED
  BY <1>1, <1>2, <1>3, <1>4 DEF SurvivesInv, Threads

LEMMA QuarantineSurvives ==
    ASSUME PacksTypeOK, SurvivesInv, NEW t \in Threads, Quarantine(t) PROVE SurvivesInv'
<1>1. packsFile' = NoFile /\ NoFile.store = {} /\ owned' = owned
  BY DEF Quarantine, NoFile, EmptyStore
<1>2. \A id \in owned : id \in SetAside'
  <2>1. CASE packsFile = NoFile
    <3>1. SetAside' = SetAside
      BY <2>1 DEF Quarantine, SetAside
    <3> QED BY <1>1, <2>1, <3>1 DEF SurvivesInv, Ids
  <2>2. CASE packsFile # NoFile
    <3>1. /\ backups' = [backups EXCEPT ![second] = packsFile]
          /\ clobbered' = clobbered \cup Ids(backups[second].store)
          /\ second \in 0 .. MaxSeconds /\ backups \in [0 .. MaxSeconds -> Files]
      BY <2>2 DEF Quarantine, PacksTypeOK
    <3> SUFFICES ASSUME NEW id \in owned
                 PROVE  \/ id \in clobbered'
                        \/ \E s \in 0 .. MaxSeconds : id \in Ids(backups'[s].store)
      BY DEF SetAside
    <3>2. CASE id \in Ids(packsFile.store)
      BY <3>1, <3>2
    <3>3. CASE id \in clobbered
      BY <3>1, <3>3
    <3>4. ASSUME NEW s \in 0 .. MaxSeconds, id \in Ids(backups[s].store)
          PROVE  \/ id \in clobbered'
                 \/ \E r \in 0 .. MaxSeconds : id \in Ids(backups'[r].store)
      <4>1. CASE s = second
        BY <3>1, <3>4, <4>1
      <4>2. CASE s # second
        <5>1. backups'[s] = backups[s]
          BY <3>1, <4>2
        <5> QED BY <3>4, <5>1
      <4> QED BY <4>1, <4>2
    <3> QED BY <3>2, <3>3, <3>4, SetAsideIs DEF SurvivesInv
  <2> QED BY <2>1, <2>2
<1>3. QED
  BY <1>1, <1>2 DEF SurvivesInv

(* The one main thread saves what was in the file, and what it adds. *)
LEMMA SavesSurvives ==
    ASSUME \A t, u \in MainThreads : t = u,
           PacksTypeOK, SurvivesInv, NEW t \in Threads, CommandSaves(t)
    PROVE  SurvivesInv'
<1> DEFINE o == task[t].op
           store == task[t].store
<1>1. /\ t \in MainThreads /\ task[t].at = "loaded" /\ o.op # "list"
      /\ packsFile' = File(Result(o, store)) /\ owned' = OwnedAfter(o)
      /\ task' = [task EXCEPT ![t] = Idle] /\ UNCHANGED <<backups, clobbered>>
  BY DEF CommandSaves, Saves, Loads
<1>2. o \in Operations /\ store \in Stores
  BY <1>1, JobsAre DEF PacksTypeOK, Jobs
<1>3. packsFile.store \subseteq store /\ packsFile'.store = Result(o, store)
  BY <1>1 DEF SurvivesInv, File
<1>4. \A id \in owned : id \in Ids(store) \/ id \in SetAside
  BY <1>3 DEF SurvivesInv, Ids
<1>5. SetAside' = SetAside
  BY <1>1 DEF SetAside
<1>6. \A id \in owned' : id \in Ids(packsFile'.store) \/ id \in SetAside'
  <2> HIDE DEF o, store
  <2> QED BY <1>1, <1>2, <1>3, <1>4, <1>5, ResultIds
<1>7. \A u \in MainThreads : task'[u].at # "loaded"
  BY <1>1 DEF PacksTypeOK, Idle, Threads
<1>8. QED
  BY <1>6, <1>7 DEF SurvivesInv

LEMMA PacksNextSurvives ==
    ASSUME \A t, u \in MainThreads : t = u,
           PacksTypeOK, SurvivesInv, [PacksNext]_packVars
    PROVE  SurvivesInv'
<1>1. CASE Corrupts
  <2>1. /\ packsFile' = Damaged /\ owned' = owned \ Ids(packsFile.store)
        /\ UNCHANGED <<backups, clobbered, task>>
    BY <1>1 DEF Corrupts
  <2>2. SetAside' = SetAside
    BY <2>1 DEF SetAside
  <2> QED BY <2>1, <2>2 DEF SurvivesInv, Damaged, EmptyStore
<1>2. ASSUME UNCHANGED <<packsFile, backups, clobbered, owned>>,
             \A t \in MainThreads : task'[t].at = "loaded" => task'[t] = task[t]
      PROVE  SurvivesInv'
  <2>1. SetAside' = SetAside
    BY <1>2 DEF SetAside
  <2> QED BY <1>2, <2>1 DEF SurvivesInv
<1>3. CASE Ticks
  BY <1>2, <1>3 DEF Ticks
<1>4. ASSUME NEW t \in Threads, Ends(t) PROVE SurvivesInv'
  <2>1. \A u \in MainThreads : task'[u].at = "loaded" => task'[u] = task[u]
    BY <1>4 DEF Ends, Loads, PacksTypeOK, Idle, Threads
  <2> QED BY <1>2, <1>4, <2>1 DEF Ends
<1>5. CASE UNCHANGED packVars
  BY <1>2, <1>5 DEF packVars
<1>6. ASSUME NEW t \in Pipelines, Starts(t, [op |-> "list"]) PROVE SurvivesInv'
  BY <1>6, StartsSurvives DEF Threads, Operations
<1>7. ASSUME NEW t \in MainThreads, NEW o \in Operations, Starts(t, o) PROVE SurvivesInv'
  BY <1>7, StartsSurvives DEF Threads
<1>8. QED
  BY <1>1, <1>3, <1>4, <1>5, <1>6, <1>7, QuarantineSurvives, SavesSurvives DEF PacksNext

(* With one instance of the app, a pack that the user saved and did not delete
   is in the file, or in a backup, or was in a backup that another of the same
   second replaced, however many pipelines load and quarantine meanwhile. *)
THEOREM NoPackIsLost ==
    ASSUME \A t, u \in MainThreads : t = u
    PROVE  PacksSpec => []SavedPackSurvives
<1>1. PacksInit => SurvivesInv
  BY DEF PacksInit, SurvivesInv, Idle, Threads
<1>2. PacksTypeOK /\ SurvivesInv /\ [PacksNext]_packVars => SurvivesInv'
  BY PacksNextSurvives
<1>3. SurvivesInv => SavedPackSurvives
  BY DEF SurvivesInv, SavedPackSurvives, SetAside
<1>4. QED
  BY <1>1, <1>2, <1>3, PacksTyped, PTL DEF PacksSpec

===============================================================================
