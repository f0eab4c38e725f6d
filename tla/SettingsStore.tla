---------------------------- MODULE SettingsStore ----------------------------
(***************************************************************************)
(* settings.rs: the settings file, loaded by every command and by the      *)
(* pipelines on threads of their own, saved by the settings page.  A load  *)
(* may write: it quarantines a file it cannot use, and it stores the       *)
(* replacement of a reserved hotkey.  Of the settings, the fields are kept *)
(* that some rule treats on its own; the rest are "sound", "odd" (a load   *)
(* or a save puts the default) or "bad" (refused).                         *)
(***************************************************************************)
EXTENDS Integers

CONSTANTS Page,     \* the main thread, which runs the commands
          Loaders,  \* threads of the pipelines
          Versions, \* schema versions of the files found at the start
          MaxDamage \* bound on read errors and on files damaged from outside

ASSUME VersionsAssumption == Versions \subseteq Nat /\ MaxDamage \in Nat

Hotkeys == {"", "reserved", "default", "custom"}
Urls    == {"", "bad", "here", "there"}
Models  == {"", "model"}
TraceModes   == {"redacted", "full_local"}
Fields  == {"sound", "odd", "bad"}
CurrentVersion == 10

Settings == [hotkey : Hotkeys, url : Urls, model : Models, mode : TraceModes, fields : Fields]

Default == [hotkey |-> "default", url |-> "", model |-> "model",
            mode |-> "redacted", fields |-> "sound"]

(* A file that parses: settings, the version it says, whether it has the keys
   of its version and values of their types, and the flag that version 9
   replaced by the trace mode. *)
Shapes == {"whole", "lacking", "ill_typed"}
Docs == [version : Nat, shape : Shapes, trace : BOOLEAN, settings : Settings]
Doc(s) == [is |-> "doc", doc |-> [version |-> CurrentVersion, shape |-> "whole",
                                  trace |-> FALSE, settings |-> s]]
NoDoc == [version |-> 0, shape |-> "lacking", trace |-> FALSE, settings |-> Default]
NoSettings == [is |-> "missing", doc |-> NoDoc]
TornSettings == [is |-> "torn", doc |-> NoDoc]

(* A bug: the ninth migration runs on files of version 9. *)
MigratedAgain(d) ==
    [d EXCEPT !.version = IF @ < CurrentVersion THEN CurrentVersion ELSE @,
              !.settings.mode = IF d.version > 9 THEN @
                                ELSE IF d.trace THEN "full_local" ELSE "redacted"]

-------------------------------------------------------------------------------
(* migrate_settings: each migration adds the keys of its version, so a file
   keeps its shape; the ninth makes the trace mode of the flag. *)
Migrated(d) ==
    [d EXCEPT !.version = IF @ < CurrentVersion THEN CurrentVersion ELSE @,
              !.settings.mode = CASE d.version >= 9 -> @
                                  [] d.version < 9 /\ d.trace -> "full_local"
                                  [] OTHER -> "redacted"]

(* ensure_required_fields *)
RequiredFields(d) ==
    /\ d.shape # "lacking"
    /\ d.settings.hotkey # ""
    /\ d.settings.model # ""

(* sanitize_bilingual_settings, which also sets the schema version. *)
Sanitized(s) == [s EXCEPT !.fields = IF @ = "odd" THEN "sound" ELSE @]

(* sanitize_loaded_hotkey *)
WithHotkey(s) == [s EXCEPT !.hotkey = IF @ = "reserved" THEN Default.hotkey ELSE @]

(* validate: the schema version was set to the current one before. *)
Valid(s) ==
    /\ s.hotkey \notin {"", "reserved"}
    /\ s.model # ""
    /\ s.url # "bad"
    /\ s.fields # "bad"

(* What load makes of the file it read. *)
Outcome(f) ==
    LET m == Migrated(f.doc)
        s == Sanitized(WithHotkey(m.settings))
        usable == /\ f.is = "doc"
                  /\ RequiredFields(m)
                  /\ m.shape = "whole"
                  /\ Valid(s)
    IN [ends     |-> CASE f.is = "missing" -> "default"
                       [] usable           -> "loaded"
                       [] OTHER            -> "quarantined",
        settings |-> IF usable THEN s ELSE Default,
        stores   |-> usable /\ m.settings.hotkey = "reserved"]

-------------------------------------------------------------------------------
VARIABLES file,   \* the settings file
          doing,  \* what each thread is doing
          chosen, \* history: the settings of the last save, if they still stand
          damage

settingsVars == <<file, doing, chosen, damage>>

SettingsThreads == {Page} \cup Loaders
Resting == [at |-> "idle"]
(* What is going to be written, and the file whose route it kept. *)
Writing(s, f) == [at |-> "writes", settings |-> s, read |-> f]
Use == [why |-> "use", input |-> Default]
NotChosen == [is |-> FALSE, settings |-> Default]
Chosen(s) == [is |-> TRUE, settings |-> s]

OldDocs ==
    {d \in [version : Versions, shape : Shapes, trace : BOOLEAN, settings : Settings] :
        /\ d.trace => d.version = 8
        /\ d.version < 9 => d.settings.mode = "redacted"
        /\ d.settings.url # "there"
        \* what is in an unusable file does not matter
        /\ d.shape # "whole" => d.settings = [Default EXCEPT !.url = "here"]}

SettingsInit ==
    /\ file \in {NoSettings, TornSettings} \cup {[is |-> "doc", doc |-> d] : d \in OldDocs}
    /\ doing = [t \in SettingsThreads |-> Resting]
    /\ chosen = NotChosen
    /\ damage = 0

(* load begins: the file is read. *)
LoadReads(t, job) ==
    /\ doing[t].at = "idle"
    /\ doing' = [doing EXCEPT ![t] = [at |-> "read", job |-> job, file |-> file]]
    /\ UNCHANGED <<file, chosen, damage>>

(* The read of a file that is there fails: the load fails, and a save goes on
   without the stored route. *)
LoadFails(t) ==
    /\ doing[t].at = "read"
    /\ doing[t].file # NoSettings
    /\ damage < MaxDamage
    /\ damage' = damage + 1
    /\ doing' = [doing EXCEPT ![t] = IF @.job.why = "use" THEN Resting
                                     ELSE Writing(@.job.input, NoSettings)]
    /\ UNCHANGED <<file, chosen>>

(* A bug: the model is taken over, the route is not. *)
PreservedModel(input, stored) ==
    [input EXCEPT !.model = IF @ = "" THEN stored.model ELSE @]

(* preserve_existing_llm_route_if_accidentally_cleared *)
Preserved(input, stored) ==
    IF stored.url = "" THEN input
    ELSE [input EXCEPT !.url = stored.url,
                       !.model = IF @ = "" THEN stored.model ELSE @]

(* load ends: it renames the file away, or stores the replaced hotkey if it
   can, or only returns what it has. *)
LoadEnds(t) ==
    /\ doing[t].at = "read"
    /\ LET o == Outcome(doing[t].file)
       IN /\ file' \in (CASE o.ends = "quarantined" -> {NoSettings}
                          [] o.stores             -> {file, Doc(o.settings)}
                          [] OTHER                  -> {file})
          /\ chosen' = IF file' = file THEN chosen ELSE NotChosen
          /\ doing' = [doing EXCEPT ![t] =
                         IF @.job.why = "use" THEN Resting
                         ELSE Writing(Preserved(@.job.input, o.settings), @.file)]
    /\ UNCHANGED damage

(* save: with an empty URL it loads what is stored first. *)
SaveBegins(input) ==
    /\ doing[Page].at = "idle"
    /\ doing' = [doing EXCEPT ![Page] =
                   IF input.url = ""
                   THEN [at |-> "read", job |-> [why |-> "save", input |-> input],
                         file |-> file]
                   ELSE Writing(input, NoSettings)]
    /\ UNCHANGED <<file, chosen, damage>>

(* A bug: the settings are stored as they came. *)
SaveWritesRaw ==
    /\ doing[Page].at = "writes"
    /\ LET s == doing[Page].settings
       IN /\ Valid(s)
          /\ file' = Doc(s)
          /\ chosen' = Chosen(s)
    /\ doing' = [doing EXCEPT ![Page] = Resting]
    /\ UNCHANGED damage

SaveWrites ==
    /\ doing[Page].at = "writes"
    /\ LET s == Sanitized(doing[Page].settings)
       IN /\ Valid(s)
          /\ file' = Doc(s)
          /\ chosen' = Chosen(s)
    /\ doing' = [doing EXCEPT ![Page] = Resting]
    /\ UNCHANGED damage

(* The settings are refused, or the write fails and leaves the file alone. *)
SaveFails ==
    /\ doing[Page].at = "writes"
    /\ doing' = [doing EXCEPT ![Page] = Resting]
    /\ UNCHANGED <<file, chosen, damage>>

(* Something outside the app damages the file. *)
FileDamaged ==
    /\ file.is = "doc"
    /\ damage < MaxDamage
    /\ damage' = damage + 1
    /\ file' = TornSettings
    /\ chosen' = NotChosen
    /\ UNCHANGED doing

(* What the page may send; no rule looks at the mode.  A bad URL or field comes
   with the default hotkey and model. *)
Inputs ==
    {s \in Settings :
        /\ s.url # "here" /\ s.mode = "redacted"
        /\ s.url = "bad" \/ s.fields = "bad" => s.hotkey = "default" /\ s.model = "model"}

SettingsNext ==
    \/ \E t \in SettingsThreads : LoadReads(t, Use) \/ LoadFails(t) \/ LoadEnds(t)
    \/ \E s \in Inputs : SaveBegins(s)
    \/ SaveWrites \/ SaveFails \/ FileDamaged

SettingsSpec == SettingsInit /\ [][SettingsNext]_settingsVars

-------------------------------------------------------------------------------
(* What the last save stored is what a load will give: no settings that save
   accepts are quarantined or changed by the next load (settings.rs:303 and
   :106), as long as no load of an older file replaced them since. *)
SavedIsLoaded ==
    chosen.is => LET o == Outcome(file)
                 IN o.ends = "loaded" /\ ~o.stores /\ o.settings = chosen.settings

(* A sound file of an older version gives the user's own hotkey, route and
   model, and the trace mode he had (settings.rs:246). *)
UpgradeKeepsChoices ==
    \A t \in SettingsThreads :
        LET read == doing[t].file
            s == read.doc.settings
            o == Outcome(read)
        IN (/\ doing[t].at = "read" /\ read.is = "doc"
            /\ read.doc.shape = "whole" /\ Valid(Sanitized(s)))
           => /\ o.ends = "loaded"
              /\ o.settings.hotkey = s.hotkey
              /\ o.settings.url = s.url
              /\ o.settings.model = s.model
              /\ read.doc.version >= 9 => o.settings.mode = s.mode
              /\ read.doc.trace => o.settings.mode = "full_local"

(* A save never erases the route of the file it read: an empty URL keeps the
   old one (settings.rs:311). *)
HasRoute(f) == f.is = "doc" /\ Outcome(f).settings.url # ""

SaveKeepsRoute ==
    [][SaveWrites /\ HasRoute(doing[Page].read) => HasRoute(file')]_settingsVars
===============================================================================
