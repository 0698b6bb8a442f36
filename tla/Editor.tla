------------------------------- MODULE Editor -------------------------------
(***************************************************************************)
(* Saving an edited profile file (cmd/save_profile.rs): the file is        *)
(* written, checked on its own (core/validate.rs), then, if the current    *)
(* profile uses it, tried out by an update of the core; whenever one of    *)
(* these fails what was there before is written back.  Either write may    *)
(* fail, and then nobody looks after the file any more.                    *)
(*                                                                         *)
(* In the meantime everybody reads the new content: a second save takes it *)
(* for the original, and an update by somebody else gives it to the core.  *)
(***************************************************************************)
EXTENDS Naturals, FiniteSets

CONSTANTS
  Savers,      \* save_profile_file under way
  Other,       \* an update of the core by somebody else
  Profiles,    \* profiles, each with a file of its own
  Extensions,  \* the merge and script files every profile uses
  Contents, Absent,
  Passes,      \* contents that pass the check of a file on its own
  Runs,        \* contents the core accepts in a configuration
  Unwritten,   \* files that are not there at the start
  MaxSaves     \* bound: saves and other updates in a behaviour

Files == Profiles \union Extensions
Editors == Savers \union {Other}

ASSUME EditorAssumption ==
  /\ Other \notin Savers /\ Absent \notin Editors
  /\ Passes \intersect Runs # {}

VARIABLES
  chosen,    \* the current profile
  former,    \* the one to go back to while a switch is tried out
  content,   \* the files
  running,   \* the content of the files the core was last given
  busy,      \* who is in update_config, or Absent
  stage,     \* where a saver is
  file, original, edited,  \* what it saves
  affects,   \* profile_affects_runtime, looked up at the start
  looked,    \* history: the profile that was current then
  read,      \* the contents an update has generated from
  saves,     \* bounded by MaxSaves
  slips,     \* history: what happened that nobody repairs
  damaged    \* history: the files a write of which has failed

editorVars == <<chosen, former, content, running, busy, stage, file,
                original, edited, affects, looked, read, saves, slips,
                damaged>>

Used(p) == {p} \union Extensions
Given(p) == [f \in Used(p) |-> content[f]]

EditorInit ==
  /\ chosen \in Profiles /\ former = chosen
  /\ content = [f \in Files |-> IF f \in Unwritten THEN Absent
                                ELSE CHOOSE c \in Passes \intersect Runs : TRUE]
  /\ running = Given(chosen)
  /\ busy = Absent
  /\ stage = [s \in Editors |-> "idle"]
  /\ file = [s \in Savers |-> Absent]
  /\ original = [s \in Savers |-> Absent]
  /\ edited = [s \in Savers |-> Absent]
  /\ affects = [s \in Savers |-> FALSE]
  /\ looked = [s \in Savers |-> chosen]
  /\ read = [s \in Editors |-> running]
  /\ saves = 0 /\ slips = {} /\ damaged = {}

AtStage(s, label) == stage[s] = label
ToStage(s, label) == stage' = [stage EXCEPT ![s] = label]
SlipIf(P, slip) == slips' = IF P THEN slips \union {slip} ELSE slips

Leave(s) == ToStage(s, "idle")

-----------------------------------------------------------------------------
(* A save.                                                                 *)

\* Mutant of AffectsRuntime: only the profile's own file counts.
AffectsAlone(f) == f = chosen

AffectsRuntime(f) == f \in Used(chosen)

\* Whose file it is, and whether it matters, is looked up first.
Save(s, f, c) ==
  /\ AtStage(s, "idle") /\ saves < MaxSaves
  /\ saves' = saves + 1
  /\ file' = [file EXCEPT ![s] = f]
  /\ edited' = [edited EXCEPT ![s] = c]
  /\ affects' = [affects EXCEPT ![s] = AffectsRuntime(f)]
  /\ looked' = [looked EXCEPT ![s] = chosen]
  /\ ToStage(s, "read")
  /\ SlipIf(\E t \in Savers : ~AtStage(t, "idle") /\ file[t] = f, "overlap")
  /\ UNCHANGED <<chosen, former, content, running, busy, original, read,
                 damaged>>

ReadOriginal(s) ==
  /\ AtStage(s, "read")
  /\ original' = [original EXCEPT ![s] = content[file[s]]]
  /\ ToStage(s, "write")
  /\ UNCHANGED <<chosen, former, content, running, busy, file, edited, affects,
                 looked, read, saves, slips, damaged>>

\* What was there cannot be read: the save ends, nothing is written.
ReadFails(s) ==
  /\ AtStage(s, "read")
  /\ Leave(s)
  /\ UNCHANGED <<chosen, former, content, running, busy, file, original, edited,
                 affects, looked, read, saves, slips, damaged>>

WriteEdited(s) ==
  /\ AtStage(s, "write")
  /\ content' = [content EXCEPT ![file[s]] = edited[s]]
  /\ ToStage(s, "check")
  /\ UNCHANGED <<chosen, former, running, busy, file, original, edited,
                 affects, looked, read, saves, slips, damaged>>

\* fs::write fails: the file is as it was, or has any part of what was to be
\* written, and the command returns.
WriteTo(s, c) ==
  /\ content' = [content EXCEPT ![file[s]] = c]
  /\ damaged' = damaged \union {file[s]}
  /\ Leave(s)
  /\ UNCHANGED <<chosen, former, running, busy, file, original, edited,
                 affects, looked, read, saves, slips>>

WriteEditedFails(s) ==
  /\ AtStage(s, "write")
  /\ \E c \in Contents \union {content[file[s]]} : WriteTo(s, c)

\* validate_config_file_outcome: a merge file is parsed, a script is evaluated
\* and must have a main function, a configuration is tested by the core.  It
\* reads the file, which need not be what this save wrote; without one it is
\* invalid.
CheckFile(s) ==
  LET passes == content[file[s]] \in Passes
  IN /\ AtStage(s, "check")
     /\ IF ~passes THEN ToStage(s, "restore")
        ELSE IF affects[s] THEN ToStage(s, "update")
        ELSE Leave(s)
     /\ SlipIf(/\ passes /\ file[s] \notin Used(looked[s])
               /\ file[s] \in Used(chosen) \union Used(former), "switched")
     /\ UNCHANGED <<chosen, former, content, running, busy, file, original,
                    edited, affects, looked, read, saves, damaged>>

\* The check could not run at all, or the application is exiting.
CheckFails(s) ==
  /\ AtStage(s, "check")
  /\ ToStage(s, "restore")
  /\ UNCHANGED <<chosen, former, content, running, busy, file, original,
                 edited, affects, looked, read, saves, slips, damaged>>

\* update_config_forced: Busy while somebody else updates.
EnterUpdate(s) ==
  /\ AtStage(s, "update")
  /\ IF busy # Absent THEN ToStage(s, "restore") /\ UNCHANGED busy
     ELSE ToStage(s, "generate") /\ busy' = s
  /\ UNCHANGED <<chosen, former, content, running, file, original, edited,
                 affects, looked, read, saves, slips, damaged>>

\* restore_original: a file that was not there is removed.
RestoreOriginal(s) ==
  /\ AtStage(s, "restore")
  /\ content' = [content EXCEPT ![file[s]] = original[s]]
  /\ Leave(s)
  /\ SlipIf(/\ file[s] \in DOMAIN running \ damaged
            /\ running[file[s]] # original[s], "crossed")
  /\ UNCHANGED <<chosen, former, running, busy, file, original, edited,
                 affects, looked, read, saves, damaged>>

\* It fails: what was rejected stays, whole or in part.  A file that was not
\* there before could not be removed.
RestoreFails(s) ==
  /\ AtStage(s, "restore")
  /\ \E c \in {content[file[s]]}
                \union (IF original[s] = Absent THEN {} ELSE Contents) :
       WriteTo(s, c)

-----------------------------------------------------------------------------
(* An update of the core, by a save or by somebody else.                   *)

\* An update, or a switch to another profile.
OtherUpdate(p) ==
  /\ AtStage(Other, "idle") /\ busy = Absent /\ saves < MaxSaves
  /\ saves' = saves + 1
  /\ busy' = Other /\ chosen' = p /\ former' = chosen
  /\ ToStage(Other, "generate")
  /\ UNCHANGED <<content, running, file, original, edited, affects, looked,
                 read, slips, damaged>>

GenerateFrom(s) ==
  /\ AtStage(s, "generate")
  /\ read' = [read EXCEPT ![s] = Given(chosen)]
  /\ ToStage(s, "apply")
  /\ UNCHANGED <<chosen, former, content, running, busy, file, original,
                 edited, affects, looked, saves, slips, damaged>>

\* After a configuration the core refuses a save is taken back, and so is a
\* switch.
TakeBack(s) ==
  IF s = Other
  THEN chosen' = former /\ Leave(s)
  ELSE ToStage(s, "restore") /\ UNCHANGED chosen

\* enhance passes over a file that is not there.
Acceptable(contents) ==
  \A f \in DOMAIN contents : contents[f] \in Runs \union {Absent}

GiveToCore(s) ==
  /\ AtStage(s, "apply")
  /\ busy' = Absent
  /\ IF Acceptable(read[s])
     THEN running' = read[s] /\ former' = chosen /\ Leave(s) /\ UNCHANGED chosen
     ELSE TakeBack(s) /\ UNCHANGED <<running, former>>
  /\ SlipIf(/\ Acceptable(read[s])
            /\ \E f \in Used(chosen) \ damaged : read[s][f] # content[f],
            "crossed")
  /\ UNCHANGED <<content, file, original, edited, affects, looked, read, saves,
                 damaged>>

\* The update failed otherwise; the core may have taken it all the same.
UpdateError(s) ==
  /\ AtStage(s, "apply") /\ Acceptable(read[s])
  /\ busy' = Absent
  /\ running' \in {running, read[s]}
  /\ TakeBack(s)
  /\ SlipIf(TRUE, "error")
  /\ UNCHANGED <<former, content, file, original, edited, affects, looked,
                 read, saves, damaged>>

Saving(s) ==
  \/ \E f \in Files, c \in Contents : Save(s, f, c)
  \/ ReadOriginal(s) \/ ReadFails(s) \/ WriteEdited(s) \/ WriteEditedFails(s)
  \/ CheckFile(s) \/ CheckFails(s) \/ EnterUpdate(s)
  \/ RestoreOriginal(s) \/ RestoreFails(s)

Updating(s) == GenerateFrom(s) \/ GiveToCore(s) \/ UpdateError(s)

EditorNext ==
  \/ \E s \in Savers : Saving(s)
  \/ \E p \in Profiles : OtherUpdate(p)
  \/ \E s \in Editors : Updating(s)

EditorSpec == EditorInit /\ [][EditorNext]_editorVars

-----------------------------------------------------------------------------
(* Properties.                                                             *)

\* When every save has ended, however they and other updates overlapped, no
\* file is left with a content that was rejected, and the core runs the files
\* the current profile uses: all of them but those a write of which has failed
\* (damaged).  Unless two saves of one file overlapped, an update by somebody
\* else read a file while it was on trial, a switch made the core use the file
\* after the save looked, or the core failed with an error.
EditsSettle ==
  (\A s \in Editors : AtStage(s, "idle")) =>
    /\ "overlap" \notin slips =>
         \A f \in Files \ damaged :
           content[f] \in Passes \/ (content[f] = Absent /\ f \in Unwritten)
    /\ slips = {} =>
         /\ DOMAIN running = Used(chosen)
         /\ \A f \in Used(chosen) \ damaged : running[f] = content[f]
=============================================================================
