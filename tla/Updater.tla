------------------------------ MODULE Updater -------------------------------
(***************************************************************************)
(* The program replaces itself: it renames the running executable to a     *)
(* name with its version, unpacks the new one under the stable name, and   *)
(* starts it.  Everything runs on the UI thread, but the question and the  *)
(* progress dialog run event loops of their own: the answer to another     *)
(* check (the daily one, the menu's) may come while an update is under     *)
(* way, and its dialog is then on top.                                     *)
(***************************************************************************)
EXTENDS Naturals, Sequences

CONSTANTS
  AssetNames,    \* the first member of the zip: "stable", or "loose" for another name
  MaxChecks      \* bound on the update checks that answer during one another

ASSUME UpdaterAssumption == MaxChecks \in Nat

VARIABLES
  disk,      \* the executables: the stable name, the versioned backup, another name
  running,   \* the version that runs, or "none"
  startedAs, \* sys.executable: the name it was started by
  image,     \* where the file of the running program is now
  frames,    \* the calls of _prompt_and_apply_update, the innermost last
  broken     \* history: a step failed that the update does not recover from

updateVars == <<disk, running, startedAs, image, frames, broken>>

Versions == {"old", "new"}

UpdaterInit ==
  /\ disk = [stable |-> "old", backup |-> "none", loose |-> "none"]
  /\ running = "none"
  /\ startedAs = "stable"
  /\ image = "none"
  /\ frames = << >>
  /\ broken = FALSE

Inner == frames[Len(frames)]
Pop == SubSeq(frames, 1, Len(frames) - 1)
Become(step) == Append(Pop, [Inner EXCEPT !.step = step])

(* A lock that is not there: the running program's file can be removed. *)
Removable_FaultUnlocked(name) == disk[name] # "none"

(* Windows does not remove or overwrite the file of a running program. *)
Removable(name) == disk[name] # "none" /\ image # name

(* check_update, on_releases_fetched: the releases come to an event loop; the *)
(* first one is newer than the program.                                       *)
UpdateFound ==
  /\ running = "old"
  /\ Len(frames) < MaxChecks
  /\ frames' = Append(frames, [step |-> "asking", backedUp |-> FALSE])
  /\ UNCHANGED <<disk, running, startedAs, image, broken>>

UpdateDeclined ==
  /\ frames # << >> /\ Inner.step = "asking"
  /\ frames' = Pop
  /\ UNCHANGED <<disk, running, startedAs, image, broken>>

(* The running executable is renamed; a program started by another name goes *)
(* on at once.                                                               *)
UpdateAccepted ==
  /\ frames # << >> /\ Inner.step = "asking"
  /\ UNCHANGED <<running, startedAs>>
  /\ \/ /\ startedAs # "stable"
        /\ frames' = Become("downloading")
        /\ UNCHANGED <<disk, image, broken>>
     \/ /\ startedAs = "stable"
        /\ disk.stable # "none"
        /\ disk.backup = "none" \/ Removable("backup")
        /\ disk' = [disk EXCEPT !.stable = "none", !.backup = disk.stable]
        /\ image' = IF image = "stable" THEN "backup" ELSE image
        /\ frames' = Append(Pop, [step |-> "downloading", backedUp |-> TRUE])
        /\ UNCHANGED broken
     \/ \* An OSError: nothing is done, or the old backup is gone.
        /\ startedAs = "stable"
        /\ disk' \in {disk} \cup IF Removable("backup") THEN {[disk EXCEPT !.backup = "none"]} ELSE {}
        /\ frames' = Pop
        /\ UNCHANGED <<image, broken>>

(* A dropped step: the executable keeps its versioned name. *)
RenamedBack_FaultDropped == {disk}

(* os.rename to the stable name, which fails when the name is taken. *)
RenamedBack ==
  IF ~Inner.backedUp \/ disk.backup = "none" \/ disk.stable # "none" THEN {disk}
  ELSE {[disk EXCEPT !.stable = disk.backup, !.backup = "none"]}

(* Cancelled, without a zip, or with unsafe names in it. *)
DownloadEnds ==
  /\ frames # << >> /\ Inner.step = "downloading"
  /\ disk' \in RenamedBack
  /\ image' = IF disk'.backup = "none" /\ image = "backup" THEN "stable" ELSE image
  /\ frames' = Pop
  /\ UNCHANGED <<running, startedAs, broken>>

(* The same with a rename that fails, or an exception of the network, the zip *)
(* or the disk, which leaves the slot; a file may be unpacked in part.        *)
DownloadBreaks ==
  /\ frames # << >> /\ Inner.step = "downloading"
  /\ \/ disk' = disk
     \/ /\ image # "stable"
        /\ "stable" \in AssetNames
        /\ disk' = [disk EXCEPT !.stable = "torn"]
  /\ frames' = Pop
  /\ broken' = TRUE
  /\ UNCHANGED <<running, startedAs, image>>

(* extractall, then the stable name for a file unpacked under another. *)
Unpacked(asset) ==
  IF asset = "stable" THEN [disk EXCEPT !.stable = "new"]
  ELSE [disk EXCEPT !.stable = "new", !.loose = "none"]

(* The new program is unpacked and started; the old one ends at once.  The   *)
(* listening socket is closed before, so that a start that fails leaves a    *)
(* program that does not listen.                                             *)
UpdateUnpacked(asset) ==
  /\ frames # << >> /\ Inner.step = "downloading"
  /\ asset = "loose" => disk.stable = "none" \/ Removable("stable")
  /\ image # "stable"
  /\ disk' = Unpacked(asset)
  /\ frames' = Become("launching")
  /\ UNCHANGED <<running, startedAs, image, broken>>

(* Unpacked under another name, which the stable one does not give way to. *)
RenameToStableFails ==
  /\ frames # << >> /\ Inner.step = "downloading"
  /\ "loose" \in AssetNames
  /\ disk' \in {[disk EXCEPT !.loose = "new"]} \cup
               IF Removable("stable") THEN {[disk EXCEPT !.loose = "new", !.stable = "none"]} ELSE {}
  /\ frames' = Pop
  /\ broken' = TRUE
  /\ UNCHANGED <<running, startedAs, image>>

LaunchFails ==
  /\ frames # << >> /\ Inner.step = "launching"
  /\ frames' = Pop
  /\ broken' = TRUE
  /\ UNCHANGED <<disk, running, startedAs, image>>

(* A process starts from the file of a name. *)
Runs(name) ==
  /\ disk[name] \in Versions
  /\ running' = disk[name]
  /\ startedAs' = name
  /\ image' = name
  /\ frames' = << >>
  /\ broken' = (disk.stable \notin Versions)
  /\ UNCHANGED disk

Ends(interrupted) ==
  /\ running # "none"
  /\ running' = "none"
  /\ image' = "none"
  /\ frames' = << >>
  /\ broken' = (broken \/ interrupted)
  /\ UNCHANGED <<disk, startedAs>>

=============================================================================
