--------------------------- MODULE Desktop_proofs ---------------------------
(***************************************************************************)
(* What the program does to eqhost.txt and to its own executables, for any *)
(* number of installations, failures, kills, restarts and updates: the     *)
(* player's file is kept, an Exit whose restore went through leaves no     *)
(* proxy behind, and a whole program is there under the name it is started *)
(* by, however many checks are answered inside one another.  And what it   *)
(* does to its settings, for any file they were read from: a repair is     *)
(* enough and keeps the tokens, a change of backend leaves the tokens of   *)
(* the others alone, and a restart finds what the last one worked with.    *)
(***************************************************************************)
EXTENDS Desktop, SequenceTheorems, FiniteSetTheorems, TLAPS

-----------------------------------------------------------------------------
(* The player's file *)

EqTypes == host \in [Dirs -> Files] /\ backup \in [Dirs -> Files] /\ own \in [Dirs -> Files]

(* While there is no backup, the player's file is in place, and once there is *)
(* one, it is the backup: to be in one of the two is not enough to survive    *)
(* the next enable or restore.                                                *)
OwnAt(d) ==
  own[d] # NoFile =>
    /\ Direct(own[d])
    /\ IF backup[d] = NoFile THEN host[d] = own[d] ELSE backup[d] = own[d]

OwnInv == EqTypes /\ \A d \in Dirs : OwnAt(d)

(* The outcomes that keep what OwnAt says of an installation: the backup     *)
(* stays, is taken from a file that is still there, or takes its place.      *)
Keeps(d, o) ==
  /\ o.host \in Files /\ o.backup \in Files
  /\ \/ o.host = host[d] /\ o.backup = backup[d]
     \/ o.backup = BackupFor(d)
     \/ UsingProxy(d) /\ backup[d] = NoFile
     \/ backup[d] # NoFile /\ o.host = backup[d] /\ o.backup = NoFile

(* An outcome of each operation is one of these; disable_proxy is used only  *)
(* where the file is the proxy's.                                            *)
LEMMA FilesKnown ==
  /\ {Proxy} \in Files /\ {Default} \in Files /\ NoFile \in Files
  /\ \A file \in HostFiles : file \in Files
BY EqHostAssumption DEF Files

LEMMA BackupForTypes ==
  ASSUME EqTypes, NEW d \in Dirs
  PROVE  BackupFor(d) \in Files
<1>1. host[d] \in Files /\ backup[d] \in Files
  BY DEF EqTypes
<1> QED BY <1>1, FilesKnown DEF BackupFor, Snapshot

LEMMA OutcomeFields ==
  \A h, b, ok : Outcome(h, b, ok).host = h /\ Outcome(h, b, ok).backup = b
BY DEF Outcome

LEMMA EnableKeeps ==
  ASSUME EqTypes, NEW d \in Dirs, NEW o \in EnableProxy(d)
  PROVE  Keeps(d, o)
<1>1. host[d] \in Files /\ backup[d] \in Files /\ BackupFor(d) \in Files
  BY BackupForTypes DEF EqTypes
<1>2. \/ o = Outcome(host[d], backup[d], FALSE)
      \/ o = Outcome(host[d], BackupFor(d), FALSE)
      \/ o = Outcome({Proxy}, BackupFor(d), TRUE)
  BY DEF EnableProxy, Untouched
<1> QED BY <1>1, <1>2, FilesKnown DEF Keeps, Outcome

LEMMA DisableKeeps ==
  ASSUME EqTypes, NEW d \in Dirs, UsingProxy(d), NEW o \in DisableProxy(d)
  PROVE  Keeps(d, o)
<1>1. host[d] \in Files /\ backup[d] \in Files
  BY DEF EqTypes
<1>2. \/ \E ok \in BOOLEAN : o = Outcome(host[d], backup[d], ok)
      \/ backup[d] = NoFile /\ o = Outcome({Default}, NoFile, TRUE)
      \/ backup[d] # NoFile /\ o = Outcome(backup[d], NoFile, TRUE)
  BY DEF DisableProxy, Untouched
<1> QED BY <1>1, <1>2, FilesKnown DEF Keeps, Outcome

LEMMA RestoreKeeps ==
  ASSUME EqTypes, NEW d \in Dirs, NEW o \in RestoreBackup(d)
  PROVE  Keeps(d, o)
<1>1. host[d] \in Files /\ backup[d] \in Files
  BY DEF EqTypes
<1>2. \/ o = Outcome(host[d], backup[d], FALSE)
      \/ backup[d] # NoFile /\ o = Outcome(backup[d], NoFile, TRUE)
  BY DEF RestoreBackup, Untouched
<1> QED BY <1>1, <1>2, FilesKnown DEF Keeps, Outcome

(* Such an outcome preserves the invariant, and touches one installation.    *)
LEMMA PutKeeps ==
  ASSUME OwnInv, NEW d, NEW o, Put(d, o), d \in Dirs => Keeps(d, o)
  PROVE  OwnInv'
<1>1. CASE d \notin Dirs
  <2>1. UNCHANGED <<host, backup, own>>
    BY <1>1 DEF Put, OwnInv, EqTypes
  <2> QED BY <2>1 DEF OwnInv, EqTypes, OwnAt
<1>2. CASE d \in Dirs
  <2>1. EqTypes'
    BY <1>2 DEF Put, OwnInv, EqTypes, Keeps
  <2>2. ASSUME NEW e \in Dirs PROVE OwnAt(e)'
    <3>1. CASE e # d
      BY <1>2, <3>1 DEF Put, OwnInv, EqTypes, OwnAt
    <3>2. CASE e = d
      <4>1. host'[d] = o.host /\ backup'[d] = o.backup /\ own' = own
        BY <1>2 DEF Put, OwnInv, EqTypes
      <4>2. OwnAt(d)
        BY <1>2 DEF OwnInv
      <4> QED
        BY <1>2, <3>2, <4>1, <4>2
           DEF OwnAt, Keeps, BackupFor, Snapshot, Direct, UsingProxy, Found
    <3> QED BY <3>1, <3>2
  <2> QED BY <2>1, <2>2 DEF OwnInv
<1> QED BY <1>1, <1>2

LEMMA OwnUnchanged ==
  ASSUME OwnInv, UNCHANGED <<host, backup, own>>
  PROVE  OwnInv'
BY DEF OwnInv, EqTypes, OwnAt

LEMMA OwnInit ==
  ASSUME DesktopInit
  PROVE  OwnInv
BY EqHostAssumption DEF DesktopInit, EqInit, OwnInv, EqTypes, OwnAt, OwnOf, Direct, Files

LEMMA OwnStep ==
  ASSUME OwnInv, [DesktopNext]_desktopVars
  PROVE  OwnInv'
<1> USE DEF OwnInv
<1>1. ASSUME NEW name \in {"stable", "backup"}, NEW ok \in BOOLEAN, Start(name, ok)
      PROVE  OwnInv'
  <2>1. CASE IsOn(config', "proxy_enabled") /\ dir' # NoDir
    <3>1. PICK o \in EnableProxy(dir') : Put(dir', o)
      BY <1>1, <2>1 DEF Start
    <3> QED BY <3>1, EnableKeeps, PutKeeps
  <2>2. CASE ~(IsOn(config', "proxy_enabled") /\ dir' # NoDir)
    BY <1>1, <2>2, OwnUnchanged DEF Start
  <2> QED BY <2>1, <2>2
<1>2. ASSUME Exit PROVE OwnInv'
  <2>1. CASE UsingProxy(dir)
    <3>1. PICK o \in DisableProxy(dir) : Put(dir, o)
      BY <1>2, <2>1 DEF Exit
    <3> QED BY <2>1, <3>1, DisableKeeps, PutKeeps
  <2>2. CASE ~UsingProxy(dir)
    BY <1>2, <2>2, OwnUnchanged DEF Exit
  <2> QED BY <2>1, <2>2
<1>3. ASSUME Dies PROVE OwnInv'
  <2>1. CASE UNCHANGED <<host, backup, own>>
    BY <2>1, OwnUnchanged
  <2>2. CASE Put(dir, Outcome(host[dir], BackupFor(dir), FALSE))
    <3>1. dir \in Dirs => Keeps(dir, Outcome(host[dir], BackupFor(dir), FALSE))
      BY BackupForTypes DEF EqTypes, Keeps, Outcome
    <3> QED BY <2>2, <3>1, PutKeeps
  <2> QED BY <1>3, <2>1, <2>2 DEF Dies
<1>4. ASSUME Relaunches PROVE OwnInv'
  BY <1>4, OwnUnchanged DEF Relaunches
<1>5. ASSUME NEW mode \in 0..2, ModeChosen(mode) PROVE OwnInv'
  <2>1. PICK s \in Selected(mode) : Put(dir, s[1])
    BY <1>5 DEF ModeChosen
  <2>2. dir \in Dirs => Keeps(dir, s[1])
    <3>1. CASE mode # 2 /\ ~UsingProxy(dir)
      <4>1. PICK o \in EnableProxy(dir) : s = <<o, IF o.ok THEN mode ELSE 2>>
        BY <2>1, <3>1 DEF Selected
      <4> QED BY <4>1, EnableKeeps
    <3>2. CASE mode = 2 /\ UsingProxy(dir)
      <4>1. PICK o \in DisableProxy(dir) :
              s = <<o, IF o.ok THEN 2 ELSE IF IsOn(config, "proxy_only") THEN 1 ELSE 0>>
        BY <2>1, <3>2 DEF Selected
      <4> QED BY <3>2, <4>1, DisableKeeps
    <3>3. CASE ~(mode # 2 /\ ~UsingProxy(dir)) /\ ~(mode = 2 /\ UsingProxy(dir))
      <4>1. s = <<Untouched(dir, TRUE), mode>>
        BY <2>1, <3>3 DEF Selected
      <4> QED BY <4>1 DEF Keeps, Untouched, Outcome, EqTypes
    <3> QED BY <3>1, <3>2, <3>3
  <2> QED BY <2>1, <2>2, PutKeeps
<1>6. ASSUME NEW mode \in 0..2, ModeWithoutGame(mode) PROVE OwnInv'
  BY <1>6, OwnUnchanged DEF ModeWithoutGame, eqVars
<1>7. ASSUME NEW d \in Dirs, NEW ok \in BOOLEAN, Browse(d, ok) PROVE OwnInv'
  BY <1>7, OwnUnchanged DEF Browse
<1>8. ASSUME RestoreClicked PROVE OwnInv'
  <2>1. PICK o \in RestoreBackup(dir) : Put(dir, o)
    BY <1>8 DEF RestoreClicked
  <2> QED BY <2>1, RestoreKeeps, PutKeeps
<1>9. ASSUME NEW b \in Backends, NEW ok \in BOOLEAN, NEW ok2 \in BOOLEAN, ApiChosen(b, ok, ok2)
      PROVE  OwnInv'
  BY <1>9, OwnUnchanged DEF ApiChosen, eqVars
<1>10. ASSUME NEW token \in Tokens, NEW ok \in BOOLEAN, TokenEntered(token, ok) PROVE OwnInv'
  BY <1>10, OwnUnchanged DEF TokenEntered, eqVars
<1>11. ASSUME NEW d \in Dirs, NEW file \in HostFiles, FileWritten(d, file) PROVE OwnInv'
  <2>1. file \in Files
    BY EqHostAssumption DEF Files
  <2>2. /\ host' = [host EXCEPT ![d] = file] /\ backup' = backup
        /\ own' = [own EXCEPT ![d] = IF backup[d] = NoFile THEN OwnOf(file) ELSE NoFile]
    BY <1>11 DEF FileWritten, HostFileWritten
  <2>3. EqTypes'
    BY <2>1, <2>2 DEF EqTypes, OwnOf, Files
  <2>4. ASSUME NEW e \in Dirs PROVE OwnAt(e)'
    BY <2>2 DEF EqTypes, OwnAt, OwnOf, Direct
  <2> QED BY <2>3, <2>4
<1>12. ASSUME CheckAnswers PROVE OwnInv'
  BY <1>12, OwnUnchanged DEF CheckAnswers, eqVars
<1>13. ASSUME UpdateStep PROVE OwnInv'
  BY <1>13, OwnUnchanged DEF UpdateStep, eqVars
<1>14. ASSUME StartBreaks PROVE OwnInv'
  BY <1>14, OwnUnchanged DEF StartBreaks, eqVars
<1>15. ASSUME UNCHANGED desktopVars PROVE OwnInv'
  BY <1>15, OwnUnchanged DEF desktopVars, eqVars
<1> QED
  BY <1>1, <1>2, <1>3, <1>4, <1>5, <1>6, <1>7, <1>8, <1>9, <1>10, <1>11, <1>12, <1>13, <1>14, <1>15
     DEF DesktopNext

(* The player's own eqhost.txt is in place or in the backup, whatever fails, *)
(* dies, restarts or is updated.  (enable_proxy, disable_proxy,              *)
(* restore_backup, close_application)                                        *)
THEOREM OwnFileSafe == DesktopSpec => []OwnFileKept
<1>1. OwnInv => OwnFileKept
  BY DEF OwnInv, OwnAt, OwnFileKept
<1> QED BY OwnInit, OwnStep, <1>1, PTL DEF DesktopSpec

-----------------------------------------------------------------------------
(* The end of the program *)

BackupsDirect == \A d \in Dirs : backup[d] # NoFile => Direct(backup[d])

(* A clean end is one of a program that has ended since. *)
ExitInv ==
  /\ EqTypes
  /\ dir \in Dirs \cup {NoDir}
  /\ BackupsDirect
  /\ running # "none" => ended # "clean"
  /\ ExitIsDirect

(* What an operation may put: a backup that names a login server. *)
Sound(d, o) ==
  /\ o.host \in Files /\ o.backup \in Files
  /\ o.backup # NoFile => Direct(o.backup)

LEMMA DefaultDirect == Direct({Default})
BY EqHostAssumption DEF Direct

LEMMA BackupForDirect ==
  ASSUME EqTypes, BackupsDirect, NEW d \in Dirs
  PROVE  BackupFor(d) \in Files /\ Direct(BackupFor(d))
BY BackupForTypes, DefaultDirect DEF BackupFor, Snapshot, BackupsDirect

LEMMA EnableSound ==
  ASSUME EqTypes, BackupsDirect, NEW d \in Dirs, NEW o \in EnableProxy(d)
  PROVE  Sound(d, o)
<1>1. host[d] \in Files /\ backup[d] \in Files /\ BackupFor(d) \in Files
  BY BackupForTypes DEF EqTypes
<1>2. \/ o = Outcome(host[d], backup[d], FALSE)
      \/ o = Outcome(host[d], BackupFor(d), FALSE)
      \/ o = Outcome({Proxy}, BackupFor(d), TRUE)
  BY DEF EnableProxy, Untouched
<1> QED BY <1>1, <1>2, FilesKnown, BackupForDirect DEF Sound, Outcome, BackupsDirect

LEMMA DisableSound ==
  ASSUME EqTypes, BackupsDirect, NEW d \in Dirs, UsingProxy(d), NEW o \in DisableProxy(d)
  PROVE  Sound(d, o) /\ (o.ok => o.host # {Proxy})
<1>1. host[d] \in Files /\ backup[d] \in Files /\ (backup[d] # NoFile => Direct(backup[d]))
  BY DEF EqTypes, BackupsDirect
<1>2. Found(d) /\ host[d] = {Proxy}
  BY DEF UsingProxy
<1>3. \/ o = Outcome(host[d], backup[d], FALSE)
      \/ backup[d] = NoFile /\ o = Outcome({Default}, NoFile, TRUE)
      \/ backup[d] # NoFile /\ o = Outcome(backup[d], NoFile, TRUE)
  BY <1>2 DEF DisableProxy, Untouched
<1>4. ASSUME NEW file, Direct(file) PROVE file # {Proxy}
  BY <1>4 DEF Direct
<1> QED BY <1>1, <1>3, <1>4, FilesKnown, DefaultDirect DEF Sound, Outcome

LEMMA RestoreSound ==
  ASSUME EqTypes, BackupsDirect, NEW d \in Dirs, NEW o \in RestoreBackup(d)
  PROVE  Sound(d, o)
<1>1. host[d] \in Files /\ backup[d] \in Files
  BY DEF EqTypes
<1>2. \/ o = Outcome(host[d], backup[d], FALSE)
      \/ backup[d] # NoFile /\ o = Outcome(backup[d], NoFile, TRUE)
  BY DEF RestoreBackup, Untouched
<1> QED BY <1>1, <1>2, FilesKnown DEF Sound, Outcome, BackupsDirect

LEMMA PutSound ==
  ASSUME EqTypes, BackupsDirect, NEW d, NEW o, Put(d, o), d \in Dirs => Sound(d, o)
  PROVE  (EqTypes /\ BackupsDirect)'
<1>1. CASE d \notin Dirs
  <2>1. UNCHANGED <<host, backup, own>>
    BY <1>1 DEF Put, EqTypes
  <2> QED BY <2>1 DEF EqTypes, BackupsDirect
<1>2. CASE d \in Dirs
  BY <1>2 DEF Put, EqTypes, Sound, BackupsDirect
<1> QED BY <1>1, <1>2

(* A step of a program that runs on, or that does not end with an Exit. *)
LEMMA NotCleanEnd ==
  ASSUME (EqTypes /\ BackupsDirect)', dir' \in Dirs \cup {NoDir}, ended' # "clean"
  PROVE  ExitInv'
BY DEF ExitInv, ExitIsDirect

(* A step that touches neither eqhost.txt nor the end. *)
LEMMA ExitUnchanged ==
  ASSUME ExitInv, UNCHANGED <<host, backup, own, dir, running, ended>>
  PROVE  ExitInv'
BY DEF ExitInv, EqTypes, BackupsDirect, ExitIsDirect, Found

LEMMA ExitInit ==
  ASSUME DesktopInit
  PROVE  ExitInv
<1>1. EqTypes
  BY EqHostAssumption DEF DesktopInit, EqInit, EqTypes, OwnOf, Files
<1> QED
  BY <1>1 DEF DesktopInit, EqInit, UpdaterInit, ExitInv, BackupsDirect, ExitIsDirect

LEMMA ExitStep ==
  ASSUME ExitInv, [DesktopNext]_desktopVars
  PROVE  ExitInv'
<1>0. EqTypes /\ BackupsDirect /\ dir \in Dirs \cup {NoDir}
  BY DEF ExitInv
<1>00. UNCHANGED <<host, backup, own>> => (EqTypes /\ BackupsDirect)'
  BY <1>0 DEF EqTypes, BackupsDirect
<1>1. ASSUME NEW name \in {"stable", "backup"}, NEW ok \in BOOLEAN, Start(name, ok)
      PROVE  ExitInv'
  <2>1. dir' \in Dirs \cup {NoDir} /\ ended' = "running"
    BY <1>1, EqHostAssumption DEF Start, FindEqDirectory
  <2>2. CASE IsOn(config', "proxy_enabled") /\ dir' # NoDir
    <3>1. PICK o \in EnableProxy(dir') : Put(dir', o)
      BY <1>1, <2>2 DEF Start
    <3> QED BY <1>0, <2>1, <3>1, EnableSound, PutSound, NotCleanEnd
  <2>3. CASE ~(IsOn(config', "proxy_enabled") /\ dir' # NoDir)
    BY <1>1, <1>00, <2>1, <2>3, NotCleanEnd DEF Start
  <2> QED BY <2>2, <2>3
<1>2. ASSUME Exit PROVE ExitInv'
  <2>1. dir' = dir /\ running' = "none"
    BY <1>2 DEF Exit, Ends
  <2>2. CASE UsingProxy(dir)
    <3>1. PICK o \in DisableProxy(dir) : Put(dir, o) /\ ended' = IF o.ok THEN "clean" ELSE "failed"
      BY <1>2, <2>2 DEF Exit
    <3>2. dir \in Dirs
      BY <1>0, <2>2 DEF UsingProxy, Found
    <3>3. Sound(dir, o) /\ (o.ok => o.host # {Proxy})
      BY <1>0, <2>2, <3>2, DisableSound
    <3>4. (EqTypes /\ BackupsDirect)'
      BY <1>0, <3>1, <3>3, PutSound
    <3>5. host'[dir] = o.host
      BY <1>0, <3>1, <3>2 DEF Put, EqTypes
    <3> QED BY <1>0, <2>1, <3>1, <3>3, <3>4, <3>5 DEF ExitInv, ExitIsDirect
  <2>3. CASE ~UsingProxy(dir)
    <3>1. UNCHANGED <<host, backup, own>>
      BY <1>2, <2>3 DEF Exit
    <3>2. Found(dir)' => host'[dir'] # {Proxy}
      BY <2>1, <2>3, <3>1 DEF UsingProxy, Found
    <3> QED BY <1>0, <1>00, <2>1, <3>1, <3>2 DEF ExitInv, ExitIsDirect
  <2> QED BY <2>2, <2>3
<1>3. ASSUME Dies PROVE ExitInv'
  <2>1. dir' = dir /\ ended' = "killed"
    BY <1>3 DEF Dies
  <2>2. CASE UNCHANGED <<host, backup, own>>
    BY <1>0, <1>00, <2>1, <2>2, NotCleanEnd
  <2>3. CASE Put(dir, Outcome(host[dir], BackupFor(dir), FALSE))
    <3>1. dir \in Dirs => Sound(dir, Outcome(host[dir], BackupFor(dir), FALSE))
      BY <1>0, BackupForDirect DEF Sound, Outcome, EqTypes
    <3> QED BY <1>0, <2>1, <2>3, <3>1, PutSound, NotCleanEnd
  <2> QED BY <1>3, <2>2, <2>3 DEF Dies
<1>4. ASSUME Relaunches PROVE ExitInv'
  <2>1. UNCHANGED <<host, backup, own>> /\ dir' = dir /\ ended' = "updated"
    BY <1>4 DEF Relaunches
  <2> QED BY <1>0, <1>00, <2>1, NotCleanEnd
<1>5. ASSUME NEW mode \in 0..2, ModeChosen(mode) PROVE ExitInv'
  <2>1. dir' = dir /\ ended' # "clean"
    BY <1>5 DEF ModeChosen, Op, ExitInv
  <2>2. PICK s \in Selected(mode) : Put(dir, s[1])
    BY <1>5 DEF ModeChosen
  <2>3. dir \in Dirs => Sound(dir, s[1])
    <3>1. CASE mode # 2 /\ ~UsingProxy(dir)
      <4>1. PICK o \in EnableProxy(dir) : s = <<o, IF o.ok THEN mode ELSE 2>>
        BY <2>2, <3>1 DEF Selected
      <4> QED BY <1>0, <4>1, EnableSound
    <3>2. CASE mode = 2 /\ UsingProxy(dir)
      <4>1. PICK o \in DisableProxy(dir) :
              s = <<o, IF o.ok THEN 2 ELSE IF IsOn(config, "proxy_only") THEN 1 ELSE 0>>
        BY <2>2, <3>2 DEF Selected
      <4> QED BY <1>0, <3>2, <4>1, DisableSound
    <3>3. CASE ~(mode # 2 /\ ~UsingProxy(dir)) /\ ~(mode = 2 /\ UsingProxy(dir))
      <4>1. s = <<Untouched(dir, TRUE), mode>>
        BY <2>2, <3>3 DEF Selected
      <4> QED BY <1>0, <4>1 DEF Sound, Untouched, Outcome, EqTypes, BackupsDirect
    <3> QED BY <3>1, <3>2, <3>3
  <2> QED BY <1>0, <2>1, <2>2, <2>3, PutSound, NotCleanEnd
<1>6. ASSUME NEW mode \in 0..2, ModeWithoutGame(mode) PROVE ExitInv'
  BY <1>6, ExitUnchanged DEF ModeWithoutGame, eqVars, updateVars
<1>7. ASSUME NEW d \in Dirs, NEW ok \in BOOLEAN, Browse(d, ok) PROVE ExitInv'
  <2>1. ended' # "clean" /\ dir' \in Dirs \cup {NoDir}
    BY <1>0, <1>7 DEF Browse, Op, ExitInv
  <2> QED BY <1>00, <1>7, <2>1, NotCleanEnd DEF Browse
<1>8. ASSUME RestoreClicked PROVE ExitInv'
  <2>1. dir' = dir /\ ended' # "clean" /\ dir \in Dirs
    BY <1>0, <1>8 DEF RestoreClicked, Op, ExitInv
  <2>2. PICK o \in RestoreBackup(dir) : Put(dir, o)
    BY <1>8 DEF RestoreClicked
  <2> QED BY <1>0, <2>1, <2>2, RestoreSound, PutSound, NotCleanEnd
<1>9. ASSUME NEW b \in Backends, NEW ok \in BOOLEAN, NEW ok2 \in BOOLEAN, ApiChosen(b, ok, ok2)
      PROVE  ExitInv'
  BY <1>9, ExitUnchanged DEF ApiChosen, eqVars, updateVars
<1>10. ASSUME NEW token \in Tokens, NEW ok \in BOOLEAN, TokenEntered(token, ok) PROVE ExitInv'
  BY <1>10, ExitUnchanged DEF TokenEntered, eqVars, updateVars
<1>11. ASSUME NEW d \in Dirs, NEW file \in HostFiles, FileWritten(d, file) PROVE ExitInv'
  <2>1. file \in Files /\ file # {Proxy}
    BY EqHostAssumption, FilesKnown
  <2>2. /\ host' = [host EXCEPT ![d] = file] /\ backup' = backup /\ dir' = dir
        /\ own' = [own EXCEPT ![d] = IF backup[d] = NoFile THEN OwnOf(file) ELSE NoFile]
        /\ running' = running /\ ended' = ended
    BY <1>11 DEF FileWritten, HostFileWritten, updateVars
  <2>3. EqTypes'
    BY <1>0, <2>1, <2>2 DEF EqTypes, OwnOf, Files
  <2>4. BackupsDirect'
    BY <1>0, <2>2 DEF BackupsDirect
  <2>5. ExitIsDirect'
    BY <1>0, <2>1, <2>2, <2>3 DEF ExitInv, ExitIsDirect, Found, EqTypes
  <2> QED BY <1>0, <2>2, <2>3, <2>4, <2>5 DEF ExitInv
<1>12. ASSUME CheckAnswers PROVE ExitInv'
  BY <1>12, ExitUnchanged DEF CheckAnswers, UpdateFound, eqVars
<1>13. ASSUME UpdateStep PROVE ExitInv'
  <2>1. running' = running
    BY <1>13 DEF UpdateStep, UpdateDeclined, UpdateAccepted, DownloadEnds, DownloadBreaks,
                 RenameToStableFails, LaunchFails, UpdateUnpacked
  <2> QED BY <1>13, <2>1, ExitUnchanged DEF UpdateStep, eqVars
<1>14. ASSUME StartBreaks PROVE ExitInv'
  BY <1>14, ExitUnchanged DEF StartBreaks, eqVars, updateVars
<1>15. ASSUME UNCHANGED desktopVars PROVE ExitInv'
  BY <1>15, ExitUnchanged DEF desktopVars, eqVars, updateVars
<1> QED
  BY <1>1, <1>2, <1>3, <1>4, <1>5, <1>6, <1>7, <1>8, <1>9, <1>10, <1>11, <1>12, <1>13, <1>14, <1>15
     DEF DesktopNext

(* An Exit whose restore went through leaves the installation in use with a  *)
(* file that is not the proxy's, as long as nobody else writes one.          *)
(* (close_application, enable_proxy)                                         *)
THEOREM ExitSafe == DesktopSpec => []ExitIsDirect
<1>1. ExitInv => ExitIsDirect
  BY DEF ExitInv
<1> QED BY ExitInit, ExitStep, <1>1, PTL DEF DesktopSpec

-----------------------------------------------------------------------------
(* The dialogs *)

Steps == {"asking", "downloading", "launching"}
Frame == [step : Steps, backedUp : BOOLEAN]

LEMMA PopFrames ==
  ASSUME frames \in Seq(Frame), frames # << >>
  PROVE  /\ Len(frames) \in Nat \ {0}
         /\ Inner \in Frame
         /\ Pop \in Seq(Frame)
         /\ Len(Pop) = Len(frames) - 1
         /\ \A i \in 1 .. Len(frames) - 1 : Pop[i] = frames[i]
<1>1. Len(frames) \in Nat \ {0} /\ Inner \in Frame
  BY DEF Inner
<1>2. \A i \in 1 .. Len(frames) - 1 : frames[i] \in Frame
  BY <1>1
<1>3. /\ Pop \in Seq(Frame)
      /\ Len(Pop) = IF 1 <= Len(frames) - 1 THEN Len(frames) - 1 - 1 + 1 ELSE 0
      /\ \A i \in 1 .. Len(frames) - 1 - 1 + 1 : Pop[i] = frames[1 + i - 1]
  BY <1>1, <1>2, SubSeqProperties DEF Pop
<1>4. \A i \in 1 .. Len(frames) - 1 : Pop[i] = frames[i]
  <2> TAKE i \in 1 .. Len(frames) - 1
  <2>1. i \in 1 .. Len(frames) - 1 - 1 + 1 /\ 1 + i - 1 = i
    BY <1>1
  <2> QED BY <1>3, <2>1
<1>5. Len(Pop) = Len(frames) - 1
  <2>1. ASSUME NEW n \in Nat \ {0}
        PROVE  (IF 1 <= n - 1 THEN n - 1 - 1 + 1 ELSE 0) = n - 1
    OBVIOUS
  <2> QED BY <1>1, <1>3, <2>1
<1> QED BY <1>1, <1>3, <1>4, <1>5

LEMMA BecomeFrames ==
  ASSUME frames \in Seq(Frame), frames # << >>, NEW step \in Steps
  PROVE  Become(step) \in Seq(Frame)
<1>1. [Inner EXCEPT !.step = step] \in Frame
  BY PopFrames DEF Frame
<1> QED BY <1>1, PopFrames DEF Become

-----------------------------------------------------------------------------
(* A program on disk *)

Names == {"stable", "backup", "loose"}

(* The file a program runs from is there and is whole: nothing removes or     *)
(* overwrites it.  No dialog is open without a program.                       *)
DiskInv ==
  /\ disk \in [Names -> Versions \cup {"none", "torn"}]
  /\ running \in Versions \cup {"none"}
  /\ frames \in Seq(Frame)
  /\ running # "none" => image \in {"stable", "backup"} /\ disk[image] \in Versions
  /\ frames # << >> => running # "none"
  /\ ProgramOnDisk

LEMMA DiskUnchanged ==
  ASSUME DiskInv, UNCHANGED updateVars
  PROVE  DiskInv'
BY DEF DiskInv, ProgramOnDisk, updateVars

LEMMA DiskInit ==
  ASSUME UpdaterInit
  PROVE  DiskInv
BY DEF UpdaterInit, DiskInv, ProgramOnDisk, Names, Versions

(* As long as the file of the running program stays whole, there is one.      *)
LEMMA ImageSuffices ==
  ASSUME disk' \in [Names -> Versions \cup {"none", "torn"}],
         running' \in Versions, frames' \in Seq(Frame),
         image' \in {"stable", "backup"}, disk'[image'] \in Versions
  PROVE  DiskInv'
BY DEF DiskInv, ProgramOnDisk, Names, Versions

LEMMA DiskStart ==
  ASSUME DiskInv, NEW name \in {"stable", "backup"}, Runs(name)
  PROVE  DiskInv'
<1>1. /\ disk' = disk /\ disk[name] \in Versions
      /\ running' = disk[name] /\ image' = name /\ frames' = << >>
  BY DEF Runs
<1>2. frames' \in Seq(Frame)
  BY <1>1
<1> QED BY <1>1, <1>2, ImageSuffices DEF DiskInv

LEMMA DiskEnd ==
  ASSUME DiskInv, NEW interrupted, Ends(interrupted)
  PROVE  DiskInv'
<1>1. disk' = disk /\ running' = "none" /\ frames' = << >>
  BY DEF Ends
<1>2. frames' \in Seq(Frame)
  BY <1>1
<1> QED BY <1>1, <1>2 DEF DiskInv, ProgramOnDisk

LEMMA DiskCheck ==
  ASSUME DiskInv, UpdateFound
  PROVE  DiskInv'
<1>1. [step |-> "asking", backedUp |-> FALSE] \in Frame
  BY DEF Frame, Steps
<1>2. frames' \in Seq(Frame) /\ UNCHANGED <<disk, running, image>> /\ running \in Versions
  BY <1>1, AppendProperties DEF DiskInv, UpdateFound, Versions
<1> QED BY <1>2, ImageSuffices DEF DiskInv, Versions

LEMMA DiskUpdate ==
  ASSUME DiskInv, UpdateStep
  PROVE  DiskInv'
<1>1. frames # << >> /\ running' = running
  BY DEF UpdateStep, UpdateDeclined, UpdateAccepted, DownloadEnds, DownloadBreaks,
         RenameToStableFails, LaunchFails, UpdateUnpacked
<1>2. /\ running \in Versions /\ image \in {"stable", "backup"} /\ disk[image] \in Versions
      /\ disk \in [Names -> Versions \cup {"none", "torn"}] /\ frames \in Seq(Frame)
  BY <1>1 DEF DiskInv, Versions
<1>3. Pop \in Seq(Frame)
  BY <1>1, <1>2, PopFrames
<1>4. SUFFICES /\ disk' \in [Names -> Versions \cup {"none", "torn"}]
               /\ frames' \in Seq(Frame)
               /\ image' \in {"stable", "backup"} /\ disk'[image'] \in Versions
  BY <1>1, <1>2, ImageSuffices
<1>5. CASE UpdateDeclined
  BY <1>2, <1>3, <1>5 DEF UpdateDeclined
<1>6. CASE UpdateAccepted
  <2>1. CASE UNCHANGED <<disk, image>> /\ frames' = Become("downloading")
    BY <1>1, <1>2, <2>1, BecomeFrames DEF Steps
  <2>2. CASE /\ disk.stable # "none"
             /\ disk.backup = "none" \/ Removable("backup")
             /\ disk' = [disk EXCEPT !.stable = "none", !.backup = disk.stable]
             /\ image' = IF image = "stable" THEN "backup" ELSE image
             /\ frames' = Append(Pop, [step |-> "downloading", backedUp |-> TRUE])
    <3>1. image = "stable"
      BY <1>2, <2>2 DEF Removable, Versions
    <3>2. [step |-> "downloading", backedUp |-> TRUE] \in Frame
      BY DEF Frame, Steps
    <3>3. frames' \in Seq(Frame)
      BY <1>3, <2>2, <3>2, AppendProperties
    <3> QED BY <1>2, <2>2, <3>1, <3>3 DEF Names, Versions
  <2>3. CASE /\ disk' \in {disk} \cup IF Removable("backup") THEN {[disk EXCEPT !.backup = "none"]} ELSE {}
             /\ frames' = Pop /\ image' = image
    BY <1>2, <1>3, <2>3 DEF Removable, Names, Versions
  <2> QED BY <1>6, <2>1, <2>2, <2>3 DEF UpdateAccepted
<1>7. CASE DownloadEnds
  <2>1. /\ disk' \in RenamedBack /\ frames' = Pop
        /\ image' = IF disk'.backup = "none" /\ image = "backup" THEN "stable" ELSE image
    BY <1>7 DEF DownloadEnds
  <2>2. CASE disk' = disk
    BY <1>2, <1>3, <2>1, <2>2 DEF Versions
  <2>3. CASE /\ disk.stable = "none" /\ disk.backup # "none"
             /\ disk' = [disk EXCEPT !.stable = disk.backup, !.backup = "none"]
    <3>1. image = "backup"
      BY <1>2, <2>3 DEF Versions
    <3> QED BY <1>2, <1>3, <2>1, <2>3, <3>1 DEF Names, Versions
  <2> QED BY <2>1, <2>2, <2>3 DEF RenamedBack
<1>8. CASE DownloadBreaks
  BY <1>2, <1>3, <1>8 DEF DownloadBreaks, Names, Versions
<1>9. CASE RenameToStableFails
  <2>1. /\ disk' \in {[disk EXCEPT !.loose = "new"]} \cup
               IF Removable("stable") THEN {[disk EXCEPT !.loose = "new", !.stable = "none"]} ELSE {}
        /\ frames' = Pop /\ image' = image
    BY <1>9 DEF RenameToStableFails
  <2> QED BY <1>2, <1>3, <2>1 DEF Removable, Names, Versions
<1>10. CASE LaunchFails
  BY <1>2, <1>3, <1>10 DEF LaunchFails
<1>11. ASSUME NEW asset \in AssetNames, UpdateUnpacked(asset)
       PROVE  /\ disk' \in [Names -> Versions \cup {"none", "torn"}]
              /\ frames' \in Seq(Frame)
              /\ image' \in {"stable", "backup"} /\ disk'[image'] \in Versions
  <2>1. frames' = Become("launching") /\ image' = image /\ image # "stable" /\ disk' = Unpacked(asset)
    BY <1>11 DEF UpdateUnpacked
  <2>2. frames' \in Seq(Frame)
    BY <1>1, <1>2, <2>1, BecomeFrames DEF Steps
  <2> QED BY <1>2, <2>1, <2>2 DEF Unpacked, Names, Versions
<1> QED BY <1>5, <1>6, <1>7, <1>8, <1>9, <1>10, <1>11 DEF UpdateStep

LEMMA DiskStep ==
  ASSUME DiskInv, [DesktopNext]_desktopVars
  PROVE  DiskInv'
<1>1. ASSUME NEW name \in {"stable", "backup"}, NEW ok \in BOOLEAN, Start(name, ok)
      PROVE  DiskInv'
  BY <1>1, DiskStart DEF Start
<1>2. CASE Exit \/ Dies \/ Relaunches
  BY <1>2, DiskEnd DEF Exit, Dies, Relaunches
<1>3. CASE CheckAnswers
  BY <1>3, DiskCheck DEF CheckAnswers
<1>4. CASE UpdateStep
  BY <1>4, DiskUpdate
<1>5. CASE UNCHANGED updateVars
  BY <1>5, DiskUnchanged
<1> QED
  BY <1>1, <1>2, <1>3, <1>4, <1>5
     DEF DesktopNext, desktopVars, ModeChosen, ModeWithoutGame, Browse, RestoreClicked,
         ApiChosen, TokenEntered, FileWritten, StartBreaks

(* No update leaves the player without a program: a whole executable is on    *)
(* disk whatever step of an update, or of one begun inside it, fails or is    *)
(* cut short.  (_prompt_and_apply_update)                                     *)
THEOREM ProgramKept == DesktopSpec => []ProgramOnDisk
<1>1. DesktopInit => DiskInv
  BY DiskInit DEF DesktopInit
<1>2. DiskInv /\ [DesktopNext]_desktopVars => DiskInv'
  BY DiskStep
<1>3. DiskInv => ProgramOnDisk
  BY DEF DiskInv
<1> QED BY <1>1, <1>2, <1>3, PTL DEF DesktopSpec

-----------------------------------------------------------------------------
(* The stable name *)

(* The update of dialog i has renamed the program and still waits for its     *)
(* zip; what has come on top of it is only asking, and cannot rename again.   *)
Recovers(i) ==
  /\ frames[i].step = "downloading" /\ frames[i].backedUp
  /\ \A j \in i + 1 .. Len(frames) : frames[j].step = "asking"

Renamed ==
  /\ disk.stable = "none" /\ image = "backup" /\ startedAs = "stable"
  /\ \E i \in 1 .. Len(frames) : Recovers(i)

StableInv == DiskInv /\ (broken \/ disk.stable \in Versions \/ Renamed)

(* The dialog that recovers is below a dialog that asks.                      *)
LEMMA StillRenamed ==
  ASSUME DiskInv, Renamed, frames # << >>, Inner.step = "asking", frames' = Pop,
         UNCHANGED <<disk, image, startedAs>>
  PROVE  Renamed'
<1>1. PICK i \in 1 .. Len(frames) : Recovers(i)
  BY DEF Renamed
<1>2. /\ Len(frames) \in Nat \ {0} /\ Len(frames') = Len(frames) - 1
      /\ \A j \in 1 .. Len(frames) - 1 : frames'[j] = frames[j]
  BY PopFrames DEF DiskInv
<1>3. i # Len(frames)
  BY <1>1 DEF Recovers, Inner
<1>4. i \in 1 .. Len(frames) - 1
  BY <1>2, <1>3
<1>5. Recovers(i)'
  BY <1>1, <1>2, <1>4 DEF Recovers
<1> QED BY <1>2, <1>4, <1>5 DEF Renamed

(* When the innermost dialog does not ask, it is the one that recovers.       *)
LEMMA InnerRecovers ==
  ASSUME DiskInv, Renamed, Inner.step # "asking"
  PROVE  Inner.step = "downloading" /\ Inner.backedUp
<1>1. PICK i \in 1 .. Len(frames) : Recovers(i)
  BY DEF Renamed
<1>2. Len(frames) \in Nat
  BY DEF DiskInv
<1>3. CASE i = Len(frames)
  BY <1>1, <1>3 DEF Recovers, Inner
<1>4. CASE i # Len(frames)
  BY <1>1, <1>2, <1>4 DEF Recovers, Inner
<1> QED BY <1>3, <1>4

LEMMA StableCheck ==
  ASSUME StableInv, UpdateFound
  PROVE  broken' \/ disk'.stable \in Versions \/ Renamed'
<1>1. SUFFICES ASSUME Renamed PROVE Renamed'
  BY DEF StableInv, UpdateFound
<1>2. PICK i \in 1 .. Len(frames) : Recovers(i)
  BY <1>1 DEF Renamed
<1>3. [step |-> "asking", backedUp |-> FALSE] \in Frame
  BY DEF Frame, Steps
<1>4. /\ Len(frames) \in Nat /\ Len(frames') = Len(frames) + 1
      /\ \A j \in 1 .. Len(frames) : frames'[j] = frames[j]
      /\ frames'[Len(frames) + 1].step = "asking"
  BY <1>3, AppendProperties DEF StableInv, DiskInv, UpdateFound
<1>5. Recovers(i)'
  <2>1. frames'[i] = frames[i]
    BY <1>4
  <2>2. ASSUME NEW j \in i + 1 .. Len(frames') PROVE frames'[j].step = "asking"
    <3>1. CASE j = Len(frames) + 1
      BY <1>4, <3>1
    <3>2. CASE j # Len(frames) + 1
      <4>1. j \in 1 .. Len(frames) /\ j \in i + 1 .. Len(frames)
        BY <1>4, <3>2
      <4> QED BY <1>2, <1>4, <4>1 DEF Recovers
    <3> QED BY <3>1, <3>2
  <2> QED BY <1>2, <2>1, <2>2 DEF Recovers
<1> QED BY <1>1, <1>4, <1>5 DEF Renamed, UpdateFound

LEMMA StableUpdate ==
  ASSUME StableInv, UpdateStep
  PROVE  broken' \/ disk'.stable \in Versions \/ Renamed'
<1>0. DiskInv /\ frames # << >>
  BY DEF StableInv, UpdateStep, UpdateDeclined, UpdateAccepted, DownloadEnds, DownloadBreaks,
         RenameToStableFails, LaunchFails, UpdateUnpacked
<1>00. /\ image \in {"stable", "backup"} /\ disk[image] \in Versions
       /\ disk \in [Names -> Versions \cup {"none", "torn"}] /\ frames \in Seq(Frame)
  BY <1>0 DEF DiskInv
<1>1. CASE UpdateDeclined
  BY <1>0, <1>1, StillRenamed DEF StableInv, UpdateDeclined
<1>2. CASE UpdateAccepted
  <2>1. CASE startedAs # "stable" /\ UNCHANGED <<disk, image, broken>>
    BY <2>1 DEF StableInv, Renamed
  <2>2. CASE /\ startedAs = "stable" /\ disk.stable # "none"
             /\ disk.backup = "none" \/ Removable("backup")
             /\ disk' = [disk EXCEPT !.stable = "none", !.backup = disk.stable]
             /\ image' = IF image = "stable" THEN "backup" ELSE image
             /\ frames' = Append(Pop, [step |-> "downloading", backedUp |-> TRUE])
    <3>1. image = "stable"
      BY <1>00, <2>2 DEF Removable, Versions
    <3>2. [step |-> "downloading", backedUp |-> TRUE] \in Frame /\ Pop \in Seq(Frame)
      BY <1>0, <1>00, PopFrames DEF Frame, Steps
    <3>3. /\ Len(Pop) \in Nat /\ Len(frames') = Len(Pop) + 1
          /\ frames'[Len(Pop) + 1] = [step |-> "downloading", backedUp |-> TRUE]
      BY <2>2, <3>2, AppendProperties
    <3>4. PICK k \in 1 .. Len(frames') : k = Len(frames')
      BY <3>3
    <3>5. Recovers(k)'
      BY <3>3, <3>4 DEF Recovers
    <3>6. disk'.stable = "none" /\ image' = "backup" /\ startedAs' = "stable"
      BY <1>00, <1>2, <2>2, <3>1 DEF Names, UpdateAccepted
    <3> QED BY <3>4, <3>5, <3>6 DEF Renamed
  <2>3. CASE /\ disk' \in {disk} \cup IF Removable("backup") THEN {[disk EXCEPT !.backup = "none"]} ELSE {}
             /\ frames' = Pop /\ UNCHANGED <<image, broken>>
    <3>1. CASE disk.stable \in Versions
      BY <1>00, <2>3, <3>1 DEF Names
    <3>2. CASE Renamed
      <4>1. disk' = disk
        BY <2>3, <3>2 DEF Renamed, Removable
      <4> QED BY <1>0, <1>2, <2>3, <3>2, <4>1, StillRenamed DEF UpdateAccepted
    <3> QED BY <2>3, <3>1, <3>2 DEF StableInv
  <2> QED BY <1>2, <2>1, <2>2, <2>3 DEF UpdateAccepted
<1>3. CASE DownloadEnds
  <2>1. Inner.step = "downloading" /\ disk' \in RenamedBack /\ broken' = broken
    BY <1>3 DEF DownloadEnds
  <2>2. CASE disk.stable \in Versions
    BY <2>1, <2>2 DEF RenamedBack, Versions
  <2>3. CASE Renamed
    <3>1. Inner.backedUp /\ disk.backup \in Versions /\ disk.stable = "none"
      BY <1>0, <1>00, <2>1, <2>3, InnerRecovers DEF Renamed
    <3>2. disk' = [disk EXCEPT !.stable = disk.backup, !.backup = "none"]
      BY <2>1, <3>1 DEF RenamedBack, Versions
    <3> QED BY <1>00, <3>1, <3>2 DEF Names
  <2> QED BY <2>1, <2>2, <2>3 DEF StableInv
<1>4. CASE DownloadBreaks \/ RenameToStableFails \/ LaunchFails
  BY <1>4 DEF DownloadBreaks, RenameToStableFails, LaunchFails
<1>5. ASSUME NEW asset \in AssetNames, UpdateUnpacked(asset)
      PROVE  disk'.stable \in Versions
  BY <1>00, <1>5 DEF UpdateUnpacked, Unpacked, Names, Versions
<1> QED BY <1>1, <1>2, <1>3, <1>4, <1>5 DEF UpdateStep

LEMMA StableStep ==
  ASSUME StableInv, [DesktopNext]_desktopVars
  PROVE  StableInv'
<1>1. SUFFICES broken' \/ disk'.stable \in Versions \/ Renamed'
  BY DiskStep DEF StableInv
<1>2. ASSUME NEW name \in {"stable", "backup"}, NEW ok \in BOOLEAN, Start(name, ok)
      PROVE  broken' \/ disk'.stable \in Versions
  BY <1>2 DEF Start, Runs
<1>3. ASSUME NEW interrupted \in BOOLEAN, Ends(interrupted),
             frames # << >> => interrupted \/ Inner.step = "launching"
      PROVE  broken' \/ disk'.stable \in Versions
  <2>1. disk' = disk /\ broken' = (broken \/ interrupted)
    BY <1>3 DEF Ends
  <2>2. CASE Renamed
    <3>1. frames # << >>
      BY <2>2 DEF Renamed
    <3> QED BY <1>3, <2>1, <2>2, <3>1, InnerRecovers DEF StableInv
  <2> QED BY <2>1, <2>2 DEF StableInv
<1>4. CASE Exit \/ Relaunches
  BY <1>3, <1>4 DEF Exit, Relaunches
<1>5. CASE Dies
  BY <1>3, <1>5 DEF Dies
<1>6. CASE CheckAnswers
  BY <1>6, StableCheck DEF CheckAnswers
<1>7. CASE UpdateStep
  BY <1>7, StableUpdate
<1>8. CASE UNCHANGED updateVars
  BY <1>8 DEF updateVars, StableInv, Renamed, Recovers
<1> QED
  BY <1>2, <1>4, <1>5, <1>6, <1>7, <1>8
     DEF DesktopNext, desktopVars, ModeChosen, ModeWithoutGame, Browse, RestoreClicked,
         ApiChosen, TokenEntered, FileWritten, StartBreaks

(* An update that is declined, cancelled or finds no zip leaves the program   *)
(* under its stable name, however many checks are answered in the middle of   *)
(* it.  (_prompt_and_apply_update)                                            *)
THEOREM StableNameKept == DesktopSpec => []StableKept
<1>1. ASSUME DesktopInit PROVE StableInv
  <2>1. disk.stable = "old"
    BY <1>1 DEF DesktopInit, UpdaterInit
  <2> QED BY <1>1, <2>1, DiskInit DEF DesktopInit, StableInv, Versions
<1>2. StableInv /\ [DesktopNext]_desktopVars => StableInv'
  BY StableStep
<1>3. StableInv => StableKept
  BY DEF StableInv, StableKept, Renamed
<1> QED BY <1>1, <1>2, <1>3, PTL DEF DesktopSpec

-----------------------------------------------------------------------------
(* Settings *)

LEMMA FirstOne ==
  ASSUME NEW S \in SUBSET Nat, S # {}
  PROVE  \E x \in S : \A y \in S : x <= y
<1>1. PICK x \in S : \A y \in S : ~(<<y, x>> \in OpToRel(<, Nat))
  BY NatLessThanWellFounded, WFMin, Zenon
<1>2. ASSUME NEW y \in S
      PROVE  x <= y
  <2>1. ~(y < x)
    BY <1>1 DEF OpToRel
  <2> QED BY <2>1
<1> QED BY <1>2

LEMMA LastOne ==
  ASSUME NEW n \in Nat, NEW S \in SUBSET (1 .. n), S # {}
  PROVE  \E x \in S : \A y \in S : y <= x
<1> DEFINE T == {n - x : x \in S}
<1>1. T \in SUBSET Nat /\ T # {}
  <2>1. \A x \in S : n - x \in Nat
    OBVIOUS
  <2> QED BY <2>1
<1>2. PICK z \in T : \A y \in T : z <= y
  BY <1>1, FirstOne
<1>3. PICK x \in S : z = n - x
  OBVIOUS
<1>4. ASSUME NEW y \in S
      PROVE  y <= x
  <2>1. n - y \in T
    OBVIOUS
  <2>2. n - x <= n - y
    BY <1>2, <1>3, <2>1
  <2> QED BY <2>2
<1> QED BY <1>4

(* The value that is picked is the last one that is not among these.          *)
Picked(v, values, these, default) ==
  \/ /\ \A i \in DOMAIN values : values[i] \in these
     /\ v = default
  \/ \E i \in DOMAIN values :
       /\ v = values[i] /\ v \notin these
       /\ \A j \in DOMAIN values : j > i => values[j] \in these

LEMMA LastPicked ==
  ASSUME NEW values \in Seq(Text), NEW these, NEW default
  PROVE  Picked(LastOtherThan(values, these, default), values, these, default)
<1> DEFINE others == {i \in DOMAIN values : values[i] \notin these}
<1>1. CASE others = {}
  BY <1>1 DEF LastOtherThan, Picked
<1>2. CASE others # {}
  <2>1. Len(values) \in Nat /\ others \in SUBSET (1 .. Len(values))
    OBVIOUS
  <2>2. PICK k \in others : \A j \in others : j <= k
    BY <1>2, <2>1, LastOne
  <2> DEFINE m == Max(others)
  <2>3. m \in others /\ \A j \in others : m >= j
    <3>1. \E x \in others : \A j \in others : x >= j
      BY <2>2, <2>1
    <3> QED BY <3>1 DEF Max
  <2>4. LastOtherThan(values, these, default) = values[m]
    BY <1>2 DEF LastOtherThan
  <2>5. m \in DOMAIN values /\ values[m] \notin these
    BY <2>3
  <2>6. \A j \in DOMAIN values : values[j] \notin these => m >= j
    BY <2>3
  <2> HIDE DEF m, others
  <2>7. ASSUME NEW j \in DOMAIN values, j > m
        PROVE  values[j] \in these
    BY <2>5, <2>6, <2>7
  <2> QED BY <2>4, <2>5, <2>7 DEF Picked
<1> QED BY <1>1, <1>2

LEMMA TokenPicked ==
  ASSUME NEW values \in Seq(Text)
  PROVE  /\ Picked(Collapsed(values), values, {""}, "")
         /\ Picked(PickToken(values), values, {""} \cup Urls, Collapsed(values))
BY LastPicked DEF Collapsed, PickToken

LEMMA CollapsedString ==
  ASSUME NEW values \in Seq(Text)
  PROVE  Collapsed(values) \in Text /\ PickToken(values) \in Text
<1>1. \A i \in DOMAIN values : values[i] \in Text
  OBVIOUS
<1>2. Collapsed(values) \in Text
  <2>1. "" \in Text
    BY TextAssumption
  <2>2. \/ Collapsed(values) = ""
        \/ \E i \in DOMAIN values : Collapsed(values) = values[i]
    BY TokenPicked DEF Picked
  <2> QED BY <1>1, <2>1, <2>2
<1>3. PickToken(values) \in Text
  BY <1>1, <1>2, TokenPicked DEF Picked
<1> QED BY <1>2, <1>3

(* A token is picked if there is one, and a URL only if nothing else is.      *)
LEMMA PickedWhenGiven ==
  ASSUME NEW values \in Seq(Text)
  PROVE  /\ PickToken(values) = "" <=> Collapsed(values) = ""
         /\ PickToken(values) \in Urls => PickToken(values) = Collapsed(values)
<1>1. \/ PickToken(values) = Collapsed(values)
      \/ PickToken(values) \notin {""} \cup Urls
         /\ \E i \in DOMAIN values : PickToken(values) = values[i]
  BY TokenPicked DEF Picked
<1>2. (\E i \in DOMAIN values : values[i] # "") => Collapsed(values) # ""
  BY TokenPicked DEF Picked
<1> QED BY <1>1, <1>2

LEMMA OneElement ==
  ASSUME NEW S, NEW v \in S
  PROVE  <<v>> \in Seq(S) /\ DOMAIN <<v>> = {1} /\ <<v>>[1] = v /\ Len(<<v>>) = 1
OBVIOUS

LEMMA SingleValue ==
  ASSUME NEW v \in Text
  PROVE  Collapsed(<<v>>) = v /\ PickToken(<<v>>) = v
<1> DEFINE values == <<v>>
<1>1. values \in Seq(Text) /\ DOMAIN values = {1} /\ values[1] = v
  BY OneElement
<1> HIDE DEF values
<1>3. Collapsed(values) = v
  BY <1>1, TokenPicked DEF Picked
<1>4. PickToken(values) = v
  BY <1>1, <1>3, TokenPicked DEF Picked
<1> QED BY <1>3, <1>4 DEF values

-----------------------------------------------------------------------------
(* The names of backends *)

Known == Text \ (Unsafe \cup {"", OldName, "Custom"})

LEMMA NamedByUrl ==
  \A url, default : \/ NameOfUrl(url, default) = default /\ url \notin DOMAIN UrlName
                    \/ NameOfUrl(url, default) \in Known
BY NamesAssumption DEF NameOfUrl, Known

LEMMA SafeStays ==
  ASSUME NEW name, NEW hint, name \notin Unsafe
  PROVE  ResolveBackendName(name, hint) = name
BY DEF ResolveBackendName, Unsafe

LEMMA ResolvedName ==
  ASSUME NEW name, NEW hint
  PROVE  ResolveBackendName(name, hint) \in {name} \cup Known
BY NamedByUrl DEF ResolveBackendName

(* A name that has been resolved is not resolved to another one.              *)
LEMMA ResolveTwice ==
  ASSUME NEW name, NEW hint
  PROVE  ResolveBackendName(ResolveBackendName(name, hint), hint) = ResolveBackendName(name, hint)
<1>1. CASE ResolveBackendName(name, hint) \in Known
  BY <1>1, SafeStays DEF Known
<1>2. CASE ResolveBackendName(name, hint) = name
  BY <1>2
<1> QED BY <1>1, <1>2, ResolvedName

LEMMA SafeNameOf ==
  ASSUME NEW entry
  PROVE  /\ SafeName(entry) \in {entry.name} \cup Known
         /\ SafeName(entry) = "Custom" => entry.name = "Custom"
<1>1. "Custom" \notin Known
  BY DEF Known
<1>2. SafeName(entry) \in {entry.name} \cup Known
  BY NamedByUrl, ResolvedName DEF SafeName
<1> QED BY <1>1, <1>2

-----------------------------------------------------------------------------
(* The file and what is read from it *)

ConfigShape(c) ==
  /\ c = [defaults |-> c.defaults, tokens |-> c.tokens]
  /\ Texts(c.defaults) /\ Texts(c.tokens)
  /\ IsFiniteSet(DOMAIN c.tokens) /\ DOMAIN c.tokens \subseteq Text

LEMMA ListOfNames ==
  ASSUME NEW names, IsFiniteSet(names)
  PROVE  /\ Listed(names) \in [1 .. Cardinality(names) -> names]
         /\ Cardinality(names) \in Nat
         /\ \A n \in names : \E i \in DOMAIN Listed(names) : Listed(names)[i] = n
<1>1. Cardinality(names) \in Nat /\ ExistsBijection(1 .. Cardinality(names), names)
  BY FS_CardinalityType
<1>2. PICK f \in Surjection(1 .. Cardinality(names), names) : TRUE
  BY <1>1 DEF ExistsBijection, Bijection
<1>3. /\ f \in [1 .. Cardinality(names) -> names]
      /\ \A n \in names : \E i \in DOMAIN f : f[i] = n
  BY <1>2 DEF Surjection
<1>4. \E list \in [1 .. Cardinality(names) -> names] :
        \A n \in names : \E i \in DOMAIN list : list[i] = n
  BY <1>3
<1> QED BY <1>1, <1>4 DEF Listed

WrittenKey(c, n) == [name |-> n, values |-> <<c.tokens[n]>>]

LEMMA WrittenFields ==
  ASSUME NEW c
  PROVE  /\ Written(c) = [defaults |-> Written(c).defaults, tokens |-> Written(c).tokens]
         /\ DOMAIN Written(c).defaults = DOMAIN c.defaults
         /\ \A key \in DOMAIN c.defaults : Written(c).defaults[key] = <<c.defaults[key]>>
<1> DEFINE list == Listed(DOMAIN c.tokens)
           d == [key \in DOMAIN c.defaults |-> <<c.defaults[key]>>]
           t == [i \in DOMAIN list |-> [name |-> list[i], values |-> <<c.tokens[list[i]]>>]]
<1>1. Written(c) = [defaults |-> d, tokens |-> t]
  BY DEF Written
<1>2. DOMAIN d = DOMAIN c.defaults /\ \A key \in DOMAIN c.defaults : d[key] = <<c.defaults[key]>>
  OBVIOUS
<1> HIDE DEF d, t
<1> QED BY <1>1, <1>2

LEMMA WrittenTokens ==
  ASSUME NEW c, NEW list, list = Listed(DOMAIN c.tokens)
  PROVE  Written(c).tokens = [i \in DOMAIN list |-> WrittenKey(c, list[i])]
BY DEF Written, WrittenKey

LEMMA WrittenKeyShape ==
  ASSUME NEW c, ConfigShape(c), NEW n \in DOMAIN c.tokens
  PROVE  WrittenKey(c, n) \in [name : Text, values : Seq(Text)]
<1>1. n \in Text /\ c.tokens[n] \in Text
  BY DEF ConfigShape, Texts
<1> DEFINE values == <<c.tokens[n]>>
<1>2. values \in Seq(Text)
  BY <1>1, OneElement
<1> HIDE DEF values
<1>3. [name |-> n, values |-> values] \in [name : Text, values : Seq(Text)]
  BY <1>1, <1>2
<1> QED BY <1>3 DEF WrittenKey, values

LEMMA WrittenShape ==
  ASSUME NEW c, ConfigShape(c)
  PROVE  FileShape(Written(c))
<1>1. PICK list : list = Listed(DOMAIN c.tokens)
  OBVIOUS
<1>2. PICK n \in Nat : list \in [1 .. n -> DOMAIN c.tokens]
  BY <1>1, ListOfNames DEF ConfigShape
<1>3. ASSUME NEW key \in DOMAIN Written(c).defaults
      PROVE  Written(c).defaults[key] \in Seq(Text)
  <2>1. key \in DOMAIN c.defaults /\ Written(c).defaults[key] = <<c.defaults[key]>>
    BY WrittenFields
  <2>2. c.defaults[key] \in Text
    BY <2>1 DEF ConfigShape, Texts
  <2> QED BY <2>1, <2>2, OneElement
<1>4. Written(c).tokens \in Seq([name : Text, values : Seq(Text)])
  <2>1. Written(c).tokens = [i \in 1 .. n |-> WrittenKey(c, list[i])]
    BY <1>1, <1>2, WrittenTokens
  <2>2. \A i \in 1 .. n : WrittenKey(c, list[i]) \in [name : Text, values : Seq(Text)]
    BY <1>2, WrittenKeyShape
  <2> QED BY <2>1, <2>2
<1> QED BY <1>3, <1>4, WrittenFields DEF FileShape

(* What is written is read as it was, if it needs no repair.                  *)
LEMMA WrittenRead ==
  ASSUME NEW c, ConfigShape(c)
  PROVE  /\ CollapsedDefaults(Written(c)) = c.defaults
         /\ TokenNames(Written(c)) = DOMAIN c.tokens
         /\ \A i \in DOMAIN Written(c).tokens :
              \E n \in DOMAIN c.tokens : Written(c).tokens[i] = WrittenKey(c, n)
         /\ ~Repeated(Written(c))
<1>1. PICK list : list = Listed(DOMAIN c.tokens)
  OBVIOUS
<1>2. /\ \A i \in DOMAIN list : list[i] \in DOMAIN c.tokens
      /\ \A n \in DOMAIN c.tokens : \E i \in DOMAIN list : list[i] = n
  BY <1>1, ListOfNames DEF ConfigShape
<1>3. /\ DOMAIN Written(c).tokens = DOMAIN list
      /\ \A i \in DOMAIN list : Written(c).tokens[i] = WrittenKey(c, list[i])
  <2>1. Written(c).tokens = [i \in DOMAIN list |-> WrittenKey(c, list[i])]
    BY <1>1, WrittenTokens
  <2> QED BY <2>1
<1>4. CollapsedDefaults(Written(c)) = c.defaults
  <2>1. ASSUME NEW key \in DOMAIN c.defaults
        PROVE  Collapsed(Written(c).defaults[key]) = c.defaults[key]
    <3>1. Written(c).defaults[key] = <<c.defaults[key]>>
      BY WrittenFields
    <3>2. c.defaults[key] \in Text
      BY DEF ConfigShape, Texts
    <3> QED BY <3>1, <3>2, SingleValue
  <2>2. CollapsedDefaults(Written(c)) = [key \in DOMAIN c.defaults |-> c.defaults[key]]
    BY <2>1, WrittenFields DEF CollapsedDefaults
  <2> QED BY <2>2 DEF ConfigShape, Texts
<1>5. \A n : WrittenKey(c, n).name = n /\ WrittenKey(c, n).values = <<c.tokens[n]>>
  BY DEF WrittenKey
<1>6. TokenNames(Written(c)) = DOMAIN c.tokens
  BY <1>2, <1>3, <1>5 DEF TokenNames
<1>7. ~Repeated(Written(c))
  <2>1. ASSUME NEW key \in DOMAIN Written(c).defaults
        PROVE  ~(Len(Written(c).defaults[key]) > 1)
    <3>1. Written(c).defaults[key] = <<c.defaults[key]>>
      BY WrittenFields
    <3>2. Len(Written(c).defaults[key]) = 1
      BY <3>1, OneElement
    <3> QED BY <3>2
  <2>2. ASSUME NEW i \in DOMAIN Written(c).tokens
        PROVE  ~(Len(Written(c).tokens[i].values) > 1)
    <3>1. Written(c).tokens[i].values = <<c.tokens[list[i]]>>
      BY <1>3, <1>5
    <3>2. Len(Written(c).tokens[i].values) = 1
      BY <3>1, OneElement
    <3> QED BY <3>2
  <2> QED BY <2>1, <2>2 DEF Repeated
<1> QED BY <1>2, <1>3, <1>4, <1>6, <1>7

-----------------------------------------------------------------------------
(* The repair *)

Entry == [name : Text, values : Seq(Text)]
Entries == Seq(Entry)

LEMMA EntriesRange ==
  ASSUME NEW entries \in Entries
  PROVE  /\ Len(entries) \in Nat /\ DOMAIN entries = 1 .. Len(entries)
         /\ \A i \in DOMAIN entries : entries[i] \in Entry
BY DEF Entries

LEMMA TokenGiven ==
  ASSUME NEW entries \in Entries, NEW name
  PROVE  \/ /\ TokenFor(entries, name) = ""
            /\ \A i \in DOMAIN entries : SafeName(entries[i]) = name => PickToken(entries[i].values) = ""
         \/ \E i \in DOMAIN entries : /\ SafeName(entries[i]) = name
                                      /\ TokenFor(entries, name) = PickToken(entries[i].values)
                                      /\ TokenFor(entries, name) # ""
<1> DEFINE given == {i \in DOMAIN entries : SafeName(entries[i]) = name /\ PickToken(entries[i].values) # ""}
<1>1. CASE given = {}
  BY <1>1 DEF TokenFor
<1>2. CASE given # {}
  <2>1. Len(entries) \in Nat /\ given \in SUBSET (1 .. Len(entries))
    BY EntriesRange
  <2>2. PICK k \in given : \A j \in given : j <= k
    BY <1>2, <2>1, LastOne
  <2>3. Max(given) \in given
    <3>1. \E x \in given : \A j \in given : x >= j
      BY <2>2, <2>1
    <3> QED BY <3>1 DEF Max
  <2>4. TokenFor(entries, name) = PickToken(entries[Max(given)].values)
    BY <1>2 DEF TokenFor
  <2> QED BY <2>3, <2>4
<1> QED BY <1>1, <1>2

LEMMA EntryTypes ==
  ASSUME NEW entries \in Entries, NEW i \in DOMAIN entries
  PROVE  /\ entries[i].name \in Text /\ entries[i].values \in Seq(Text)
         /\ SafeName(entries[i]) \in Text
<1>1. entries[i] \in Entry
  BY EntriesRange
<1> QED BY <1>1, SafeNameOf DEF Known, Entry

LEMMA TokenText ==
  ASSUME NEW entries \in Entries, NEW name
  PROVE  TokenFor(entries, name) \in Text
BY TokenGiven, EntryTypes, CollapsedString, TextAssumption

LEMMA SafeNamesFinite ==
  ASSUME NEW entries \in Entries
  PROVE  IsFiniteSet(SafeNames(entries)) /\ SafeNames(entries) \subseteq Text \ Unsafe
<1>1. PICK n \in Nat : DOMAIN entries = 1 .. n
  BY EntriesRange
<1> DEFINE named == {SafeName(entries[i]) : i \in DOMAIN entries}
           f == [i \in DOMAIN entries |-> SafeName(entries[i])]
<1>2. f \in Surjection(1 .. n, named)
  BY <1>1 DEF Surjection
<1>3. IsFiniteSet(1 .. n)
  BY FS_Interval
<1>4. IsFiniteSet(named)
  BY <1>2, <1>3, FS_Surjection
<1>5. SafeNames(entries) \in SUBSET named
  BY DEF SafeNames
<1>6. IsFiniteSet(SafeNames(entries))
  BY <1>4, <1>5, FS_Subset
<1>7. SafeNames(entries) \subseteq Text \ Unsafe
  BY EntryTypes DEF SafeNames
<1> QED BY <1>6, <1>7

LEMMA RepairedTokens ==
  ASSUME NEW entries \in Entries
  PROVE  LET tokens == RepairApiTokens(entries)
         IN  /\ tokens = [name \in DOMAIN tokens |-> tokens[name]]
             /\ DOMAIN tokens \in SUBSET SafeNames(entries)
             /\ SafeNames(entries) \ {OldName} \subseteq DOMAIN tokens
             /\ OldName \in DOMAIN tokens => Heirs \cap DOMAIN tokens = {}
             /\ \A name \in DOMAIN tokens : tokens[name] = TokenFor(entries, name)
BY DEF RepairApiTokens, Heirs, OldName

LEMMA FileTypes ==
  ASSUME NEW file, FileShape(file)
  PROVE  /\ Texts(CollapsedDefaults(file))
         /\ DOMAIN CollapsedDefaults(file) = DOMAIN file.defaults
         /\ file.tokens \in Entries
<1>1. \A key \in DOMAIN file.defaults : Collapsed(file.defaults[key]) \in Text
  BY CollapsedString DEF FileShape
<1>2. file.tokens \in Entries
  BY DEF FileShape, Entries, Entry
<1> QED BY <1>1, <1>2 DEF CollapsedDefaults, Texts

WithName(defaults, name) == [defaults EXCEPT !["sso_api_name"] = name]

(* What the repair does to the name of the active backend, and to no more.    *)
Renames(defaults, name, api, repaired) ==
  \/ name = "" /\ repaired = defaults
  \/ /\ name # "" /\ "sso_api_name" \in DOMAIN defaults
     /\ repaired = WithName(defaults, ResolveBackendName(name, api))

LEMMA RepairedDefaults ==
  ASSUME NEW file, NEW defaults, NEW name, NEW api,
         defaults = CollapsedDefaults(file),
         name = DefaultOf(defaults, "sso_api_name"), api = DefaultOf(defaults, "sso_api")
  PROVE  Renames(defaults, name, api, RepairDefaults(file))
BY DEF RepairDefaults, DefaultOf, WithName, Renames

LEMMA RepairedTexts ==
  ASSUME NEW file, FileShape(file)
  PROVE  Texts(RepairDefaults(file))
<1>1. PICK defaults : defaults = CollapsedDefaults(file)
  OBVIOUS
<1>2. Texts(defaults)
  BY <1>1, FileTypes
<1>3. PICK name, api : name = DefaultOf(defaults, "sso_api_name") /\ api = DefaultOf(defaults, "sso_api")
  OBVIOUS
<1>4. CASE RepairDefaults(file) = defaults
  BY <1>2, <1>4
<1>5. ASSUME name # "", "sso_api_name" \in DOMAIN defaults,
             RepairDefaults(file) = WithName(defaults, ResolveBackendName(name, api))
      PROVE  Texts(RepairDefaults(file))
  <2>1. name \in Text
    BY <1>2, <1>3, <1>5 DEF DefaultOf, Texts
  <2>2. ResolveBackendName(name, api) \in Text
    BY <2>1, ResolvedName DEF Known
  <2>3. PICK safe : safe = ResolveBackendName(name, api)
    OBVIOUS
  <2>4. PICK d : d = RepairDefaults(file)
    OBVIOUS
  <2>5. d = [defaults EXCEPT !["sso_api_name"] = safe]
    BY <1>5, <2>3, <2>4 DEF WithName
  <2>6. defaults = [key \in DOMAIN defaults |-> defaults[key]]
    BY <1>2 DEF Texts
  <2>7. /\ d = [key \in DOMAIN d |-> d[key]]
        /\ \A key \in DOMAIN d : d[key] = safe \/ (key \in DOMAIN defaults /\ d[key] = defaults[key])
    BY <2>5, <2>6
  <2>8. Texts(d)
    BY <1>2, <2>2, <2>3, <2>7 DEF Texts
  <2> QED BY <2>4, <2>8
<1>6. Renames(defaults, name, api, RepairDefaults(file))
  BY <1>1, <1>3, RepairedDefaults
<1> QED BY <1>4, <1>5, <1>6 DEF Renames

LEMMA RepairedShape ==
  ASSUME NEW file, FileShape(file)
  PROVE  ConfigShape(RepairSections(file))
<1>1. PICK defaults, tokens : defaults = RepairDefaults(file) /\ tokens = RepairApiTokens(file.tokens)
  OBVIOUS
<1>2. RepairSections(file) = [defaults |-> defaults, tokens |-> tokens]
  BY <1>1 DEF RepairSections
<1>3. file.tokens \in Entries
  BY FileTypes
<1>4. Texts(defaults)
  BY <1>1, RepairedTexts
<1>5. /\ tokens = [name \in DOMAIN tokens |-> tokens[name]]
      /\ \A name \in DOMAIN tokens : tokens[name] \in Text
      /\ DOMAIN tokens \in SUBSET SafeNames(file.tokens)
  BY <1>1, <1>3, RepairedTokens, TokenText
<1>6. IsFiniteSet(DOMAIN tokens) /\ DOMAIN tokens \subseteq Text
  BY <1>3, <1>5, SafeNamesFinite, FS_Subset
<1> QED BY <1>2, <1>4, <1>5, <1>6 DEF ConfigShape, Texts

(* One repair of the active backend's name is enough.                         *)
LEMMA DefaultsSettle ==
  ASSUME NEW file, FileShape(file), NEW again, CollapsedDefaults(again) = RepairDefaults(file)
  PROVE  RepairDefaults(again) = CollapsedDefaults(again)
<1>1. PICK defaults, d : defaults = CollapsedDefaults(file) /\ d = RepairDefaults(file)
  OBVIOUS
<1>2. PICK name, api : name = DefaultOf(defaults, "sso_api_name") /\ api = DefaultOf(defaults, "sso_api")
  OBVIOUS
<1>3. PICK name2, api2 : name2 = DefaultOf(d, "sso_api_name") /\ api2 = DefaultOf(d, "sso_api")
  OBVIOUS
<1>4. Renames(defaults, name, api, d)
  BY <1>1, <1>2, RepairedDefaults
<1>5. Renames(d, name2, api2, RepairDefaults(again))
  BY <1>1, <1>3, RepairedDefaults
<1>6. CASE name = "" /\ d = defaults
  BY <1>1, <1>2, <1>3, <1>5, <1>6 DEF Renames
<1>7. ASSUME name # "", "sso_api_name" \in DOMAIN defaults,
             d = WithName(defaults, ResolveBackendName(name, api))
      PROVE  RepairDefaults(again) = d
  <2>1. PICK safe : safe = ResolveBackendName(name, api)
    OBVIOUS
  <2>2. defaults = [key \in DOMAIN defaults |-> defaults[key]]
    BY <1>1, FileTypes DEF Texts
  <2>3. d = [defaults EXCEPT !["sso_api_name"] = safe]
    BY <1>7, <2>1 DEF WithName
  <2>4. /\ d = [key \in DOMAIN d |-> d[key]] /\ DOMAIN d = DOMAIN defaults
        /\ d["sso_api_name"] = safe
        /\ \A key \in DOMAIN d : key # "sso_api_name" => d[key] = defaults[key]
    BY <1>7, <2>2, <2>3
  <2>5. name2 = safe /\ api2 = api
    BY <1>2, <1>3, <1>7, <2>4 DEF DefaultOf
  <2>6. ResolveBackendName(name2, api2) = safe
    BY <2>1, <2>5, ResolveTwice
  <2>7. WithName(d, safe) = d
    BY <2>4 DEF WithName
  <2> QED BY <1>5, <2>6, <2>7 DEF Renames
<1> QED BY <1>1, <1>4, <1>6, <1>7 DEF Renames

(* A URL is left as the token of "Custom" only when it is an unknown one.     *)
LEMMA CustomSettles ==
  ASSUME NEW entries \in Entries, TokenFor(entries, "Custom") # "",
         TokenFor(entries, "Custom") \in Urls
  PROVE  TokenFor(entries, "Custom") \notin DOMAIN UrlName
<1>1. PICK i \in DOMAIN entries : /\ SafeName(entries[i]) = "Custom"
                                  /\ TokenFor(entries, "Custom") = PickToken(entries[i].values)
  BY TokenGiven
<1>2. entries[i].name = "Custom"
  BY <1>1, SafeNameOf
<1>3. PickToken(entries[i].values) = Collapsed(entries[i].values)
  BY <1>1, EntryTypes, PickedWhenGiven
<1>4. UrlIn(entries[i].values) = TokenFor(entries, "Custom")
  BY <1>1, <1>3 DEF UrlIn
<1>5. NameOfUrl(TokenFor(entries, "Custom"), "Custom") = "Custom"
  BY <1>1, <1>2, <1>4 DEF SafeName
<1>6. ASSUME TokenFor(entries, "Custom") \in DOMAIN UrlName
      PROVE  FALSE
  <2>1. UrlName[TokenFor(entries, "Custom")] = "Custom"
    BY <1>5, <1>6 DEF NameOfUrl
  <2> QED BY <1>6, <2>1, NamesAssumption
<1> QED BY <1>6

SettlesBut(c) ==
  \/ DefaultOf(c.defaults, "sso_api_name") \in DOMAIN LabelUrl
  \/ "" \in DOMAIN c.tokens
  \/ "Custom" \in DOMAIN c.tokens /\ c.tokens["Custom"] \in Urls \ DOMAIN UrlName

LEMMA Settled ==
  ASSUME NEW file, FileShape(file), NEW c, c = RepairSections(file), NeedsRepair(Written(c))
  PROVE  SettlesBut(c)
<1>1. PICK again : again = Written(c)
  OBVIOUS
<1>2. c.defaults = RepairDefaults(file) /\ c.tokens = RepairApiTokens(file.tokens)
  BY DEF RepairSections
<1>3. PICK tokens : tokens = c.tokens
  OBVIOUS
<1>4. ConfigShape(c) /\ file.tokens \in Entries
  BY RepairedShape, FileTypes
<1>5. /\ CollapsedDefaults(again) = c.defaults
      /\ TokenNames(again) = DOMAIN tokens
      /\ \A i \in DOMAIN again.tokens : \E n \in DOMAIN tokens : again.tokens[i] = WrittenKey(c, n)
      /\ ~Repeated(again)
  BY <1>1, <1>3, <1>4, WrittenRead
<1>6. RepairDefaults(again) = CollapsedDefaults(again)
  BY <1>2, <1>5, DefaultsSettle
<1>7. /\ DOMAIN tokens \in SUBSET SafeNames(file.tokens)
      /\ OldName \in DOMAIN tokens => Heirs \cap DOMAIN tokens = {}
      /\ \A name \in DOMAIN tokens : tokens[name] = TokenFor(file.tokens, name)
  BY <1>2, <1>3, <1>4, RepairedTokens
<1>8. DOMAIN tokens \cap Unsafe = {}
  BY <1>4, <1>7, SafeNamesFinite
<1>9. ASSUME NEW i \in DOMAIN again.tokens, again.tokens[i].name = "Custom",
             UrlIn(again.tokens[i].values) # ""
      PROVE  SettlesBut(c)
  <2>1. PICK n \in DOMAIN tokens : again.tokens[i] = WrittenKey(c, n)
    BY <1>5
  <2>2. n = "Custom" /\ again.tokens[i].values = <<tokens[n]>>
    <3>1. WrittenKey(c, n).name = n /\ WrittenKey(c, n).values = <<c.tokens[n]>>
      BY DEF WrittenKey
    <3> QED BY <1>3, <1>9, <2>1, <3>1
  <2>3. tokens[n] \in Text
    BY <1>3, <1>4 DEF ConfigShape, Texts
  <2>4. Collapsed(again.tokens[i].values) = tokens[n]
    BY <2>2, <2>3, SingleValue
  <2>5. tokens[n] \in Urls /\ tokens[n] # ""
    BY <1>9, <2>4 DEF UrlIn
  <2>6. tokens[n] = TokenFor(file.tokens, "Custom")
    BY <1>7, <2>2
  <2>7. tokens[n] \notin DOMAIN UrlName
    BY <1>4, <2>5, <2>6, CustomSettles
  <2> QED BY <1>3, <2>2, <2>5, <2>7 DEF SettlesBut
<1> QED
  BY <1>1, <1>3, <1>5, <1>6, <1>7, <1>8, <1>9 DEF NeedsRepair, SettlesBut

LEMMA ParsedShape ==
  ASSUME NEW file, FileShape(file)
  PROVE  ConfigShape(Parsed(file))
<1>1. PICK entries : entries = file.tokens
  OBVIOUS
<1>2. entries \in Entries
  BY <1>1, FileTypes
<1>3. PICK names : names = TokenNames(file)
  OBVIOUS
<1>4. names = {entries[i].name : i \in DOMAIN entries}
  BY <1>1, <1>3 DEF TokenNames
<1> DEFINE Of(name) == Collapsed(entries[CHOOSE i \in DOMAIN entries : entries[i].name = name].values)
<1>5. Parsed(file) = [defaults |-> CollapsedDefaults(file), tokens |-> [name \in names |-> Of(name)]]
  BY <1>1, <1>3 DEF Parsed
<1>6. ASSUME NEW name \in names
      PROVE  name \in Text /\ Of(name) \in Text
  <2>1. \E i \in DOMAIN entries : entries[i].name = name
    BY <1>4
  <2>2. PICK i \in DOMAIN entries : Of(name) = Collapsed(entries[i].values) /\ entries[i].name = name
    BY <2>1
  <2> QED BY <1>2, <2>2, EntryTypes, CollapsedString
<1>7. IsFiniteSet(names)
  <2>1. PICK n \in Nat : DOMAIN entries = 1 .. n
    BY <1>2, EntriesRange
  <2> DEFINE f == [i \in DOMAIN entries |-> entries[i].name]
  <2>2. f \in Surjection(1 .. n, names)
    BY <1>4, <2>1 DEF Surjection
  <2> QED BY <2>1, <2>2, FS_Interval, FS_Surjection
<1> HIDE DEF Of
<1>8. PICK defaults, tokens : defaults = CollapsedDefaults(file) /\ tokens = [name \in names |-> Of(name)]
  OBVIOUS
<1>9. Texts(defaults)
  BY <1>8, FileTypes
<1>10. DOMAIN tokens = names /\ Texts(tokens)
  BY <1>6, <1>8 DEF Texts
<1>11. Parsed(file) = [defaults |-> defaults, tokens |-> tokens]
  BY <1>5, <1>8
<1> QED BY <1>6, <1>7, <1>9, <1>10, <1>11 DEF ConfigShape

LEMMA LoadedParserShape ==
  ASSUME NEW file, FileShape(file)
  PROVE  ConfigShape(LoadConfigParser(file))
BY RepairedShape, ParsedShape DEF LoadConfigParser

-----------------------------------------------------------------------------
(* Changes of the parser *)

LEMMA LiteralTexts == {"", "True", "False", "Good Guys", "Marginal Threat"} \subseteq Text
BY TextAssumption DEF Heirs

LEMMA SettingText ==
  ASSUME NEW c, ConfigShape(c), NEW key
  PROVE  Setting(c, key) \in Text
BY LiteralTexts DEF Setting, Fallback, ConfigShape, Texts

LEMMA AddedTexts ==
  ASSUME NEW f, Texts(f), NEW key, NEW value \in Text
  PROVE  /\ Texts(key :> value @@ f)
         /\ DOMAIN (key :> value @@ f) = {key} \cup DOMAIN f
BY DEF Texts, @@, :>

LEMMA WithSettingShape ==
  ASSUME NEW c, ConfigShape(c), NEW key, NEW value \in Text
  PROVE  /\ ConfigShape(WithSetting(c, key, value))
         /\ WithSetting(c, key, value).tokens = c.tokens
<1>1. PICK d, t : d = c.defaults /\ t = c.tokens
  OBVIOUS
<1>2. c = [defaults |-> d, tokens |-> t]
  BY <1>1 DEF ConfigShape
<1>3. PICK e : e = key :> value @@ d
  OBVIOUS
<1>4. WithSetting(c, key, value) = [defaults |-> e, tokens |-> t]
  BY <1>2, <1>3 DEF WithSetting
<1>5. Texts(e)
  BY <1>1, <1>3, AddedTexts DEF ConfigShape
<1> QED BY <1>1, <1>4, <1>5 DEF ConfigShape

WithTokens(c, tokens) == [c EXCEPT !.tokens = tokens]

LEMMA WithTokensShape ==
  ASSUME NEW c, ConfigShape(c), NEW tokens, Texts(tokens),
         IsFiniteSet(DOMAIN tokens), DOMAIN tokens \subseteq Text
  PROVE  /\ ConfigShape(WithTokens(c, tokens))
         /\ WithTokens(c, tokens).tokens = tokens
<1>1. PICK d, t : d = c.defaults /\ t = c.tokens
  OBVIOUS
<1>2. c = [defaults |-> d, tokens |-> t]
  BY <1>1 DEF ConfigShape
<1>3. WithTokens(c, tokens) = [defaults |-> d, tokens |-> tokens]
  BY <1>2 DEF WithTokens
<1> QED BY <1>1, <1>3 DEF ConfigShape

LEMMA AddedTokens ==
  ASSUME NEW c, ConfigShape(c), NEW name \in Text, NEW token \in Text,
         NEW tokens, tokens = name :> token @@ c.tokens
  PROVE  /\ Texts(tokens) /\ IsFiniteSet(DOMAIN tokens) /\ DOMAIN tokens \subseteq Text
         /\ name \in DOMAIN tokens /\ tokens[name] = token
         /\ \A n : n # name => /\ n \in DOMAIN tokens <=> n \in DOMAIN c.tokens
                               /\ n \in DOMAIN c.tokens => tokens[n] = c.tokens[n]
<1>1. PICK t : t = c.tokens
  OBVIOUS
<1>2. DOMAIN tokens = {name} \cup DOMAIN t /\ Texts(tokens)
  BY <1>1, AddedTexts DEF ConfigShape
<1>3. IsFiniteSet(DOMAIN tokens)
  <2>1. IsFiniteSet(DOMAIN t)
    BY <1>1 DEF ConfigShape
  <2>2. IsFiniteSet(DOMAIN t \cup {name})
    BY <2>1, FS_AddElement
  <2>3. DOMAIN tokens = DOMAIN t \cup {name}
    BY <1>2
  <2> QED BY <2>2, <2>3
<1>4. tokens[name] = token /\ \A n \in DOMAIN t : n # name => tokens[n] = t[n]
  BY <1>1 DEF @@, :>
<1> QED BY <1>1, <1>2, <1>3, <1>4 DEF ConfigShape

LEMMA WithTokenShape ==
  ASSUME NEW c, ConfigShape(c), NEW b \in [name : Text, api : Text, token : Text],
         ResolveBackendName(b.name, b.api) = b.name, NEW token \in Text
  PROVE  /\ ConfigShape(WithToken(c, b, token))
         /\ \A n : n # b.name => GetApiToken(WithToken(c, b, token), n) = GetApiToken(c, n)
<1>1. PICK tokens : tokens = b.name :> token @@ c.tokens
  OBVIOUS
<1>2. /\ Texts(tokens) /\ IsFiniteSet(DOMAIN tokens) /\ DOMAIN tokens \subseteq Text
      /\ \A n : n # b.name => /\ n \in DOMAIN tokens <=> n \in DOMAIN c.tokens
                              /\ n \in DOMAIN c.tokens => tokens[n] = c.tokens[n]
  BY <1>1, AddedTokens
<1>3. PICK kept : kept = WithTokens(c, tokens)
  OBVIOUS
<1>4. ConfigShape(kept) /\ kept.tokens = tokens
  BY <1>2, <1>3, WithTokensShape
<1>5. WithToken(c, b, token) = WithSetting(kept, "user_api_token", token)
  BY <1>1, <1>3 DEF WithToken, WithTokens
<1>6. /\ ConfigShape(WithSetting(kept, "user_api_token", token))
      /\ WithSetting(kept, "user_api_token", token).tokens = tokens
  BY <1>4, WithSettingShape
<1>7. \A n : n # b.name => GetApiToken(WithToken(c, b, token), n) = GetApiToken(c, n)
  BY <1>2, <1>5, <1>6 DEF GetApiToken
<1> QED BY <1>5, <1>6, <1>7

LEMMA WithBackendShape ==
  ASSUME NEW c, ConfigShape(c), NEW b \in [name : Text, api : Text, token : Text]
  PROVE  ConfigShape(WithBackend(c, b)) /\ WithBackend(c, b).tokens = c.tokens
<1>1. PICK c1 : c1 = WithSetting(c, "sso_api", b.api)
  OBVIOUS
<1>2. PICK c2 : c2 = WithSetting(c1, "sso_api_name", b.name)
  OBVIOUS
<1>3. ConfigShape(c1) /\ c1.tokens = c.tokens
  BY <1>1, WithSettingShape
<1>4. ConfigShape(c2) /\ c2.tokens = c.tokens
  BY <1>2, <1>3, WithSettingShape
<1>5. WithBackend(c, b) = WithSetting(c2, "user_api_token", b.token)
  BY <1>1, <1>2 DEF WithBackend
<1> QED BY <1>4, <1>5, WithSettingShape

LEMMA TokenTexts ==
  ASSUME NEW c, ConfigShape(c), NEW name
  PROVE  GetApiToken(c, name) \in Text /\ OwnOrLegacy(c, name) \in Text
<1>1. GetApiToken(c, name) \in Text
  BY LiteralTexts DEF GetApiToken, ConfigShape, Texts
<1>2. Legacy(c) \in Text
  BY SettingText DEF Legacy
<1> QED BY <1>1, <1>2 DEF OwnOrLegacy

LEMMA MigratedShape ==
  ASSUME NEW c, ConfigShape(c)
  PROVE  ConfigShape(Migrated(c))
<1>1. PICK t : t = c.tokens
  OBVIOUS
<1>2. Texts(t) /\ IsFiniteSet(DOMAIN t) /\ DOMAIN t \subseteq Text
  BY <1>1 DEF ConfigShape
<1>3. PICK token : token = IF OldName \in DOMAIN t THEN t[OldName] ELSE Legacy(c)
  OBVIOUS
<1>4. token \in Text
  BY <1>2, <1>3, SettingText DEF Legacy, Texts
<1>5. PICK seeded : seeded = IF token = "" THEN t ELSE [h \in Heirs |-> token] @@ t
  OBVIOUS
<1>6. PICK tokens : tokens = [n \in DOMAIN seeded \ {OldName} |-> seeded[n]]
  OBVIOUS
<1>7. \/ DOMAIN seeded = DOMAIN t
      \/ DOMAIN seeded = DOMAIN t \cup Heirs
  BY <1>5 DEF @@
<1>8. \A n \in DOMAIN seeded : seeded[n] \in Text
  BY <1>2, <1>4, <1>5 DEF @@, Texts
<1>9. IsFiniteSet(DOMAIN t \cup Heirs)
  <2>1. IsFiniteSet(DOMAIN t \cup {"Good Guys"})
    BY <1>2, FS_AddElement
  <2>2. IsFiniteSet((DOMAIN t \cup {"Good Guys"}) \cup {"Marginal Threat"})
    BY <2>1, FS_AddElement
  <2>3. DOMAIN t \cup Heirs = (DOMAIN t \cup {"Good Guys"}) \cup {"Marginal Threat"}
    BY DEF Heirs
  <2> QED BY <2>2, <2>3
<1>10. DOMAIN tokens \in SUBSET (DOMAIN t \cup Heirs)
  BY <1>6, <1>7
<1>11. Texts(tokens) /\ IsFiniteSet(DOMAIN tokens) /\ DOMAIN tokens \subseteq Text
  <2>1. IsFiniteSet(DOMAIN tokens)
    BY <1>9, <1>10, FS_Subset
  <2>2. Texts(tokens)
    BY <1>6, <1>8 DEF Texts
  <2> QED BY <1>2, <1>10, <2>1, <2>2, TextAssumption
<1>12. PICK named : named = WithSetting(c, "sso_api_name", "Good Guys")
  OBVIOUS
<1>13. ConfigShape(named)
  BY <1>12, WithSettingShape, LiteralTexts
<1>14. BackendUrl["Good Guys"] \in Text
  BY SettingsAssumption DEF Heirs
<1>15. PICK moved : moved = WithSetting(named, "sso_api", BackendUrl["Good Guys"])
  OBVIOUS
<1>16. ConfigShape(moved)
  BY <1>13, <1>14, <1>15, WithSettingShape
<1>17. Migrated(c) = WithTokens(moved, tokens)
  BY <1>1, <1>3, <1>5, <1>6, <1>12, <1>15 DEF Migrated, WithTokens
<1> QED BY <1>11, <1>16, <1>17, WithTokensShape

LEMMA LoadedShape ==
  ASSUME NEW file, FileShape(file)
  PROVE  ConfigShape(LoadedConfig(file))
BY LoadedParserShape, MigratedShape DEF LoadedConfig

Backend == [name : Text, api : Text, token : Text]
Resolved(b) == ResolveBackendName(b.name, b.api) = b.name

LEMMA BackendsResolved ==
  ASSUME NEW b \in Backends
  PROVE  b \in Text /\ BackendUrl[b] \in Text /\ \A hint : ResolveBackendName(b, hint) = b
BY SettingsAssumption, SafeStays

LEMMA LoadedBackendShape ==
  ASSUME NEW file, FileShape(file)
  PROVE  LoadedBackend(file) \in Backend /\ Resolved(LoadedBackend(file))
<1>1. PICK c : c = LoadConfigParser(file)
  OBVIOUS
<1>2. ConfigShape(c) /\ ConfigShape(LoadedConfig(file))
  BY <1>1, LoadedParserShape, LoadedShape
<1>3. PICK api : api = Setting(c, "sso_api")
  OBVIOUS
<1>4. api \in Text
  BY <1>2, <1>3, SettingText
<1>5. PICK given : given = IF "sso_api_name" \in DOMAIN c.defaults THEN Setting(c, "sso_api_name") ELSE NameOfUrl(api, "")
  OBVIOUS
<1>6. StartName(c) = ResolveBackendName(given, api)
  BY <1>3, <1>5 DEF StartName
<1>7. given \in Text
  BY <1>2, <1>5, SettingText, NamedByUrl, LiteralTexts DEF Known
<1>8. StartName(c) \in Text /\ ResolveBackendName(StartName(c), api) = StartName(c)
  BY <1>6, <1>7, ResolvedName, ResolveTwice DEF Known
<1>9. PICK name : name = IF Migrates(c) THEN "Good Guys" ELSE StartName(c)
  OBVIOUS
<1>10. "Good Guys" \in Backends
  BY SettingsAssumption DEF Heirs
<1>11. name \in Text /\ ResolveBackendName(name, api) = name
  BY <1>8, <1>9, <1>10, BackendsResolved
<1>12. PICK token : token = IF name = "" THEN Legacy(c) ELSE OwnOrLegacy(LoadedConfig(file), name)
  OBVIOUS
<1>13. token \in Text
  BY <1>2, <1>12, TokenTexts, SettingText DEF Legacy
<1>14. LoadedBackend(file) = [name |-> name, api |-> api, token |-> token]
  BY <1>1, <1>3, <1>9, <1>12 DEF LoadedBackend
<1> QED BY <1>4, <1>11, <1>13, <1>14 DEF Backend, Resolved

-----------------------------------------------------------------------------
(* The settings, while the program starts, runs and ends *)

SettingsInv ==
  /\ FileShape(stored)
  /\ ConfigShape(config)
  /\ active \in Backend /\ Resolved(active)
  /\ field \in Text

(* A name that is not the active backend's keeps its token.                   *)
OthersKept == \A n : n # active'.name => GetApiToken(config', n) = GetApiToken(config, n)

LEMMA EmptyTexts ==
  /\ Texts(<< >>) /\ DOMAIN << >> = {}
  /\ ConfigShape(NoConfig)
<1>1. DOMAIN << >> = {}
  OBVIOUS
<1>2. Texts(<< >>)
  BY <1>1 DEF Texts
<1>3. IsFiniteSet({})
  BY FS_EmptySet
<1> QED BY <1>1, <1>2, <1>3 DEF ConfigShape, NoConfig

LEMMA NoBackendShape == NoBackend \in Backend /\ Resolved(NoBackend)
<1>1. "" \notin Unsafe
  BY NamesAssumption
<1> QED BY <1>1, LiteralTexts, SafeStays DEF NoBackend, Backend, Resolved

LEMMA SettingsStart ==
  ASSUME SettingsInit
  PROVE  SettingsInv
BY FilesAssumption, EmptyTexts, NoBackendShape, LiteralTexts DEF SettingsInit, SettingsInv

LEMMA SettingsUnchanged ==
  ASSUME SettingsInv, UNCHANGED settingsVars
  PROVE  SettingsInv' /\ OthersKept
BY DEF SettingsInv, settingsVars, OthersKept

LEMMA ForgetKeeps ==
  ASSUME SettingsInv, ForgetSettings
  PROVE  SettingsInv'
BY EmptyTexts, NoBackendShape, LiteralTexts DEF ForgetSettings, SettingsInv

LEMMA WriteKeeps ==
  ASSUME FileShape(stored), NEW c, ConfigShape(c), NEW ok, Write(c, ok)
  PROVE  FileShape(stored')
BY WrittenShape DEF Write

LEMMA LoadKeeps ==
  ASSUME SettingsInv, NEW ok, LoadSettings(ok)
  PROVE  SettingsInv'
<1>1. config' = LoadedConfig(stored) /\ active' = LoadedBackend(stored) /\ field' = active'.token
  BY DEF LoadSettings
<1>2. FileShape(stored)
  BY DEF SettingsInv
<1>3. ConfigShape(config')
  BY <1>1, <1>2, LoadedShape
<1>4. active' \in Backend /\ Resolved(active')
  BY <1>1, <1>2, LoadedBackendShape
<1>5. FileShape(stored')
  BY <1>2, <1>3, WriteKeeps DEF LoadSettings
<1>6. field' \in Text
  BY <1>1, <1>4 DEF Backend
<1> QED BY <1>3, <1>4, <1>5, <1>6 DEF SettingsInv

(* A start that breaks leaves the repaired settings.                          *)
LEMMA BrokenLoad ==
  ASSUME SettingsInv, LoadBreaks
  PROVE  /\ ConfigShape(RepairSections(stored)) /\ stored' = Written(RepairSections(stored))
         /\ UNCHANGED <<config, active, field>>
         /\ SettingsInv'
<1>1. ConfigShape(RepairSections(stored))
  BY RepairedShape DEF SettingsInv
<1>2. FileShape(Written(RepairSections(stored)))
  BY <1>1, WrittenShape
<1> QED BY <1>1, <1>2 DEF LoadBreaks, SettingsInv

(* The token that is typed is the active backend's.                           *)
LEMMA TypedKeeps ==
  ASSUME SettingsInv, NEW token \in Tokens, NEW ok, TokenTyped(token, ok)
  PROVE  SettingsInv' /\ OthersKept
<1>1. token \in Text
  BY SettingsAssumption
<1>2. PICK b : b = active
  OBVIOUS
<1>3. b \in Backend /\ Resolved(b)
  BY <1>2 DEF SettingsInv
<1>4. config' = WithToken(config, b, token) /\ active' = [b EXCEPT !.token = token] /\ field' = token
  BY <1>2 DEF TokenTyped
<1>5. active' \in Backend /\ active'.name = b.name /\ active'.api = b.api
  BY <1>1, <1>3, <1>4 DEF Backend
<1>6. /\ ConfigShape(config')
      /\ \A n : n # b.name => GetApiToken(config', n) = GetApiToken(config, n)
  BY <1>1, <1>3, <1>4, WithTokenShape DEF SettingsInv, Backend, Resolved
<1>7. FileShape(stored')
  BY <1>6, WriteKeeps DEF SettingsInv, TokenTyped
<1> QED BY <1>1, <1>3, <1>4, <1>5, <1>6, <1>7 DEF SettingsInv, OthersKept, Resolved

(* The backend is swapped before its token is stored once more.               *)
LEMMA ChosenKeeps ==
  ASSUME SettingsInv, NEW backend \in Backends, NEW ok, NEW ok2, SsoApiChosen(backend, ok, ok2)
  PROVE  SettingsInv' /\ OthersKept
<1>1. PICK b : b = Chosen(backend)
  OBVIOUS
<1>2. PICK token : token = OwnOrLegacy(config, backend)
  OBVIOUS
<1>3. token \in Text
  BY <1>2, TokenTexts DEF SettingsInv
<1>4. b = [name |-> backend, api |-> BackendUrl[backend], token |-> token]
  BY <1>1, <1>2 DEF Chosen
<1>5. b \in Backend /\ Resolved(b) /\ b.name = backend /\ b.token = token
  BY <1>3, <1>4, BackendsResolved DEF Backend, Resolved
<1>6. PICK switched : switched = WithBackend(config, b)
  OBVIOUS
<1>7. ConfigShape(switched) /\ switched.tokens = config.tokens
  BY <1>5, <1>6, WithBackendShape DEF SettingsInv, Backend
<1>8. PICK stores : stores = (ok /\ token # field)
  OBVIOUS
<1>9. PICK c : c = IF stores THEN WithToken(switched, b, token) ELSE switched
  OBVIOUS
<1>10. /\ ConfigShape(WithToken(switched, b, token))
       /\ \A n : n # b.name => GetApiToken(WithToken(switched, b, token), n) = GetApiToken(switched, n)
  BY <1>3, <1>5, <1>7, WithTokenShape DEF Backend, Resolved
<1>11. /\ ConfigShape(c)
       /\ \A n : n # b.name => GetApiToken(c, n) = GetApiToken(config, n)
  BY <1>7, <1>9, <1>10 DEF GetApiToken
<1>12. /\ active' = b /\ field' \in {token, field} /\ config' = c
       /\ stored' \in {stored, Written(c), Written(switched)}
  BY <1>1, <1>5, <1>6, <1>8, <1>9 DEF SsoApiChosen
<1>13. FileShape(stored')
  BY <1>7, <1>11, <1>12, WrittenShape DEF SettingsInv
<1> QED BY <1>3, <1>5, <1>11, <1>12, <1>13 DEF SettingsInv, OthersKept

(* A setting that is stored, or that cannot be, leaves the tokens alone.      *)
Outcomes(o) == ConfigShape(o.config) /\ FileShape(o.stored) /\ o.config.tokens = config.tokens

LEMMA SetConfigKeeps ==
  ASSUME NEW before, Outcomes(before), NEW key, NEW value \in Text, NEW o \in SetConfig(before, key, value)
  PROVE  Outcomes(o)
<1>1. PICK c : c = WithSetting(before.config, key, value)
  OBVIOUS
<1>2. ConfigShape(c) /\ c.tokens = config.tokens
  BY <1>1, WithSettingShape DEF Outcomes
<1>3. FileShape(Written(c))
  BY <1>2, WrittenShape
<1>4. \/ o = before
      \/ o = [config |-> c, stored |-> Written(c), done |-> TRUE]
      \/ o = [config |-> c, stored |-> before.stored, done |-> FALSE]
  BY <1>1 DEF SetConfig
<1> QED BY <1>2, <1>3, <1>4 DEF Outcomes

LEMMA ModesKeep ==
  ASSUME SettingsInv, NEW mode, NEW o \in Modes(mode), Save(o)
  PROVE  SettingsInv' /\ OthersKept
<1>1. Outcomes(Unchanged)
  BY DEF Outcomes, Unchanged, SettingsInv
<1>2. \A b : Bool(b) \in Text
  BY LiteralTexts DEF Bool
<1>3. PICK o1 \in SetConfig(Unchanged, "proxy_only", Bool(mode = 1)) :
        o \in SetConfig(o1, "proxy_enabled", Bool(mode # 2))
  BY DEF Modes
<1>4. Outcomes(o1)
  BY <1>1, <1>2, <1>3, SetConfigKeeps
<1>5. Outcomes(o)
  BY <1>2, <1>3, <1>4, SetConfigKeeps
<1> QED BY <1>5 DEF Outcomes, Save, SettingsInv, OthersKept, GetApiToken

LEMMA BrowseKeeps ==
  ASSUME SettingsInv, NEW d \in Dirs, NEW ok, Browse(d, ok)
  PROVE  SettingsInv' /\ OthersKept
<1>1. d \in Text
  BY DesktopAssumption
<1>2. config' = WithSetting(config, "eq_directory", d) /\ UNCHANGED <<active, field>>
  BY DEF Browse
<1>3. ConfigShape(config') /\ config'.tokens = config.tokens
  BY <1>1, <1>2, WithSettingShape DEF SettingsInv
<1>4. FileShape(stored')
  BY <1>3, WriteKeeps DEF Browse, SettingsInv
<1> QED BY <1>2, <1>3, <1>4 DEF SettingsInv, OthersKept, GetApiToken

LEMMA SettingsStep ==
  ASSUME SettingsInv, [DesktopNext]_desktopVars
  PROVE  SettingsInv' /\ (running # "none" /\ running' # "none" => OthersKept)
<1> DEFINE Goal == SettingsInv' /\ (running # "none" /\ running' # "none" => OthersKept)
<1>1. ASSUME NEW name \in {"stable", "backup"}, NEW ok \in BOOLEAN, Start(name, ok)
      PROVE  Goal
  BY <1>1, LoadKeeps DEF Start
<1>2. CASE Exit \/ Dies \/ Relaunches
  BY <1>2, ForgetKeeps DEF Exit, Dies, Relaunches, Ends
<1>3. ASSUME NEW mode \in 0..2, ModeChosen(mode) \/ ModeWithoutGame(mode)
      PROVE  Goal
  BY <1>3, ModesKeep DEF ModeChosen, ModeWithoutGame
<1>4. ASSUME NEW d \in Dirs, NEW ok \in BOOLEAN, Browse(d, ok)
      PROVE  Goal
  BY <1>4, BrowseKeeps
<1>5. ASSUME NEW b \in Backends, NEW ok \in BOOLEAN, NEW ok2 \in BOOLEAN, ApiChosen(b, ok, ok2)
      PROVE  Goal
  BY <1>5, ChosenKeeps DEF ApiChosen
<1>6. ASSUME NEW token \in Tokens, NEW ok \in BOOLEAN, TokenEntered(token, ok)
      PROVE  Goal
  BY <1>6, TypedKeeps DEF TokenEntered
<1>7. CASE UNCHANGED settingsVars
  BY <1>7, SettingsUnchanged
<1>8. RestoreClicked \/ CheckAnswers \/ UpdateStep => UNCHANGED settingsVars
  BY DEF RestoreClicked, CheckAnswers, UpdateStep
<1>9. ASSUME NEW d \in Dirs, NEW file \in HostFiles, FileWritten(d, file)
      PROVE  UNCHANGED settingsVars
  BY <1>9 DEF FileWritten
<1>10. UNCHANGED desktopVars => UNCHANGED settingsVars
  BY DEF desktopVars
<1>11. CASE StartBreaks
  BY <1>11, BrokenLoad DEF StartBreaks
<1> QED
  BY <1>1, <1>2, <1>3, <1>4, <1>5, <1>6, <1>7, <1>8, <1>9, <1>10, <1>11 DEF DesktopNext

(* No handler changes the token of a backend that is not active after it:     *)
(* the backend is swapped before the token field's signal stores the token.   *)
(* (set_sso_api, set_api_token_for_backend)                                   *)
THEOREM TokensApart == DesktopSpec => OtherTokensKept
<1>1. ASSUME OthersKept
      PROVE  \A b \in Backends \ {active'.name} : GetApiToken(config', b) = GetApiToken(config, b)
  BY <1>1 DEF OthersKept
<1>2. DesktopInit => SettingsInv
  BY SettingsStart DEF DesktopInit
<1>3. SettingsInv /\ [DesktopNext]_desktopVars =>
        SettingsInv' /\ [running # "none" /\ running' # "none" =>
          \A b \in Backends \ {active'.name} : GetApiToken(config', b) = GetApiToken(config, b)]_desktopVars
  BY SettingsStep, <1>1
<1> QED BY <1>2, <1>3, PTL DEF DesktopSpec, OtherTokensKept

(* One repair is enough, whatever file a user or an older version has left,   *)
(* but for the names that no repair can resolve.  (repair_sections,           *)
(* config_text_needs_repair)                                                  *)
THEOREM RepairIsEnough == DesktopSpec => []RepairSettles
<1>1. SettingsInv => RepairSettles
  <2>1. ASSUME FileShape(stored), NeedsRepair(Written(RepairSections(stored)))
        PROVE  SettlesBut(RepairSections(stored))
    BY <2>1, Settled
  <2> QED BY <2>1 DEF SettingsInv, RepairSettles, SettlesBut
<1>2. DesktopInit => SettingsInv
  BY SettingsStart DEF DesktopInit
<1> QED BY <1>1, <1>2, SettingsStep, PTL DEF DesktopSpec

(* A token in the file, under whichever of the names of its backend, is not   *)
(* blanked by the repair.  (_repair_api_tokens)                               *)
THEOREM RepairKeeps == DesktopSpec => []RepairKeepsTokens
<1>1. ASSUME NEW entries, entries \in Entries, NEW i \in DOMAIN entries,
             Collapsed(entries[i].values) # "", SafeName(entries[i]) \notin Unsafe \cup {OldName}
      PROVE  LET name == SafeName(entries[i])
             IN  name \in DOMAIN RepairApiTokens(entries) /\ RepairApiTokens(entries)[name] # ""
  <2>1. PICK name : name = SafeName(entries[i])
    OBVIOUS
  <2>2. PickToken(entries[i].values) # ""
    BY <1>1, EntryTypes, PickedWhenGiven
  <2>3. TokenFor(entries, name) # ""
    BY <1>1, <2>1, <2>2, TokenGiven
  <2>4. name \in SafeNames(entries) \ {OldName}
    BY <1>1, <2>1 DEF SafeNames
  <2> QED BY <1>1, <2>1, <2>3, <2>4, RepairedTokens
<1>2. SettingsInv => RepairKeepsTokens
  <2>1. ASSUME FileShape(stored)
        PROVE  stored.tokens \in Entries /\ RepairSections(stored).tokens = RepairApiTokens(stored.tokens)
    BY <2>1, FileTypes DEF RepairSections
  <2> QED BY <1>1, <2>1 DEF SettingsInv, RepairKeepsTokens, GetApiToken
<1>3. DesktopInit => SettingsInv
  BY SettingsStart DEF DesktopInit
<1> QED BY <1>2, <1>3, SettingsStep, PTL DEF DesktopSpec

-----------------------------------------------------------------------------
(* Types and bounds *)

CountInv ==
  /\ Len(frames) <= MaxChecks
  /\ shown \in 0..2
  /\ ops \in 0..MaxOps
  /\ faults \in 0..MaxFaults

LEMMA StatusRange == \A h, d, c : Status(h, d, c) \in 0..2
BY DEF Status

LEMMA Spent ==
  ASSUME CountInv, NEW fails, Spend(fails)
  PROVE  faults' \in 0..MaxFaults
BY DesktopAssumption DEF Spend, CountInv

LEMMA Counted ==
  ASSUME CountInv, ops < MaxOps, ops' = ops + 1
  PROVE  ops' \in 0..MaxOps
BY DesktopAssumption DEF CountInv

LEMMA SelectedRange ==
  ASSUME NEW mode \in 0..2, NEW s \in Selected(mode)
  PROVE  s[2] \in 0..2
<1>1. CASE mode # 2 /\ ~UsingProxy(dir)
  <2>1. PICK o \in EnableProxy(dir) : s = <<o, IF o.ok THEN mode ELSE 2>>
    BY <1>1 DEF Selected
  <2> QED BY <2>1
<1>2. CASE mode = 2 /\ UsingProxy(dir)
  <2>1. PICK o \in DisableProxy(dir) : s = <<o, IF o.ok THEN 2 ELSE IF IsOn(config, "proxy_only") THEN 1 ELSE 0>>
    BY <1>2 DEF Selected
  <2> QED BY <2>1
<1>3. CASE ~(mode # 2 /\ ~UsingProxy(dir)) /\ ~(mode = 2 /\ UsingProxy(dir))
  <2>1. s = <<Untouched(dir, TRUE), mode>>
    BY <1>3 DEF Selected
  <2> QED BY <2>1
<1> QED BY <1>1, <1>2, <1>3

(* A check is answered only while there is room, and no other step opens a    *)
(* dialog.                                                                    *)
LEMMA FramesBound ==
  ASSUME DiskInv, CountInv, UpdateFound \/ UpdateStep
  PROVE  Len(frames') <= MaxChecks
<1>1. Len(frames) \in Nat /\ MaxChecks \in Nat
  BY UpdaterAssumption DEF DiskInv
<1>2. CASE UpdateFound
  <2>1. Len(frames') = Len(frames) + 1
    BY <1>2 DEF UpdateFound, DiskInv
  <2> QED BY <1>1, <1>2, <2>1 DEF UpdateFound
<1>3. CASE UpdateStep
  <2>1. frames # << >>
    BY <1>3 DEF UpdateStep, UpdateDeclined, UpdateAccepted, DownloadEnds, DownloadBreaks,
                RenameToStableFails, LaunchFails, UpdateUnpacked
  <2>2. \/ frames' = Pop
        \/ \E frame : frames' = Append(Pop, frame)
    BY <1>3 DEF UpdateStep, UpdateDeclined, UpdateAccepted, DownloadEnds, DownloadBreaks,
                RenameToStableFails, LaunchFails, UpdateUnpacked, Become
  <2>3. Pop \in Seq(Frame) /\ Len(Pop) = Len(frames) - 1 /\ Len(frames) # 0
    BY <2>1, PopFrames DEF DiskInv
  <2>4. \A frame : Len(Append(Pop, frame)) = Len(Pop) + 1
    BY <2>3
  <2>5. Len(frames') <= Len(frames)
    BY <1>1, <2>2, <2>3, <2>4
  <2> QED BY <1>1, <2>3, <2>4, <2>2 DEF CountInv
<1> QED BY <1>2, <1>3

LEMMA CountInit ==
  ASSUME DesktopInit
  PROVE  CountInv
BY DesktopAssumption, UpdaterAssumption DEF DesktopInit, UpdaterInit, CountInv

LEMMA CountStep ==
  ASSUME DiskInv, CountInv, [DesktopNext]_desktopVars
  PROVE  CountInv'
<1>1. Len(<< >>) <= MaxChecks
  BY UpdaterAssumption
<1>2. ASSUME NEW name \in {"stable", "backup"}, NEW ok \in BOOLEAN, Start(name, ok)
      PROVE  CountInv'
  <2>1. frames' = << >> /\ ops' = ops
    BY <1>2 DEF Start, Runs
  <2>2. shown' \in 0..2
    BY <1>2, StatusRange DEF Start
  <2>3. faults' \in 0..MaxFaults
    BY <1>2, Spent DEF Start
  <2> QED BY <1>1, <2>1, <2>2, <2>3 DEF CountInv
<1>3. CASE Exit
  <2>1. frames' = << >> /\ ops' = ops /\ shown' = shown
    BY <1>3 DEF Exit, Ends
  <2>2. faults' \in 0..MaxFaults
    BY <1>3, Spent DEF Exit, CountInv
  <2> QED BY <1>1, <2>1, <2>2 DEF CountInv
<1>4. CASE Dies
  <2>1. frames' = << >> /\ faults' = faults /\ shown' = shown
    BY <1>4 DEF Dies, Ends
  <2>2. ops' \in 0..MaxOps
    BY <1>4, Counted DEF Dies
  <2> QED BY <1>1, <2>1, <2>2 DEF CountInv
<1>5. CASE Relaunches
  BY <1>1, <1>5 DEF Relaunches, Ends, CountInv
<1>6. ASSUME NEW mode \in 0..2, ModeChosen(mode)
      PROVE  CountInv'
  <2>1. ops' \in 0..MaxOps /\ frames' = frames
    BY <1>6, Counted DEF ModeChosen, Op, updateVars
  <2>2. PICK s \in Selected(mode) : \E o \in Modes(s[2]) :
          /\ shown' = IF o.done THEN Status(host', dir, config') ELSE s[2]
          /\ Spend((~s[1].ok /\ Found(dir)) \/ ~o.done)
    BY <1>6 DEF ModeChosen
  <2>3. shown' \in 0..2
    BY <2>2, StatusRange, SelectedRange
  <2>4. faults' \in 0..MaxFaults
    BY <2>2, Spent
  <2> QED BY <2>1, <2>3, <2>4 DEF CountInv
<1>7. ASSUME NEW mode \in 0..2, ModeWithoutGame(mode)
      PROVE  CountInv'
  <2>1. ops' \in 0..MaxOps /\ frames' = frames /\ shown' = 2
    BY <1>7, Counted DEF ModeWithoutGame, Op, updateVars
  <2>2. faults' \in 0..MaxFaults
    BY <1>7, Spent DEF ModeWithoutGame
  <2> QED BY <2>1, <2>2 DEF CountInv
<1>8. ASSUME NEW d \in Dirs, NEW ok \in BOOLEAN, Browse(d, ok)
      PROVE  CountInv'
  <2>1. ops' \in 0..MaxOps /\ frames' = frames
    BY <1>8, Counted DEF Browse, Op, updateVars
  <2>2. shown' \in 0..2
    BY <1>8, StatusRange DEF Browse, CountInv
  <2>3. faults' \in 0..MaxFaults
    BY <1>8, Spent DEF Browse
  <2> QED BY <2>1, <2>2, <2>3 DEF CountInv
<1>9. CASE RestoreClicked
  <2>1. ops' \in 0..MaxOps /\ frames' = frames /\ shown' \in 0..2
    BY <1>9, Counted, StatusRange DEF RestoreClicked, Op, updateVars
  <2>2. faults' \in 0..MaxFaults
    BY <1>9, Spent DEF RestoreClicked
  <2> QED BY <2>1, <2>2 DEF CountInv
<1>10. ASSUME NEW b \in Backends, NEW ok \in BOOLEAN, NEW ok2 \in BOOLEAN, ApiChosen(b, ok, ok2)
       PROVE  CountInv'
  <2>1. ops' \in 0..MaxOps /\ frames' = frames /\ shown' = shown
    BY <1>10, Counted DEF ApiChosen, Op, updateVars
  <2>2. faults' \in 0..MaxFaults
    BY <1>10, Spent DEF ApiChosen
  <2> QED BY <2>1, <2>2 DEF CountInv
<1>11. ASSUME NEW token \in Tokens, NEW ok \in BOOLEAN, TokenEntered(token, ok)
       PROVE  CountInv'
  <2>1. ops' \in 0..MaxOps /\ frames' = frames /\ shown' = shown
    BY <1>11, Counted DEF TokenEntered, Op, updateVars
  <2>2. faults' \in 0..MaxFaults
    BY <1>11, Spent DEF TokenEntered
  <2> QED BY <2>1, <2>2 DEF CountInv
<1>12. ASSUME NEW d \in Dirs, NEW file \in HostFiles, FileWritten(d, file)
       PROVE  CountInv'
  <2>1. ops' \in 0..MaxOps
    BY <1>12, Counted DEF FileWritten
  <2> QED BY <1>12, <2>1 DEF FileWritten, updateVars, CountInv
<1>13. CASE CheckAnswers
  <2>1. ops' \in 0..MaxOps
    BY <1>13, Counted DEF CheckAnswers
  <2>2. Len(frames') <= MaxChecks
    BY <1>13, FramesBound DEF CheckAnswers
  <2> QED BY <1>13, <2>1, <2>2 DEF CheckAnswers, CountInv
<1>14. CASE UpdateStep
  <2>1. Len(frames') <= MaxChecks
    BY <1>14, FramesBound
  <2> QED BY <1>14, <2>1 DEF UpdateStep, CountInv
<1>15. CASE StartBreaks
  <2>1. faults' \in 0..MaxFaults
    BY <1>15, Spent DEF StartBreaks
  <2> QED BY <1>15, <2>1 DEF StartBreaks, updateVars, CountInv
<1>16. CASE UNCHANGED desktopVars
  BY <1>16 DEF desktopVars, updateVars, CountInv
<1> QED
  BY <1>2, <1>3, <1>4, <1>5, <1>6, <1>7, <1>8, <1>9, <1>10, <1>11, <1>12, <1>13, <1>14, <1>15, <1>16
     DEF DesktopNext

(* The types hold, the questions of updates that stand open at once are as    *)
(* many as a check may open, and a backup always names a login server.        *)
THEOREM DesktopTypes == DesktopSpec => []DesktopTypeOK
<1>1. SettingsInv => /\ DOMAIN stored = {"defaults", "tokens"}
                     /\ DOMAIN config = {"defaults", "tokens"}
                     /\ active.name \in Text /\ field \in Text
  <2>1. ASSUME NEW a, NEW b
        PROVE  DOMAIN [defaults |-> a, tokens |-> b] = {"defaults", "tokens"}
    OBVIOUS
  <2>2. ASSUME NEW f, f = [defaults |-> f.defaults, tokens |-> f.tokens]
        PROVE  DOMAIN f = {"defaults", "tokens"}
    BY <2>1, <2>2
  <2>3. SettingsInv => active.name \in Text /\ field \in Text
    BY DEF SettingsInv, Backend
  <2>4. SettingsInv => stored = [defaults |-> stored.defaults, tokens |-> stored.tokens]
    BY DEF SettingsInv, FileShape
  <2>5. SettingsInv => config = [defaults |-> config.defaults, tokens |-> config.tokens]
    BY DEF SettingsInv, ConfigShape
  <2> QED BY <2>2, <2>3, <2>4, <2>5
<1>2. SettingsInv /\ ExitInv /\ DiskInv /\ CountInv => DesktopTypeOK
  BY <1>1 DEF DesktopTypeOK, ExitInv, EqTypes, BackupsDirect, DiskInv, CountInv
<1>3. DesktopInit => SettingsInv /\ ExitInv /\ DiskInv /\ CountInv
  BY SettingsStart, ExitInit, DiskInit, CountInit DEF DesktopInit
<1>4. SettingsInv /\ ExitInv /\ DiskInv /\ CountInv /\ [DesktopNext]_desktopVars
        => SettingsInv' /\ ExitInv' /\ DiskInv' /\ CountInv'
  BY SettingsStep, ExitStep, DiskStep, CountStep
<1> QED BY <1>2, <1>3, <1>4, PTL DEF DesktopSpec

-----------------------------------------------------------------------------
(* What a restart finds *)

KeysResolved(c) == \A n \in DOMAIN c.tokens : SafeName(WrittenKey(c, n)) = n

NameResolved(defaults) ==
  ResolveBackendName(DefaultOf(defaults, "sso_api_name"), DefaultOf(defaults, "sso_api"))
    = DefaultOf(defaults, "sso_api_name")

(* The parser holds the backend in use as it would be loaded, and no key that *)
(* a repair would take for another one.                                       *)
Linked(c, b) ==
  /\ OwnUrl(c.defaults) /\ NameResolved(c.defaults)
  /\ KeysResolved(c)
  /\ b.name # "" => /\ b.name # OldName /\ b.name = StartName(c)
                    /\ b.token = OwnOrLegacy(c, b.name)
  /\ b.name \in Unsafe \cap DOMAIN c.tokens => c.tokens[b.name] = Legacy(c)

BackendInv == OwnUrl(CollapsedDefaults(stored)) /\ Linked(config, active)

LEMMA UrlGiven ==
  ASSUME NEW token \in Text
  PROVE  UrlIn(<<token>>) \in {"", token} /\ (UrlIn(<<token>>) = token => token \in Urls \/ token = "")
BY SingleValue DEF UrlIn

LEMMA KeyStays ==
  ASSUME NEW n, NEW token \in Text, n \notin Unsafe,
         n = "Custom" => token \notin Urls \cap DOMAIN UrlName
  PROVE  SafeName([name |-> n, values |-> <<token>>]) = n
<1>1. PICK entry : entry = [name |-> n, values |-> <<token>>]
  OBVIOUS
<1>2. entry.name = n /\ entry.values = <<token>>
  BY <1>1
<1>3. CASE n = "Custom"
  <2>1. UrlIn(entry.values) \notin DOMAIN UrlName
    BY <1>2, <1>3, UrlGiven, NamesAssumption
  <2> QED BY <1>1, <1>2, <1>3, <2>1 DEF SafeName, NameOfUrl
<1>4. CASE n # "Custom"
  BY <1>1, <1>2, <1>4, SafeStays DEF SafeName
<1> QED BY <1>3, <1>4

LEMMA RepairedKeys ==
  ASSUME NEW file, FileShape(file), NEW c, c = RepairSections(file)
  PROVE  KeysResolved(c) /\ DOMAIN c.tokens \cap Unsafe = {}
<1>1. PICK tokens, entries : tokens = c.tokens /\ entries = file.tokens
  OBVIOUS
<1>2. tokens = RepairApiTokens(entries) /\ entries \in Entries
  BY <1>1, FileTypes DEF RepairSections
<1>3. /\ DOMAIN tokens \in SUBSET SafeNames(entries)
      /\ \A n \in DOMAIN tokens : tokens[n] = TokenFor(entries, n)
  BY <1>2, RepairedTokens
<1>4. DOMAIN tokens \cap Unsafe = {}
  BY <1>2, <1>3, SafeNamesFinite
<1>5. ASSUME NEW n \in DOMAIN tokens
      PROVE  SafeName(WrittenKey(c, n)) = n
  <2>1. tokens[n] \in Text
    BY <1>2, <1>3, TokenText
  <2>2. n = "Custom" => tokens[n] \notin Urls \cap DOMAIN UrlName
    BY <1>2, <1>3, CustomSettles, NamesAssumption
  <2>3. n \notin Unsafe
    BY <1>4
  <2>4. SafeName([name |-> n, values |-> <<tokens[n]>>]) = n
    BY <2>1, <2>2, <2>3, KeyStays
  <2> QED BY <1>1, <2>4 DEF WrittenKey
<1> QED BY <1>1, <1>4, <1>5 DEF KeysResolved

LEMMA ParsedKeys ==
  ASSUME NEW file, FileShape(file), ~NeedsRepair(file), NEW c, c = Parsed(file)
  PROVE  KeysResolved(c) /\ DOMAIN c.tokens \cap Unsafe = {}
<1>1. PICK entries : entries = file.tokens
  OBVIOUS
<1>2. entries \in Entries
  BY <1>1, FileTypes
<1>3. ASSUME NEW n \in DOMAIN c.tokens
      PROVE  \E i \in DOMAIN entries : entries[i].name = n /\ c.tokens[n] = Collapsed(entries[i].values)
  <2>1. n \in TokenNames(file)
    BY <1>3 DEF Parsed
  <2>2. \E i \in DOMAIN entries : entries[i].name = n
    BY <1>1, <2>1 DEF TokenNames
  <2>3. c.tokens[n] = Collapsed(entries[CHOOSE i \in DOMAIN entries : entries[i].name = n].values)
    BY <1>1, <2>1 DEF Parsed
  <2> QED BY <2>2, <2>3
<1>4. DOMAIN c.tokens \cap Unsafe = {}
  BY DEF NeedsRepair, Parsed
<1>5. \A i \in DOMAIN entries : entries[i].name = "Custom" => UrlIn(entries[i].values) = ""
  BY <1>1 DEF NeedsRepair
<1>6. ASSUME NEW n \in DOMAIN c.tokens
      PROVE  SafeName(WrittenKey(c, n)) = n
  <2>1. PICK i \in DOMAIN entries : entries[i].name = n /\ c.tokens[n] = Collapsed(entries[i].values)
    BY <1>3
  <2>2. c.tokens[n] \in Text
    BY <1>2, <2>1, EntryTypes, CollapsedString
  <2>3. n = "Custom" => c.tokens[n] \notin Urls \cap DOMAIN UrlName
    BY <1>5, <2>1, NamesAssumption DEF UrlIn
  <2>4. n \notin Unsafe
    BY <1>4
  <2>5. SafeName([name |-> n, values |-> <<c.tokens[n]>>]) = n
    BY <2>2, <2>3, <2>4, KeyStays
  <2> QED BY <2>5 DEF WrittenKey
<1> QED BY <1>4, <1>6 DEF KeysResolved

LEMMA LoadedKeys ==
  ASSUME NEW file, FileShape(file), NEW c, c = LoadConfigParser(file)
  PROVE  /\ KeysResolved(c) /\ DOMAIN c.tokens \cap Unsafe = {}
         /\ c.defaults = RepairDefaults(file)
<1>1. CASE NeedsRepair(file)
  BY <1>1, RepairedKeys DEF LoadConfigParser, RepairSections
<1>2. CASE ~NeedsRepair(file)
  BY <1>2, ParsedKeys DEF LoadConfigParser, Parsed, NeedsRepair
<1> QED BY <1>1, <1>2

(* The repair leaves a name that it would leave again, and no other URL.      *)
LEMMA RepairedNames ==
  ASSUME NEW file, FileShape(file), NEW d, d = RepairDefaults(file)
  PROVE  NameResolved(d) /\ (OwnUrl(CollapsedDefaults(file)) => OwnUrl(d))
<1>1. PICK defaults : defaults = CollapsedDefaults(file)
  OBVIOUS
<1>2. PICK name, api : name = DefaultOf(defaults, "sso_api_name") /\ api = DefaultOf(defaults, "sso_api")
  OBVIOUS
<1>3. Renames(defaults, name, api, d)
  BY <1>1, <1>2, RepairedDefaults
<1>4. CASE name = "" /\ d = defaults
  <2>1. ResolveBackendName(name, api) = name
    BY <1>4, SafeStays, NamesAssumption
  <2> QED BY <1>1, <1>2, <1>4, <2>1 DEF NameResolved
<1>5. ASSUME name # "", "sso_api_name" \in DOMAIN defaults,
             d = WithName(defaults, ResolveBackendName(name, api))
      PROVE  NameResolved(d) /\ (OwnUrl(defaults) => OwnUrl(d))
  <2>1. PICK safe : safe = ResolveBackendName(name, api)
    OBVIOUS
  <2>2. defaults = [key \in DOMAIN defaults |-> defaults[key]]
    BY <1>1, FileTypes DEF Texts
  <2>3. d = [defaults EXCEPT !["sso_api_name"] = safe]
    BY <1>5, <2>1 DEF WithName
  <2>4. /\ DOMAIN d = DOMAIN defaults /\ d["sso_api_name"] = safe
        /\ \A key \in DOMAIN d : key # "sso_api_name" => d[key] = defaults[key]
    BY <1>5, <2>2, <2>3
  <2>5. DefaultOf(d, "sso_api_name") = safe /\ DefaultOf(d, "sso_api") = api
    BY <1>2, <1>5, <2>4 DEF DefaultOf
  <2>6. ResolveBackendName(safe, api) = safe
    BY <2>1, ResolveTwice
  <2>7. safe = name \/ safe \notin Unsafe
    BY <2>1, ResolvedName DEF Known
  <2>8. safe \in DOMAIN JoinedUrl => safe \in Unsafe
    BY DEF Unsafe
  <2>9. NameResolved(d)
    BY <2>5, <2>6 DEF NameResolved
  <2>10. OwnUrl(defaults) => OwnUrl(d)
    BY <1>2, <2>5, <2>7, <2>8 DEF OwnUrl
  <2> QED BY <2>9, <2>10
<1> QED BY <1>1, <1>3, <1>4, <1>5 DEF Renames

-----------------------------------------------------------------------------
(* The keys of the parser that a start reads *)

LEMMA DefaultIsSetting ==
  ASSUME NEW c
  PROVE  /\ DefaultOf(c.defaults, "sso_api_name") = Setting(c, "sso_api_name")
         /\ DefaultOf(c.defaults, "sso_api") = Setting(c, "sso_api")
BY DEF DefaultOf, Setting, Fallback

SameBackend(c, e) ==
  /\ "sso_api_name" \in DOMAIN c.defaults <=> "sso_api_name" \in DOMAIN e.defaults
  /\ Setting(c, "sso_api_name") = Setting(e, "sso_api_name")
  /\ Setting(c, "sso_api") = Setting(e, "sso_api")

LEMMA SameStart ==
  ASSUME NEW c, NEW e, SameBackend(c, e)
  PROVE  /\ StartName(c) = StartName(e)
         /\ OwnUrl(c.defaults) <=> OwnUrl(e.defaults)
         /\ NameResolved(c.defaults) <=> NameResolved(e.defaults)
<1>1. StartName(c) = StartName(e)
  BY DEF StartName, SameBackend
<1>2. /\ DefaultOf(c.defaults, "sso_api_name") = DefaultOf(e.defaults, "sso_api_name")
      /\ DefaultOf(c.defaults, "sso_api") = DefaultOf(e.defaults, "sso_api")
  BY DefaultIsSetting DEF SameBackend
<1> QED BY <1>1, <1>2 DEF OwnUrl, NameResolved

LEMMA SettingSet ==
  ASSUME NEW c, ConfigShape(c), NEW key, NEW value, NEW other
  PROVE  /\ other \in DOMAIN WithSetting(c, key, value).defaults <=> other = key \/ other \in DOMAIN c.defaults
         /\ Setting(WithSetting(c, key, value), other) = IF other = key THEN value ELSE Setting(c, other)
<1>1. PICK d, t : d = c.defaults /\ t = c.tokens
  OBVIOUS
<1>2. c = [defaults |-> d, tokens |-> t]
  BY <1>1 DEF ConfigShape
<1>3. PICK e : e = key :> value @@ d
  OBVIOUS
<1>4. WithSetting(c, key, value) = [defaults |-> e, tokens |-> t]
  BY <1>2, <1>3 DEF WithSetting
<1>5. /\ DOMAIN e = {key} \cup DOMAIN d
      /\ \A k \in DOMAIN e : e[k] = IF k = key THEN value ELSE d[k]
  BY <1>3 DEF @@, :>
<1>6. WithSetting(c, key, value).defaults = e
  BY <1>4
<1> QED BY <1>1, <1>5, <1>6 DEF Setting

LEMMA SettingKeepsTokens ==
  ASSUME NEW c, ConfigShape(c), NEW e, e.tokens = c.tokens
  PROVE  /\ KeysResolved(c) <=> KeysResolved(e)
         /\ \A n : GetApiToken(e, n) = GetApiToken(c, n)
BY DEF KeysResolved, WrittenKey, GetApiToken

(* A setting of something else does not change what the backend is.           *)
LEMMA LinkOther ==
  ASSUME NEW c, ConfigShape(c), NEW b, Linked(c, b), NEW key, NEW value \in Text,
         key \notin {"sso_api", "sso_api_name", "user_api_token"}
  PROVE  Linked(WithSetting(c, key, value), b)
<1>1. PICK e : e = WithSetting(c, key, value)
  OBVIOUS
<1>2. e.tokens = c.tokens
  BY <1>1, WithSettingShape
<1>3. SameBackend(c, e) /\ Legacy(e) = Legacy(c)
  BY <1>1, SettingSet DEF SameBackend, Legacy
<1>4. \A n : OwnOrLegacy(e, n) = OwnOrLegacy(c, n)
  BY <1>2, <1>3 DEF OwnOrLegacy, GetApiToken
<1>5. KeysResolved(e)
  BY <1>2, SettingKeepsTokens DEF Linked
<1> QED BY <1>1, <1>2, <1>3, <1>4, <1>5, SameStart DEF Linked

(* The token of the backend in use is its own and the one that an older file  *)
(* has for every backend.                                                     *)
LEMMA LinkToken ==
  ASSUME NEW c, ConfigShape(c), NEW b \in Backend, Resolved(b), Linked(c, b), NEW token \in Text,
         SafeName([name |-> b.name, values |-> <<token>>]) = b.name
  PROVE  Linked(WithToken(c, b, token), [b EXCEPT !.token = token])
<1>1. PICK tokens : tokens = b.name :> token @@ c.tokens
  OBVIOUS
<1>2. b.name \in Text
  BY DEF Backend
<1>3. /\ Texts(tokens) /\ IsFiniteSet(DOMAIN tokens) /\ DOMAIN tokens \subseteq Text
      /\ b.name \in DOMAIN tokens /\ tokens[b.name] = token
      /\ \A n : n # b.name => /\ n \in DOMAIN tokens <=> n \in DOMAIN c.tokens
                              /\ n \in DOMAIN c.tokens => tokens[n] = c.tokens[n]
  BY <1>1, <1>2, AddedTokens
<1>4. PICK kept : kept = WithTokens(c, tokens)
  OBVIOUS
<1>5. ConfigShape(kept) /\ kept.tokens = tokens /\ kept.defaults = c.defaults
  <2>1. ConfigShape(kept) /\ kept.tokens = tokens
    BY <1>3, <1>4, WithTokensShape
  <2>2. kept.defaults = c.defaults
    BY <1>4 DEF WithTokens, ConfigShape
  <2> QED BY <2>1, <2>2
<1>6. PICK e : e = WithSetting(kept, "user_api_token", token)
  OBVIOUS
<1>7. e = WithToken(c, b, token)
  BY <1>1, <1>4, <1>6 DEF WithToken, WithTokens, Resolved
<1>8. e.tokens = tokens
  BY <1>5, <1>6, WithSettingShape
<1>9. SameBackend(c, e) /\ Legacy(e) = token
  <2>1. SameBackend(kept, e) /\ Legacy(e) = token
    BY <1>5, <1>6, SettingSet DEF SameBackend, Legacy
  <2>2. SameBackend(c, kept)
    BY <1>5 DEF SameBackend, Setting
  <2> QED BY <2>1, <2>2 DEF SameBackend
<1>10. KeysResolved(e)
  <2>1. ASSUME NEW n \in DOMAIN tokens, n # b.name
        PROVE  SafeName(WrittenKey(e, n)) = n
    <3>1. WrittenKey(e, n) = WrittenKey(c, n)
      BY <1>3, <1>8, <2>1 DEF WrittenKey
    <3>2. n \in DOMAIN c.tokens
      BY <1>3, <2>1
    <3> QED BY <3>1, <3>2 DEF Linked, KeysResolved
  <2>2. SafeName(WrittenKey(e, b.name)) = b.name
    BY <1>3, <1>8 DEF WrittenKey
  <2> QED BY <1>8, <2>1, <2>2 DEF KeysResolved
<1>11. PICK a : a = [b EXCEPT !.token = token]
  OBVIOUS
<1>12. a.name = b.name /\ a.token = token
  BY <1>11 DEF Backend
<1>13. OwnOrLegacy(e, b.name) = token
  BY <1>3, <1>8, <1>9 DEF OwnOrLegacy, GetApiToken
<1>14. Linked(e, a)
  BY <1>3, <1>8, <1>9, <1>10, <1>12, <1>13, SameStart DEF Linked
<1> QED BY <1>7, <1>11, <1>14

(* Another backend is written with its name, its URL and its token.           *)
LEMMA LinkBackend ==
  ASSUME NEW c, ConfigShape(c), KeysResolved(c), NEW backend \in Backends, NEW b,
         b = [name |-> backend, api |-> BackendUrl[backend], token |-> OwnOrLegacy(c, backend)]
  PROVE  Linked(WithBackend(c, b), b)
<1>1. b.name = backend /\ b.api = BackendUrl[backend] /\ b.token = OwnOrLegacy(c, backend)
  OBVIOUS
<1>2. backend \in Text /\ b.api \in Text /\ b.token \in Text
  BY <1>1, BackendsResolved, TokenTexts
<1>3. PICK c1 : c1 = WithSetting(c, "sso_api", b.api)
  OBVIOUS
<1>4. PICK c2 : c2 = WithSetting(c1, "sso_api_name", backend)
  OBVIOUS
<1>5. PICK e : e = WithSetting(c2, "user_api_token", b.token)
  OBVIOUS
<1>6. e = WithBackend(c, b)
  BY <1>1, <1>3, <1>4, <1>5 DEF WithBackend
<1>7. ConfigShape(c1) /\ c1.tokens = c.tokens
  BY <1>2, <1>3, WithSettingShape
<1>8. ConfigShape(c2) /\ c2.tokens = c.tokens
  BY <1>2, <1>4, <1>7, WithSettingShape
<1>9. e.tokens = c.tokens
  BY <1>2, <1>5, <1>8, WithSettingShape
<1>10. Setting(c1, "sso_api") = b.api
  BY <1>3, SettingSet
<1>11. /\ "sso_api_name" \in DOMAIN c2.defaults /\ Setting(c2, "sso_api_name") = backend
       /\ Setting(c2, "sso_api") = b.api
  BY <1>4, <1>7, <1>10, SettingSet
<1>12. /\ "sso_api_name" \in DOMAIN e.defaults /\ Setting(e, "sso_api_name") = backend
       /\ Setting(e, "sso_api") = b.api /\ Legacy(e) = b.token
  BY <1>5, <1>8, <1>11, SettingSet DEF Legacy
<1>13. ResolveBackendName(backend, b.api) = backend
  BY BackendsResolved
<1>14. StartName(e) = backend /\ NameResolved(e.defaults)
  BY <1>12, <1>13, DefaultIsSetting DEF StartName, NameResolved
<1>15. backend \notin Unsafe /\ backend # OldName
  BY SettingsAssumption
<1>16. OwnUrl(e.defaults)
  BY <1>12, <1>15, DefaultIsSetting DEF OwnUrl, Unsafe
<1>17. OwnOrLegacy(e, backend) = b.token
  BY <1>1, <1>9, <1>12 DEF OwnOrLegacy, GetApiToken
<1>18. KeysResolved(e)
  BY <1>9, SettingKeepsTokens
<1> QED BY <1>1, <1>6, <1>14, <1>15, <1>16, <1>17, <1>18 DEF Linked

(* The URL in the name of the backend in use, which no known backend has.     *)
LEMMA JoinedStays ==
  ASSUME NEW c, NEW b, Linked(c, b), Resolved(b),
         b.name \in DOMAIN JoinedUrl
  PROVE  NameOfUrl(JoinedUrl[b.name], b.name) = b.name
<1>1. PICK name, api : name = b.name /\ api = Setting(c, "sso_api")
  OBVIOUS
<1>2. name \in Unsafe /\ name # "" /\ name \notin Known
  BY <1>1, NamesAssumption DEF Unsafe, Known
<1>3. PICK given : given = IF "sso_api_name" \in DOMAIN c.defaults THEN Setting(c, "sso_api_name") ELSE NameOfUrl(api, "")
  OBVIOUS
<1>4. name = ResolveBackendName(given, api)
  BY <1>1, <1>2, <1>3 DEF Linked, StartName
<1>5. name = given
  BY <1>2, <1>4, ResolvedName
<1>6. given = Setting(c, "sso_api_name")
  BY <1>2, <1>3, <1>5, NamedByUrl
<1>7. JoinedUrl[name] # "" => api \in {"", JoinedUrl[name]}
  BY <1>1, <1>5, <1>6, DefaultIsSetting DEF Linked, OwnUrl
<1>8. NameOfUrl(IF api # "" THEN api ELSE JoinedUrl[name], name) = name
  BY <1>1, <1>4, <1>5, NamesAssumption DEF ResolveBackendName
<1>9. CASE JoinedUrl[name] = ""
  BY <1>1, <1>9, NamesAssumption DEF NameOfUrl
<1>10. CASE JoinedUrl[name] # ""
  BY <1>1, <1>7, <1>8, <1>10
<1> QED BY <1>9, <1>10

LEMMA TypedStays ==
  ASSUME NEW c, NEW b, Linked(c, b), Resolved(b), NEW token \in Text, token \notin DOMAIN UrlName
  PROVE  SafeName([name |-> b.name, values |-> <<token>>]) = b.name
<1>1. PICK name, entry : name = b.name /\ entry = [name |-> name, values |-> <<token>>]
  OBVIOUS
<1>2. entry.name = name /\ entry.values = <<token>>
  BY <1>1
<1>3. PICK hint : hint = UrlIn(entry.values)
  OBVIOUS
<1>4. hint \in {"", token} /\ hint \notin DOMAIN UrlName
  BY <1>2, <1>3, UrlGiven, NamesAssumption
<1>5. CASE name \notin Unsafe
  BY <1>1, <1>5, KeyStays
<1>6. CASE name \in DOMAIN LabelUrl
  <2>1. name # "Custom"
    BY <1>6, NamesAssumption DEF Unsafe
  <2>2. NameOfUrl(LabelUrl[name], name) = name
    BY <1>1, <1>6, NamesAssumption DEF Resolved, ResolveBackendName
  <2>3. SafeName(entry) = name
    BY <1>2, <1>6, <2>1, <2>2, NamesAssumption DEF SafeName, ResolveBackendName
  <2> QED BY <1>1, <2>3
<1>7. CASE name \in DOMAIN JoinedUrl
  <2>1. name # "Custom"
    BY <1>7, NamesAssumption DEF Unsafe
  <2>2. NameOfUrl(JoinedUrl[name], name) = name
    BY <1>1, <1>7, JoinedStays
  <2>3. NameOfUrl(hint, name) = name
    BY <1>4 DEF NameOfUrl
  <2>4. ResolveBackendName(name, hint) = name
    BY <1>7, <2>2, <2>3, NamesAssumption DEF ResolveBackendName
  <2>5. SafeName(entry) = name
    BY <1>2, <1>3, <2>1, <2>4 DEF SafeName
  <2> QED BY <1>1, <2>5
<1> QED BY <1>5, <1>6, <1>7 DEF Unsafe

(* The migration ends at one of the two backends that the old one became.     *)
LEMMA LinkMigrated ==
  ASSUME NEW c, ConfigShape(c), KeysResolved(c), NEW e, e = Migrated(c)
  PROVE  /\ StartName(e) = "Good Guys"
         /\ OwnUrl(e.defaults) /\ NameResolved(e.defaults)
         /\ KeysResolved(e)
<1>1. PICK t : t = c.tokens
  OBVIOUS
<1>2. Texts(t)
  BY <1>1 DEF ConfigShape
<1>3. PICK token : token = IF OldName \in DOMAIN t THEN t[OldName] ELSE Legacy(c)
  OBVIOUS
<1>4. token \in Text
  BY <1>2, <1>3, SettingText DEF Legacy, Texts
<1>5. PICK seeded : seeded = IF token = "" THEN t ELSE [h \in Heirs |-> token] @@ t
  OBVIOUS
<1>6. PICK tokens : tokens = [n \in DOMAIN seeded \ {OldName} |-> seeded[n]]
  OBVIOUS
<1>7. PICK named, moved : /\ named = WithSetting(c, "sso_api_name", "Good Guys")
                          /\ moved = WithSetting(named, "sso_api", BackendUrl["Good Guys"])
  OBVIOUS
<1>8. e = WithTokens(moved, tokens)
  BY <1>1, <1>3, <1>5, <1>6, <1>7 DEF Migrated, WithTokens
<1>9. "Good Guys" \in Backends /\ BackendUrl["Good Guys"] \in Text
  BY SettingsAssumption DEF Heirs
<1>10. ConfigShape(named) /\ ConfigShape(moved)
  BY <1>7, <1>9, WithSettingShape, LiteralTexts
<1>11. e.tokens = tokens /\ e.defaults = moved.defaults
  BY <1>8, <1>10 DEF WithTokens, ConfigShape
<1>12. "sso_api_name" \in DOMAIN moved.defaults /\ Setting(moved, "sso_api_name") = "Good Guys"
  <2>1. PICK name, url : name = "Good Guys" /\ url = BackendUrl["Good Guys"]
    OBVIOUS
  <2>2. named = WithSetting(c, "sso_api_name", name) /\ moved = WithSetting(named, "sso_api", url)
    BY <1>7, <2>1
  <2>3. "sso_api_name" \in DOMAIN named.defaults /\ Setting(named, "sso_api_name") = name
    BY <2>2, SettingSet
  <2>4. "sso_api_name" \in DOMAIN moved.defaults /\ Setting(moved, "sso_api_name") = name
    BY <1>10, <2>2, <2>3, SettingSet
  <2> QED BY <2>1, <2>4
<1>13. "sso_api_name" \in DOMAIN e.defaults /\ Setting(e, "sso_api_name") = "Good Guys"
  BY <1>11, <1>12 DEF Setting
<1>14. \A hint : ResolveBackendName("Good Guys", hint) = "Good Guys"
  BY <1>9, BackendsResolved
<1>15. "Good Guys" \notin Unsafe
  BY <1>9, SettingsAssumption
<1>16. StartName(e) = "Good Guys" /\ NameResolved(e.defaults)
  BY <1>13, <1>14, DefaultIsSetting DEF StartName, NameResolved
<1>17. OwnUrl(e.defaults)
  BY <1>13, <1>15, DefaultIsSetting DEF OwnUrl, Unsafe
<1>18. ASSUME NEW n \in DOMAIN tokens
       PROVE  SafeName(WrittenKey(e, n)) = n
  <2>1. tokens[n] = seeded[n] /\ n \in DOMAIN seeded
    BY <1>6
  <2>2. CASE n \in DOMAIN t /\ seeded[n] = t[n]
    <3>1. WrittenKey(e, n) = WrittenKey(c, n)
      BY <1>1, <1>11, <2>1, <2>2 DEF WrittenKey
    <3> QED BY <1>1, <2>2, <3>1 DEF KeysResolved
  <2>3. CASE n \in Heirs /\ seeded[n] = token
    <3>1. n \notin Unsafe /\ n # "Custom"
      BY <2>3, SettingsAssumption
    <3>2. SafeName([name |-> n, values |-> <<token>>]) = n
      BY <1>4, <3>1, KeyStays
    <3> QED BY <1>11, <2>1, <2>3, <3>2 DEF WrittenKey
  <2>4. (n \in DOMAIN t /\ seeded[n] = t[n]) \/ (n \in Heirs /\ seeded[n] = token)
    BY <1>5, <2>1 DEF @@
  <2> QED BY <2>2, <2>3, <2>4
<1> QED BY <1>11, <1>16, <1>17, <1>18 DEF KeysResolved

LEMMA LinkLoaded ==
  ASSUME NEW file, FileShape(file), OwnUrl(CollapsedDefaults(file))
  PROVE  Linked(LoadedConfig(file), LoadedBackend(file))
<1>1. PICK c, e, b : c = LoadConfigParser(file) /\ e = LoadedConfig(file) /\ b = LoadedBackend(file)
  OBVIOUS
<1>2. ConfigShape(c)
  BY <1>1, LoadedParserShape
<1>3. /\ KeysResolved(c) /\ DOMAIN c.tokens \cap Unsafe = {}
      /\ c.defaults = RepairDefaults(file)
  BY <1>1, LoadedKeys
<1>4. OwnUrl(c.defaults) /\ NameResolved(c.defaults)
  BY <1>3, RepairedNames
<1>5. /\ b.name = IF Migrates(c) THEN "Good Guys" ELSE StartName(c)
      /\ b.token = IF b.name = "" THEN Legacy(c) ELSE OwnOrLegacy(e, b.name)
  BY <1>1 DEF LoadedBackend
<1>6. e = IF Migrates(c) THEN Migrated(c) ELSE c
  BY <1>1 DEF LoadedConfig
<1>7. CASE Migrates(c)
  <2>1. e = Migrated(c) /\ b.name = "Good Guys" /\ b.token = OwnOrLegacy(e, b.name)
    BY <1>5, <1>6, <1>7
  <2>2. "Good Guys" \notin Unsafe /\ "Good Guys" # OldName
    BY SettingsAssumption DEF Heirs
  <2> QED BY <1>1, <1>2, <1>3, <2>1, <2>2, LinkMigrated DEF Linked
<1>8. CASE ~Migrates(c)
  BY <1>1, <1>3, <1>4, <1>5, <1>6, <1>8 DEF Linked, Migrates
<1> QED BY <1>7, <1>8

LEMMA WrittenUrl ==
  ASSUME NEW c, ConfigShape(c), OwnUrl(c.defaults)
  PROVE  OwnUrl(CollapsedDefaults(Written(c)))
BY WrittenRead

LEMMA LinkNone == Linked(NoConfig, NoBackend)
<1>1. DOMAIN << >> = {}
  OBVIOUS
<1>2. DefaultOf(<< >>, "sso_api_name") = ""
  BY <1>1 DEF DefaultOf
<1>3. "" \notin Unsafe
  BY NamesAssumption
<1>4. OwnUrl(NoConfig.defaults) /\ NameResolved(NoConfig.defaults)
  BY <1>2, <1>3, SafeStays DEF NoConfig, OwnUrl, NameResolved, Unsafe
<1>5. KeysResolved(NoConfig)
  BY <1>1 DEF NoConfig, KeysResolved
<1> QED BY <1>3, <1>4, <1>5 DEF Linked, NoBackend

LEMMA LinkStart ==
  ASSUME SettingsInit
  PROVE  BackendInv
BY RestartAssumption, LinkNone DEF SettingsInit, BackendInv

LEMMA LinkForget ==
  ASSUME BackendInv, ForgetSettings
  PROVE  BackendInv'
BY LinkNone DEF ForgetSettings, BackendInv

LEMMA LinkUnchanged ==
  ASSUME BackendInv, UNCHANGED settingsVars
  PROVE  BackendInv'
BY DEF BackendInv, settingsVars

LEMMA LinkLoad ==
  ASSUME SettingsInv, BackendInv, NEW ok, LoadSettings(ok)
  PROVE  BackendInv'
<1>1. config' = LoadedConfig(stored) /\ active' = LoadedBackend(stored)
  BY DEF LoadSettings
<1>2. FileShape(stored) /\ OwnUrl(CollapsedDefaults(stored))
  BY DEF SettingsInv, BackendInv
<1>3. Linked(config', active') /\ ConfigShape(config')
  BY <1>1, <1>2, LinkLoaded, LoadedShape
<1>4. stored' = stored \/ stored' = Written(config')
  BY DEF LoadSettings, Write
<1>5. OwnUrl(CollapsedDefaults(stored'))
  BY <1>2, <1>3, <1>4, WrittenUrl DEF Linked
<1> QED BY <1>3, <1>5 DEF BackendInv

LEMMA LinkBroken ==
  ASSUME SettingsInv, BackendInv, LoadBreaks
  PROVE  BackendInv'
<1>1. PICK c : c = RepairSections(stored)
  OBVIOUS
<1>2. ConfigShape(c) /\ stored' = Written(c) /\ UNCHANGED <<config, active>>
  BY <1>1, BrokenLoad
<1>3. c.defaults = RepairDefaults(stored)
  BY <1>1 DEF RepairSections
<1>4. OwnUrl(c.defaults)
  BY <1>3, RepairedNames DEF SettingsInv, BackendInv
<1>5. OwnUrl(CollapsedDefaults(stored'))
  BY <1>2, <1>4, WrittenUrl
<1> QED BY <1>2, <1>5 DEF BackendInv

LEMMA LinkTyped ==
  ASSUME SettingsInv, BackendInv, NEW token \in Tokens, NEW ok, TokenTyped(token, ok)
  PROVE  BackendInv'
<1>1. token \in Text /\ token \notin DOMAIN UrlName
  BY SettingsAssumption, RestartAssumption
<1>2. PICK b : b = active
  OBVIOUS
<1>3. b \in Backend /\ Resolved(b) /\ Linked(config, b) /\ ConfigShape(config)
  BY <1>2 DEF SettingsInv, BackendInv
<1>4. config' = WithToken(config, b, token) /\ active' = [b EXCEPT !.token = token]
  BY <1>2 DEF TokenTyped
<1>5. SafeName([name |-> b.name, values |-> <<token>>]) = b.name
  BY <1>1, <1>3, TypedStays
<1>6. Linked(config', active')
  BY <1>1, <1>3, <1>4, <1>5, LinkToken
<1>7. ConfigShape(config')
  BY TypedKeeps DEF SettingsInv
<1>8. stored' = stored \/ stored' = Written(config')
  BY DEF TokenTyped, Write
<1>9. OwnUrl(CollapsedDefaults(stored'))
  BY <1>6, <1>7, <1>8, WrittenUrl DEF Linked, BackendInv
<1> QED BY <1>6, <1>9 DEF BackendInv

LEMMA LinkChosen ==
  ASSUME SettingsInv, BackendInv, NEW backend \in Backends, NEW ok, NEW ok2, SsoApiChosen(backend, ok, ok2)
  PROVE  BackendInv'
<1>1. PICK b, token : b = Chosen(backend) /\ token = OwnOrLegacy(config, backend)
  OBVIOUS
<1>2. ConfigShape(config) /\ KeysResolved(config)
  BY DEF SettingsInv, BackendInv, Linked
<1>3. token \in Text
  BY <1>1, <1>2, TokenTexts
<1>4. b = [name |-> backend, api |-> BackendUrl[backend], token |-> token]
  BY <1>1 DEF Chosen
<1>5. b \in Backend /\ Resolved(b) /\ b.name = backend /\ b.token = token
  BY <1>3, <1>4, BackendsResolved DEF Backend, Resolved
<1>6. PICK switched : switched = WithBackend(config, b)
  OBVIOUS
<1>7. ConfigShape(switched) /\ Linked(switched, b)
  BY <1>1, <1>2, <1>4, <1>5, <1>6, WithBackendShape, LinkBackend DEF Backend
<1>8. SafeName([name |-> b.name, values |-> <<token>>]) = b.name
  BY <1>3, <1>5, KeyStays, SettingsAssumption
<1>9. [b EXCEPT !.token = token] = b
  BY <1>4
<1>10. Linked(WithToken(switched, b, token), b)
  BY <1>3, <1>5, <1>7, <1>8, <1>9, LinkToken
<1>11. ConfigShape(WithToken(switched, b, token))
  BY <1>3, <1>5, <1>7, WithTokenShape DEF Backend, Resolved
<1>12. PICK c : c = config'
  OBVIOUS
<1>13. /\ active' = b
       /\ c = switched \/ c = WithToken(switched, b, token)
       /\ stored' \in {stored, Written(c), Written(switched)}
  BY <1>1, <1>5, <1>6, <1>12 DEF SsoApiChosen
<1>14. Linked(c, b) /\ ConfigShape(c)
  BY <1>7, <1>10, <1>11, <1>13
<1>15. OwnUrl(CollapsedDefaults(stored'))
  BY <1>7, <1>13, <1>14, WrittenUrl DEF Linked, BackendInv
<1> QED BY <1>12, <1>13, <1>14, <1>15 DEF BackendInv

(* The other settings.                                                        *)
LinkedOutcome(o) == Linked(o.config, active) /\ OwnUrl(CollapsedDefaults(o.stored))

LEMMA SetConfigLinks ==
  ASSUME NEW before, Outcomes(before), LinkedOutcome(before),
         NEW key, key \notin {"sso_api", "sso_api_name", "user_api_token"},
         NEW value \in Text, NEW o \in SetConfig(before, key, value)
  PROVE  LinkedOutcome(o)
<1>1. PICK c : c = WithSetting(before.config, key, value)
  OBVIOUS
<1>2. ConfigShape(c) /\ Linked(c, active)
  BY <1>1, WithSettingShape, LinkOther DEF Outcomes, LinkedOutcome
<1>3. OwnUrl(CollapsedDefaults(Written(c)))
  BY <1>2, WrittenUrl DEF Linked
<1>4. \/ o = before
      \/ o = [config |-> c, stored |-> Written(c), done |-> TRUE]
      \/ o = [config |-> c, stored |-> before.stored, done |-> FALSE]
  BY <1>1 DEF SetConfig
<1> QED BY <1>2, <1>3, <1>4 DEF LinkedOutcome

LEMMA LinkModes ==
  ASSUME SettingsInv, BackendInv, NEW mode, NEW o \in Modes(mode), Save(o)
  PROVE  BackendInv'
<1>1. Outcomes(Unchanged) /\ LinkedOutcome(Unchanged)
  BY DEF Outcomes, LinkedOutcome, Unchanged, SettingsInv, BackendInv
<1>2. \A b : Bool(b) \in Text
  BY LiteralTexts DEF Bool
<1>3. PICK o1 \in SetConfig(Unchanged, "proxy_only", Bool(mode = 1)) :
        o \in SetConfig(o1, "proxy_enabled", Bool(mode # 2))
  BY DEF Modes
<1>4. Outcomes(o1) /\ LinkedOutcome(o1)
  BY <1>1, <1>2, <1>3, SetConfigKeeps, SetConfigLinks
<1>5. LinkedOutcome(o)
  BY <1>2, <1>3, <1>4, SetConfigLinks
<1> QED BY <1>5 DEF LinkedOutcome, Save, BackendInv

LEMMA LinkBrowse ==
  ASSUME SettingsInv, BackendInv, NEW d \in Dirs, NEW ok, Browse(d, ok)
  PROVE  BackendInv'
<1>1. d \in Text
  BY DesktopAssumption
<1>2. config' = WithSetting(config, "eq_directory", d) /\ active' = active
  BY DEF Browse
<1>3. Linked(config', active') /\ ConfigShape(config')
  BY <1>1, <1>2, LinkOther, WithSettingShape DEF SettingsInv, BackendInv
<1>4. stored' = stored \/ stored' = Written(config')
  BY DEF Browse, Write
<1>5. OwnUrl(CollapsedDefaults(stored'))
  BY <1>3, <1>4, WrittenUrl DEF Linked, BackendInv
<1> QED BY <1>3, <1>5 DEF BackendInv

LEMMA LinkStep ==
  ASSUME SettingsInv, BackendInv, [DesktopNext]_desktopVars
  PROVE  BackendInv'
<1>1. ASSUME NEW name \in {"stable", "backup"}, NEW ok \in BOOLEAN, Start(name, ok)
      PROVE  BackendInv'
  BY <1>1, LinkLoad DEF Start
<1>2. CASE Exit \/ Dies \/ Relaunches
  BY <1>2, LinkForget DEF Exit, Dies, Relaunches
<1>3. ASSUME NEW mode \in 0..2, ModeChosen(mode) \/ ModeWithoutGame(mode)
      PROVE  BackendInv'
  BY <1>3, LinkModes DEF ModeChosen, ModeWithoutGame
<1>4. ASSUME NEW d \in Dirs, NEW ok \in BOOLEAN, Browse(d, ok)
      PROVE  BackendInv'
  BY <1>4, LinkBrowse
<1>5. ASSUME NEW b \in Backends, NEW ok \in BOOLEAN, NEW ok2 \in BOOLEAN, ApiChosen(b, ok, ok2)
      PROVE  BackendInv'
  BY <1>5, LinkChosen DEF ApiChosen
<1>6. ASSUME NEW token \in Tokens, NEW ok \in BOOLEAN, TokenEntered(token, ok)
      PROVE  BackendInv'
  BY <1>6, LinkTyped DEF TokenEntered
<1>7. CASE UNCHANGED settingsVars
  BY <1>7, LinkUnchanged
<1>8. RestoreClicked \/ CheckAnswers \/ UpdateStep => UNCHANGED settingsVars
  BY DEF RestoreClicked, CheckAnswers, UpdateStep
<1>9. ASSUME NEW d \in Dirs, NEW file \in HostFiles, FileWritten(d, file)
      PROVE  UNCHANGED settingsVars
  BY <1>9 DEF FileWritten
<1>10. UNCHANGED desktopVars => UNCHANGED settingsVars
  BY DEF desktopVars
<1>11. CASE StartBreaks
  BY <1>11, LinkBroken DEF StartBreaks
<1> QED
  BY <1>1, <1>2, <1>3, <1>4, <1>5, <1>6, <1>7, <1>8, <1>9, <1>10, <1>11 DEF DesktopNext

(* What was written is read with the same settings, and with the same token   *)
(* under every name that a repair does not drop.                              *)
LEMMA WrittenDefaults ==
  ASSUME NEW c, ConfigShape(c), NameResolved(c.defaults)
  PROVE  RepairDefaults(Written(c)) = c.defaults
<1>1. PICK file, d : file = Written(c) /\ d = c.defaults
  OBVIOUS
<1>2. d = CollapsedDefaults(file)
  BY <1>1, WrittenRead
<1>3. PICK name, api : name = DefaultOf(d, "sso_api_name") /\ api = DefaultOf(d, "sso_api")
  OBVIOUS
<1>4. Renames(d, name, api, RepairDefaults(file))
  BY <1>2, <1>3, RepairedDefaults
<1>5. ResolveBackendName(name, api) = name
  BY <1>1, <1>3 DEF NameResolved
<1>6. ASSUME name # "", "sso_api_name" \in DOMAIN d
      PROVE  WithName(d, name) = d
  <2>1. d = [key \in DOMAIN d |-> d[key]]
    BY <1>1 DEF ConfigShape, Texts
  <2>2. d["sso_api_name"] = name
    BY <1>3, <1>6 DEF DefaultOf
  <2> QED BY <2>1, <2>2 DEF WithName
<1> QED BY <1>1, <1>4, <1>5, <1>6 DEF Renames

LEMMA WrittenTokensRead ==
  ASSUME NEW c, ConfigShape(c), KeysResolved(c), NEW e, e = LoadConfigParser(Written(c)),
         NEW n, n \notin Unsafe \cup {OldName}
  PROVE  GetApiToken(e, n) = GetApiToken(c, n)
<1>1. PICK file, entries : file = Written(c) /\ entries = file.tokens
  OBVIOUS
<1>2. FileShape(file) /\ entries \in Entries
  BY <1>1, WrittenShape, FileTypes
<1>3. /\ TokenNames(file) = DOMAIN c.tokens
      /\ \A i \in DOMAIN entries : \E m \in DOMAIN c.tokens : entries[i] = WrittenKey(c, m)
  BY <1>1, WrittenRead
<1>4. ASSUME NEW i \in DOMAIN entries
      PROVE  LET m == entries[i].name
             IN  /\ m \in DOMAIN c.tokens /\ SafeName(entries[i]) = m
                 /\ PickToken(entries[i].values) = c.tokens[m]
                 /\ Collapsed(entries[i].values) = c.tokens[m]
  <2>1. PICK m \in DOMAIN c.tokens : entries[i] = WrittenKey(c, m)
    BY <1>3
  <2>2. entries[i].name = m /\ entries[i].values = <<c.tokens[m]>>
    BY <2>1 DEF WrittenKey
  <2>3. c.tokens[m] \in Text
    BY DEF ConfigShape, Texts
  <2>4. SafeName(entries[i]) = m
    BY <2>1 DEF KeysResolved
  <2> QED BY <2>2, <2>3, <2>4, SingleValue
<1>5. \A m \in DOMAIN c.tokens : \E i \in DOMAIN entries : entries[i].name = m
  BY <1>1, <1>3 DEF TokenNames
<1>6. CASE NeedsRepair(file)
  <2>1. PICK tokens : tokens = e.tokens
    OBVIOUS
  <2>2. tokens = RepairApiTokens(entries)
    BY <1>1, <1>6, <2>1 DEF LoadConfigParser, RepairSections
  <2>3. /\ DOMAIN tokens \in SUBSET SafeNames(entries)
        /\ SafeNames(entries) \ {OldName} \subseteq DOMAIN tokens
        /\ \A name \in DOMAIN tokens : tokens[name] = TokenFor(entries, name)
    BY <1>2, <2>2, RepairedTokens
  <2>4. n \in SafeNames(entries) <=> n \in DOMAIN c.tokens
    BY <1>4, <1>5 DEF SafeNames
  <2>5. n \in DOMAIN tokens <=> n \in DOMAIN c.tokens
    BY <2>3, <2>4
  <2>6. ASSUME n \in DOMAIN c.tokens
        PROVE  TokenFor(entries, n) = c.tokens[n]
    <3>1. PICK i \in DOMAIN entries : entries[i].name = n
      BY <1>5, <2>6
    <3>2. SafeName(entries[i]) = n /\ PickToken(entries[i].values) = c.tokens[n]
      BY <1>4, <3>1
    <3>3. \A j \in DOMAIN entries : SafeName(entries[j]) = n => PickToken(entries[j].values) = c.tokens[n]
      BY <1>4
    <3> QED BY <1>2, <3>2, <3>3, TokenGiven
  <2> QED BY <2>1, <2>3, <2>5, <2>6 DEF GetApiToken
<1>7. CASE ~NeedsRepair(file)
  <2>1. DOMAIN e.tokens = DOMAIN c.tokens
    BY <1>1, <1>3, <1>7 DEF LoadConfigParser, Parsed
  <2>2. ASSUME n \in DOMAIN c.tokens
        PROVE  e.tokens[n] = c.tokens[n]
    <3>1. e.tokens[n] = Collapsed(entries[CHOOSE i \in DOMAIN entries : entries[i].name = n].values)
      BY <1>1, <1>3, <1>7, <2>2 DEF LoadConfigParser, Parsed
    <3>2. PICK i \in DOMAIN entries : entries[i].name = n /\ e.tokens[n] = Collapsed(entries[i].values)
      BY <1>5, <2>2, <3>1
    <3> QED BY <1>4, <3>2
  <2> QED BY <2>1, <2>2 DEF GetApiToken
<1> QED BY <1>6, <1>7

(* The backend that is loaded is the one in use, with its token.              *)
LoadsAs(file, c, b) ==
  /\ LoadedBackend(file).name = b.name /\ LoadedBackend(file).token = b.token
  /\ \A n : n \notin Unsafe \cup {OldName} => GetApiToken(LoadedConfig(file), n) = GetApiToken(c, n)

LEMMA LoadedWritten ==
  ASSUME NEW c, ConfigShape(c), NEW b \in Backend, Linked(c, b), b.name # "",
         NEW file, file = Written(c)
  PROVE  LoadsAs(file, c, b)
<1>1. PICK e : e = LoadConfigParser(file)
  OBVIOUS
<1>2. FileShape(file)
  BY WrittenShape
<1>3. e.defaults = c.defaults /\ DOMAIN e.tokens \cap Unsafe = {}
  BY <1>1, <1>2, LoadedKeys, WrittenDefaults DEF Linked
<1>4. SameBackend(e, c) /\ Legacy(e) = Legacy(c)
  BY <1>3 DEF SameBackend, Setting, Legacy
<1>5. StartName(e) = b.name /\ b.name # OldName
  BY <1>4, SameStart DEF Linked
<1>6. ~Migrates(e)
  BY <1>5 DEF Migrates
<1>7. LoadedConfig(file) = e
  BY <1>1, <1>6 DEF LoadedConfig
<1>8. LoadedBackend(file).name = b.name /\ LoadedBackend(file).token = OwnOrLegacy(e, b.name)
  BY <1>1, <1>5, <1>6, <1>7 DEF LoadedBackend
<1>9. \A n : n \notin Unsafe \cup {OldName} => GetApiToken(e, n) = GetApiToken(c, n)
  BY <1>1, WrittenTokensRead DEF Linked
<1>10. OwnOrLegacy(e, b.name) = b.token
  <2>1. CASE b.name \notin Unsafe
    BY <1>4, <1>5, <1>9, <2>1 DEF OwnOrLegacy, Linked
  <2>2. CASE b.name \in Unsafe
    <3>1. GetApiToken(e, b.name) = ""
      BY <1>3, <2>2 DEF GetApiToken
    <3>2. GetApiToken(c, b.name) \in {"", Legacy(c)}
      BY <2>2 DEF GetApiToken, Linked
    <3> QED BY <1>4, <3>1, <3>2 DEF OwnOrLegacy, Linked
  <2> QED BY <2>1, <2>2
<1> QED BY <1>7, <1>8, <1>9, <1>10 DEF LoadsAs

(* A restart finds what the program works with, whichever handlers ran and    *)
(* whichever of their writes failed, once the last one has gone through: the  *)
(* name of the backend, its token and those of the other backends, read by    *)
(* way of the repair and the migration.  (set_sso_api,                        *)
(* set_api_token_for_backend, config_repair)                                  *)
THEOREM RestartFinds == DesktopSpec => []RestartSame
<1>1. ASSUME SettingsInv, BackendInv, Saved, active.name # ""
      PROVE  /\ LoadedBackend(stored).name = active.name
             /\ LoadedBackend(stored).token = active.token
             /\ \A n \in Backends : GetApiToken(LoadedConfig(stored), n) = GetApiToken(config, n)
  <2>1. CASE stored = Written(config)
    <3>1. \A n \in Backends : n \notin Unsafe \cup {OldName}
      BY SettingsAssumption
    <3>2. active \in Backend /\ ConfigShape(config) /\ Linked(config, active)
      BY <1>1 DEF SettingsInv, BackendInv
    <3>3. LoadsAs(stored, config, active)
      BY <1>1, <2>1, <3>2, LoadedWritten
    <3> QED BY <3>1, <3>3 DEF LoadsAs
  <2>2. CASE LoadedConfig(stored) = config
    <3>1. PICK b, c : b = LoadedBackend(stored) /\ c = LoadConfigParser(stored)
      OBVIOUS
    <3>2. Linked(config, b) /\ Linked(config, active)
      BY <1>1, <2>2, <3>1, LinkLoaded DEF SettingsInv, BackendInv
    <3>3. active.name = StartName(config) /\ active.token = OwnOrLegacy(config, active.name)
      BY <1>1, <3>2 DEF Linked
    <3>4. b.name = IF Migrates(c) THEN "Good Guys" ELSE StartName(c)
      BY <3>1 DEF LoadedBackend
    <3>5. ~Migrates(c) => config = c
      BY <2>2, <3>1 DEF LoadedConfig
    <3>6. b.name # ""
      BY <1>1, <3>3, <3>4, <3>5
    <3>7. b.name = StartName(config) /\ b.token = OwnOrLegacy(config, b.name)
      BY <3>2, <3>6 DEF Linked
    <3> QED BY <2>2, <3>1, <3>3, <3>7
  <2> QED BY <1>1, <2>1, <2>2 DEF Saved
<1>2. SettingsInv /\ BackendInv => RestartSame
  BY <1>1 DEF RestartSame
<1>3. DesktopInit => SettingsInv /\ BackendInv
  BY SettingsStart, LinkStart DEF DesktopInit
<1>4. SettingsInv /\ BackendInv /\ [DesktopNext]_desktopVars => SettingsInv' /\ BackendInv'
  BY SettingsStep, LinkStep
<1> QED BY <1>2, <1>3, <1>4, PTL DEF DesktopSpec

=============================================================================
