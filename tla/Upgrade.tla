------------------------------- MODULE Upgrade -------------------------------
(***************************************************************************)
(* Installing, updating and removing PAIOS: the pipeline of the updater,   *)
(* the steps of the installer it runs, its rollback, and the uninstaller,  *)
(* while the program itself may be running and hold its files open.        *)
(*                                                                         *)
(* Every file is reduced to the version it is of.  The libraries are       *)
(* `_internal` of a standalone installation and the packages of the        *)
(* virtual environment of a legacy one.                                    *)
(***************************************************************************)
EXTENDS Naturals

CONSTANTS Exe,          \* PAIOS.exe
          Libs,         \* the files of the program's libraries
          Updater,      \* PAIOSUpdater.exe
          Uninstaller,  \* PAIOSUninstall.exe, which only a standalone installation has
          VersionTxt,   \* version.txt
          Latest        \* the newest version that will be published

Items == {Exe, Updater, Uninstaller, VersionTxt} \cup Libs

\* What the archive of an update holds.
Program == {Exe} \cup Libs

ASSUME FilesAssumption ==
    /\ Exe \notin {Updater, Uninstaller, VersionTxt}
    /\ Updater \notin {Uninstaller, VersionTxt}
    /\ Uninstaller # VersionTxt
    /\ Libs \cap {Exe, Updater, Uninstaller, VersionTxt} = {}
    /\ Libs # {}

ASSUME LatestAssumption == Latest \in Nat \ {0}

Versions == 1 .. Latest
Absent == 0    \* the file is missing, or was cut short while it was written

VARIABLES
    layout,      \* "standalone", or "legacy" with the data inside the installation
    published,   \* the version of the latest release
    disk,        \* the version of each file of the installation
    app,         \* the running launcher: "off", "tray", "headless" or "leaving"
    stage,       \* what the updater, the installer or the uninstaller is doing
    driver,      \* who runs the installer: the "updater" or the "user"
    target,      \* the version being installed
    todo,        \* what the installer has still to copy, or the rollback to restore
    failed,      \* has a file of this installation failed to be copied?
    backup,      \* the files in the archive of this update
    data,        \* the user's data: "kept" or "lost"
    asked,       \* what the running uninstallation was told
    mishap       \* history: the worst since an installation was last completed

vars == <<layout, published, disk, app, stage, driver, target, todo, failed,
          backup, data, asked, mishap>>

user == <<layout, published, data>>
run == <<driver, target, todo, failed, backup, asked>>

Apps == {"off", "tray", "headless", "leaving"}
Stages == {"idle", "downloading", "stopping", "copying", "probing", "stamping",
           "clearing", "extracting", "restarting", "uninstalling"}
Answers == {"none", "keep", "flag", "remove"}
Mishaps == {"none", "rolledBack", "unfinished"}

\* What an installer puts there.
Shipped == IF layout = "standalone" THEN Items ELSE Items \ {Uninstaller}

NoBackup == [f \in Program |-> Absent]

Init ==
    /\ layout \in {"standalone", "legacy"}
    /\ published = 1
    /\ disk = [i \in Items |-> IF i \in Shipped THEN 1 ELSE Absent]
    /\ app = "off"
    /\ stage = "idle"
    /\ driver = "none"
    /\ target = Absent
    /\ todo = {}
    /\ failed = FALSE
    /\ backup = NoBackup
    /\ data = "kept"
    /\ asked = "none"
    /\ mishap = "none"

-----------------------------------------------------------------------------
(***************************************************************************)
(* The program.                                                            *)
(***************************************************************************)

InUse(i) == i = Exe /\ app # "off"

UserStarts ==
    /\ app = "off"
    /\ disk[Exe] # Absent
    /\ app' \in {"tray", "headless"}
    /\ UNCHANGED <<user, run, disk, stage, mishap>>

UserQuits ==
    /\ app \in {"tray", "headless"}
    /\ app' = "leaving"
    /\ UNCHANGED <<user, run, disk, stage, mishap>>

\* The children are stopped in reverse order, each within its timeout.
AppExits ==
    /\ app = "leaving"
    /\ app' = "off"
    /\ UNCHANGED <<user, run, disk, stage, mishap>>

\* `PAIOS.exe --stop` writes a sentinel and returns: a headless launcher sees
\* it at its next poll, a launcher with a tray never looks.
AfterStopRequest == IF app = "headless" THEN "leaving" ELSE app

\* What `PAIOS.exe --version` may answer: the version.txt beside it, or nothing
\* when the program does not start, does not answer in time or has no such file.
Reported ==
    {Absent} \cup (IF \A f \in Program : disk[f] # Absent THEN {disk[VersionTxt]} ELSE {})

\* What the virtual environment of a legacy installation answers.
VenvReported ==
    {Absent} \cup (IF layout = "legacy" THEN {disk[f] : f \in Libs} ELSE {})

\* UpdateEngine.installed_version: the first of the three that answers.
InstalledVersions ==
    IF disk[VersionTxt] # Absent THEN {disk[VersionTxt]} ELSE VenvReported

-----------------------------------------------------------------------------
(***************************************************************************)
(* The updater, up to its backup.                                          *)
(***************************************************************************)

\* A run of the updater or of an installer is over; what it knew is gone.
Ends(worst) ==
    /\ stage' = "idle"
    /\ driver' = "none"
    /\ target' = Absent
    /\ todo' = {}
    /\ failed' = FALSE
    /\ backup' = NoBackup
    /\ asked' = "none"
    /\ mishap' = worst

AfterRollback == IF mishap = "none" THEN "rolledBack" ELSE mishap

Publish ==
    /\ published < Latest
    /\ published' = published + 1
    /\ UNCHANGED <<layout, data, run, disk, app, stage, mishap>>

\* PAIOSUpdater.exe, or the updater among the packages of a legacy installation.
CanUpdate == layout = "legacy" \/ disk[Updater] # Absent

\* From the command line, or from the tray, whose launcher then leaves.
UpdateBegins ==
    /\ stage = "idle"
    /\ CanUpdate
    /\ \E v \in InstalledVersions : v # Absent /\ published > v
    /\ stage' = "downloading"
    /\ driver' = "updater"
    /\ target' = published
    /\ app' \in {app} \cup (IF app = "tray" THEN {"leaving"} ELSE {})
    /\ UNCHANGED <<user, disk, todo, failed, backup, asked, mishap>>

\* No network, a digest that does not match, or no room for the archive.
UpdateAborts ==
    /\ stage \in {"downloading", "stopping"}
    /\ Ends(mishap)
    /\ UNCHANGED <<user, disk, app>>

Downloads ==
    /\ stage = "downloading"
    /\ stage' = "stopping"
    /\ app' = AfterStopRequest
    /\ UNCHANGED <<user, run, disk, mishap>>

\* Only the launcher is saved.
ArchivedLauncher == [f \in Program |-> IF f = Exe THEN disk[f] ELSE Absent]

Archived == [f \in Program |-> disk[f]]

BacksUp ==
    /\ stage = "stopping"
    /\ backup' = Archived
    /\ stage' = "copying"
    /\ todo' = Shipped
    /\ UNCHANGED <<user, driver, target, failed, asked, disk, app, mishap>>

-----------------------------------------------------------------------------
(***************************************************************************)
(* The installer.                                                          *)
(***************************************************************************)

UserInstalls ==
    /\ stage = "idle"
    /\ stage' = "copying"
    /\ driver' = "user"
    /\ target' \in 1 .. published
    /\ todo' = Shipped
    /\ app' = IF layout = "standalone" THEN AfterStopRequest ELSE app
    /\ UNCHANGED <<user, disk, failed, backup, asked, mishap>>

\* copytree takes the files in any order; pip installs the packages before
\* place_launcher copies the launcher, then the updater, and then writes version.txt.
CopiedNext ==
    IF layout = "standalone" THEN todo
    ELSE IF todo \cap Libs # {} THEN todo \cap Libs
    ELSE IF Exe \in todo THEN {Exe}
    ELSE IF Updater \in todo THEN {Updater}
    ELSE todo

Copies(i) ==
    /\ stage = "copying"
    /\ i \in CopiedNext
    /\ ~InUse(i)
    /\ disk' = [disk EXCEPT ![i] = target]
    /\ todo' = todo \ {i}
    /\ UNCHANGED <<user, driver, target, failed, backup, asked, app, stage, mishap>>

\* copytree collects its errors and goes on; every other step stops at once.
StillToCopy(i) == IF layout = "standalone" THEN todo \ {i} ELSE {}

CopyFails(i) ==
    /\ stage = "copying"
    /\ i \in CopiedNext
    /\ failed' = TRUE
    /\ todo' = StillToCopy(i)
    /\ disk' \in {disk} \cup (IF InUse(i) THEN {} ELSE {[disk EXCEPT ![i] = Absent]})
    /\ UNCHANGED <<user, driver, target, backup, asked, app, stage, mishap>>

\* The installer's exit code is ignored.
InstallSucceedsIgnored == todo = {}

\* The installer answers before it has copied everything.
InstallSucceedsEarly == ~failed

InstallSucceeds == todo = {} /\ ~failed

Installed ==
    /\ stage = "copying"
    /\ InstallSucceeds
    /\ \/ driver = "user" /\ Ends("none")
       \/ driver = "updater" /\ stage' = "probing" /\ UNCHANGED <<run, mishap>>
    /\ UNCHANGED <<user, disk, app>>

\* A file was not copied, another step failed before or after the copies, or
\* the updater's timeout ended the installer.
InstallFails ==
    /\ stage = "copying"
    /\ \/ driver = "user" /\ Ends("unfinished")
       \/ driver = "updater" /\ stage' = "clearing" /\ UNCHANGED <<run, mishap>>
    /\ UNCHANGED <<user, disk, app>>

\* The installer is a process of its own: it survives the updater.
UpdaterKilled ==
    /\ stage = "copying"
    /\ driver = "updater"
    /\ driver' = "user"
    /\ backup' = NoBackup
    /\ UNCHANGED <<user, target, todo, failed, asked, disk, app, stage, mishap>>

-----------------------------------------------------------------------------
(***************************************************************************)
(* The updater, after the installer.                                       *)
(***************************************************************************)

Healthy(version) == version = target

\* The launcher's answer decides; without one, version.txt is removed and the
\* virtual environment is asked.
Probes ==
    /\ stage = "probing"
    /\ \/ \E v \in Reported \ {Absent} :
            /\ stage' = IF Healthy(v) THEN "stamping" ELSE "clearing"
            /\ UNCHANGED disk
       \/ \E v \in VenvReported :
            /\ stage' = IF Healthy(v) THEN "stamping" ELSE "clearing"
            /\ disk' = [disk EXCEPT ![VersionTxt] = Absent]
    /\ UNCHANGED <<user, run, app, mishap>>

Stamps ==
    /\ stage = "stamping"
    /\ disk' = [disk EXCEPT ![VersionTxt] = target]
    /\ stage' = "restarting"
    /\ UNCHANGED <<user, run, app, mishap>>

StampFails ==
    /\ stage = "stamping"
    /\ stage' = "clearing"
    /\ UNCHANGED <<user, run, disk, app, mishap>>

\* A launcher that still runs refuses the second instance.
Restarts ==
    /\ stage = "restarting"
    /\ app' = IF app = "off" THEN "tray" ELSE app
    /\ Ends("none")
    /\ UNCHANGED <<user, disk>>

\* Before anything is restored the libraries are removed; what a running
\* program holds open stays.
Cleared ==
    {gone \in SUBSET Libs :
        IF layout = "standalone" /\ \A f \in Libs : backup[f] = Absent
        THEN gone = {}
        ELSE app = "off" => gone = Libs}

Clears ==
    /\ stage = "clearing"
    /\ stage' = "extracting"
    /\ todo' = {f \in Program : backup[f] # Absent}
    /\ \E gone \in Cleared :
        disk' = [i \in Items |-> IF i \in gone THEN Absent ELSE disk[i]]
    /\ UNCHANGED <<user, driver, target, failed, backup, asked, app, mishap>>

\* The archive names PAIOS.exe first.
ExtractedNext == IF Exe \in todo THEN {Exe} ELSE todo

\* A file in use is skipped and the rollback goes on.
ExtractsSkipping(f) ==
    /\ stage = "extracting"
    /\ f \in ExtractedNext
    /\ disk' = [disk EXCEPT ![f] = IF InUse(f) THEN disk[f] ELSE backup[f]]
    /\ todo' = todo \ {f}
    /\ UNCHANGED <<user, driver, target, failed, backup, asked, app, stage, mishap>>

Extracts(f) ==
    /\ stage = "extracting"
    /\ f \in ExtractedNext
    /\ ~InUse(f)
    /\ disk' = [disk EXCEPT ![f] = backup[f]]
    /\ todo' = todo \ {f}
    /\ UNCHANGED <<user, driver, target, failed, backup, asked, app, stage, mishap>>

\* "Update failed; previous installation restored."
RolledBack ==
    /\ stage = "extracting"
    /\ todo = {}
    /\ Ends(AfterRollback)
    /\ UNCHANGED <<user, disk, app>>

\* A rollback that meets a file in use begins again.
RollbackRetried ==
    /\ stage = "extracting"
    /\ \E f \in ExtractedNext : InUse(f)
    /\ stage' = "clearing"
    /\ UNCHANGED <<user, run, disk, app, mishap>>

\* An error while restoring, a file in use or a disk that is full, leaves
\* apply() with no further handler.
RollbackFails ==
    /\ stage = "extracting"
    /\ \E f \in ExtractedNext :
        disk' \in {disk} \cup (IF InUse(f) THEN {} ELSE {[disk EXCEPT ![f] = Absent]})
    /\ Ends("unfinished")
    /\ UNCHANGED <<user, app>>

\* The machine goes down, perhaps while a file is being written.
Crash ==
    /\ stage # "idle"
    /\ Ends("unfinished")
    /\ app' = "off"
    /\ disk' \in {disk} \cup {[disk EXCEPT ![i] = Absent] : i \in todo}
    /\ UNCHANGED user

-----------------------------------------------------------------------------
(***************************************************************************)
(* The uninstaller.  "keep" is the answer to its question, or --yes;       *)
(* "flag" is --keep-data; "remove" is the explicit no, or --remove-data.   *)
(***************************************************************************)

UninstallBegins ==
    /\ stage = "idle"
    /\ \E i \in Items : disk[i] # Absent
    /\ stage' = "uninstalling"
    /\ driver' = "user"
    /\ asked' \in Answers \ {"none"}
    /\ app' = AfterStopRequest
    /\ UNCHANGED <<user, target, todo, failed, backup, disk, mishap>>

RemovesData ==
    \/ asked = "remove"
    \/ layout = "legacy" /\ asked # "flag"

\* Files in use are left behind, and the user is told so; the uninstaller of the
\* installation is in use itself.
Uninstalls ==
    /\ stage = "uninstalling"
    /\ \E left \in SUBSET {i \in Items : disk[i] # Absent} :
        /\ app = "off" => left \subseteq {Uninstaller}
        /\ disk' = [i \in Items |-> IF i \in left THEN disk[i] ELSE Absent]
        /\ Ends(IF left = {} THEN "none" ELSE "unfinished")
    /\ data' = IF RemovesData THEN "lost" ELSE data
    /\ UNCHANGED <<layout, published, app>>

-----------------------------------------------------------------------------
Pipeline ==
    \/ UpdateAborts \/ Downloads \/ BacksUp
    \/ \E i \in Items : Copies(i) \/ CopyFails(i)
    \/ Installed \/ InstallFails
    \/ Probes \/ Stamps \/ StampFails \/ Restarts
    \/ Clears
    \/ \E f \in Program : Extracts(f)
    \/ RolledBack \/ RollbackFails
    \/ Uninstalls

Next ==
    \/ UserStarts \/ UserQuits \/ AppExits
    \/ Publish \/ UpdateBegins \/ UserInstalls \/ UninstallBegins
    \/ Pipeline
    \/ UpdaterKilled \/ Crash

\* Every step of the pipeline has a timeout of its own or ends by itself.
Spec == Init /\ [][Next]_vars /\ WF_vars(Pipeline)

-----------------------------------------------------------------------------
(***************************************************************************)
(* Properties.                                                             *)
(***************************************************************************)

OfOneVersion(files) == \E v \in Versions \cup {Absent} : \A f \in files : disk[f] = v

(* Every variable has the type the code gives it. *)
TypeOK ==
    /\ layout \in {"standalone", "legacy"}
    /\ published \in Versions
    /\ disk \in [Items -> Versions \cup {Absent}]
    /\ app \in Apps
    /\ stage \in Stages
    /\ driver \in {"none", "updater", "user"}
    /\ target \in Versions \cup {Absent}
    /\ todo \subseteq Items
    /\ failed \in BOOLEAN
    /\ backup \in [Program -> Versions \cup {Absent}]
    /\ data \in {"kept", "lost"}
    /\ asked \in Answers
    /\ mishap \in Mishaps

(* When the updater reports success and starts PAIOS again every file is of the
   new version: copytree goes on after a file in use, and the version the new
   program reports is read from one of the files copied. *)
UpdatedIsNew == stage = "restarting" => \A i \in Shipped : disk[i] = target

(* Between runs the launcher and its libraries are all of one version, or all
   gone, unless a run was killed or reported that it could not finish: an aborted
   download, a failed installation and its rollback leave no program half
   replaced, also when it ran meanwhile and held its files open.  The updater and
   the uninstaller are of that version too, but not after a rollback: they are
   replaced with the program, the archive holds neither, and "previous
   installation restored" leaves them new, or cut short. *)
WholeUnlessUnfinished ==
    stage = "idle" =>
        /\ mishap # "unfinished" => OfOneVersion(Program)
        /\ mishap = "none" => OfOneVersion(Shipped \ {VersionTxt})

(* A failed update whose rollback reports "previous installation restored" has
   put back every file that the backup holds. *)
RollbackRestores ==
    [][stage = "extracting" /\ stage' = "idle" /\ mishap' # "unfinished" =>
        \A f \in Program : backup[f] # Absent => disk'[f] = backup[f]]_vars

(* Between runs, and as long as no update had to be rolled back, version.txt,
   from which the updater decides what it offers, is the version of the
   program's files. *)
VersionTrueUnlessRolledBack ==
    stage = "idle" /\ mishap = "none" =>
        \A f \in Program : disk[VersionTxt] = disk[f]

(* Every update, installation, rollback and removal comes to an end. *)
RunsEnd == stage # "idle" ~> stage = "idle"

=============================================================================
