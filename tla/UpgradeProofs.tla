---------------------------- MODULE UpgradeProofs ----------------------------
(***************************************************************************)
(* Proofs about the updater and the installer, for every set of library    *)
(* files and every number of releases.                                     *)
(***************************************************************************)
EXTENDS Upgrade, TLAPS

Present(files) == \E v \in Versions : \A f \in Program : files[f] = v

Working == {"copying", "probing", "stamping", "restarting", "clearing", "extracting"}

(* Who is at work, and what for. *)
Roles ==
    /\ stage \in {"downloading", "stopping", "probing", "stamping", "clearing",
                  "extracting", "restarting"} => driver = "updater"
    /\ stage = "copying" => driver \in {"updater", "user"}
    /\ stage \notin {"idle", "uninstalling"} => target \in Versions
    /\ stage \in {"idle", "downloading", "stopping", "uninstalling"} => ~failed

(* What can be said of the files while the installation is not being changed:
   version.txt tells the truth of all that was shipped until a rollback, and a
   program that was rolled back, or that is about to be updated, is there. *)
Untouched ==
    stage \in {"idle", "downloading", "stopping", "uninstalling"} =>
        /\ mishap = "none" => \A i \in Shipped : disk[VersionTxt] = disk[i]
        /\ mishap = "rolledBack" => Present(disk)
        /\ stage \in {"downloading", "stopping"} /\ mishap # "unfinished" => Present(disk)

(* The archive of an update holds a whole program. *)
BackupWhole ==
    stage \in Working /\ driver = "updater" /\ mishap # "unfinished" => Present(backup)

(* What the installer has copied, unless a copy failed. *)
CopiedSoFar ==
    stage = "copying" /\ ~failed => \A i \in Shipped \ todo : disk[i] = target

(* What the updater finds after an installer that succeeded. *)
InstalledWhole ==
    /\ stage \in {"probing", "stamping"} =>
           \A i \in Shipped \ {VersionTxt} : disk[i] = target
    /\ stage = "probing" => disk[VersionTxt] = target
    /\ stage = "restarting" => \A i \in Shipped : disk[i] = target

(* What the rollback has restored. *)
RestoredSoFar ==
    stage = "extracting" =>
        \A f \in Program \ todo : backup[f] # Absent => disk[f] = backup[f]

IInv == /\ TypeOK /\ Roles /\ Untouched /\ BackupWhole /\ CopiedSoFar
        /\ InstalledWhole /\ RestoredSoFar

-----------------------------------------------------------------------------
(* The files apart from one another, and the versions apart from no version. *)
LEMMA Names ==
    /\ Exe \in Program /\ Exe # VersionTxt /\ VersionTxt \notin Program
    /\ Libs \subseteq Program /\ Items = Program \cup {Updater, Uninstaller, VersionTxt}
    /\ Program \cup {VersionTxt} \subseteq Shipped /\ Shipped \subseteq Items
    /\ Updater \notin Program /\ Uninstaller \notin Program
    /\ Absent \notin Versions /\ 1 \in Versions
BY FilesAssumption, LatestAssumption DEF Program, Items, Shipped, Versions, Absent

(* Nothing turns one kind of installation into the other. *)
LEMMA ShippedStays == layout' = layout => Shipped' = Shipped
BY DEF Shipped

(* Each step keeps the invariant; the helpers are expanded where they are used. *)
LEMMA UserStartsKeeps == IInv /\ UserStarts => IInv'
BY Names, ShippedStays DEF IInv, TypeOK, Roles, Untouched, BackupWhole, CopiedSoFar, InstalledWhole, RestoredSoFar,
       Present, Working, Apps, Stages, Answers, Mishaps, UserStarts, user, run

LEMMA UserQuitsKeeps == IInv /\ UserQuits => IInv'
BY Names, ShippedStays DEF IInv, TypeOK, Roles, Untouched, BackupWhole, CopiedSoFar, InstalledWhole, RestoredSoFar,
       Present, Working, Apps, Stages, Answers, Mishaps, UserQuits, user, run

LEMMA AppExitsKeeps == IInv /\ AppExits => IInv'
BY Names, ShippedStays DEF IInv, TypeOK, Roles, Untouched, BackupWhole, CopiedSoFar, InstalledWhole, RestoredSoFar,
       Present, Working, Apps, Stages, Answers, Mishaps, AppExits, user, run

LEMMA ProbesKeeps == IInv /\ Probes => IInv'
BY Names, ShippedStays DEF IInv, TypeOK, Roles, Untouched, BackupWhole, CopiedSoFar, InstalledWhole, RestoredSoFar,
       Present, Working, Apps, Stages, Answers, Mishaps, Probes, user, run

LEMMA StampsKeeps == IInv /\ Stamps => IInv'
BY Names, ShippedStays DEF IInv, TypeOK, Roles, Untouched, BackupWhole, CopiedSoFar, InstalledWhole, RestoredSoFar,
       Present, Working, Apps, Stages, Answers, Mishaps, Stamps, user, run

LEMMA StampFailsKeeps == IInv /\ StampFails => IInv'
BY Names, ShippedStays DEF IInv, TypeOK, Roles, Untouched, BackupWhole, CopiedSoFar, InstalledWhole, RestoredSoFar,
       Present, Working, Apps, Stages, Answers, Mishaps, StampFails, user, run

LEMMA ClearsKeeps == IInv /\ Clears => IInv'
BY Names, ShippedStays DEF IInv, TypeOK, Roles, Untouched, BackupWhole, CopiedSoFar, InstalledWhole, RestoredSoFar,
       Present, Working, Apps, Stages, Answers, Mishaps, Clears, user, run

LEMMA UpdaterKilledKeeps == IInv /\ UpdaterKilled => IInv'
<1> SUFFICES ASSUME IInv, UpdaterKilled PROVE IInv'
    OBVIOUS
<1> USE Names, ShippedStays DEF IInv, UpdaterKilled, user, run, NoBackup
<1>1. TypeOK'
  BY DEF TypeOK, Apps, Stages, Answers, Mishaps
<1>2. Roles'
  BY DEF Roles, Stages, TypeOK
<1>3. Untouched'
  BY DEF Untouched, Present, BackupWhole, RestoredSoFar, Working, CopiedSoFar, InstalledWhole, Roles, TypeOK
<1>4. BackupWhole'
  BY DEF BackupWhole, Working, Present, Untouched, Roles, TypeOK
<1>5. CopiedSoFar'
  BY DEF CopiedSoFar, TypeOK
<1>6. InstalledWhole'
  BY DEF InstalledWhole, CopiedSoFar, TypeOK
<1>7. RestoredSoFar'
  BY DEF RestoredSoFar, TypeOK
<1> QED
  BY <1>1, <1>2, <1>3, <1>4, <1>5, <1>6, <1>7

LEMMA PublishKeeps == IInv /\ Publish => IInv'
<1> SUFFICES ASSUME IInv, Publish PROVE IInv'
    OBVIOUS
<1> USE Names, ShippedStays DEF IInv, Publish, user, run, Versions
<1>1. TypeOK'
  BY LatestAssumption DEF TypeOK, Apps, Stages, Answers, Mishaps
<1>2. Roles'
  BY LatestAssumption DEF Roles, Stages, TypeOK
<1>3. Untouched'
  BY DEF Untouched, Present, BackupWhole, RestoredSoFar, Working, CopiedSoFar, InstalledWhole, Roles, TypeOK
<1>4. BackupWhole'
  BY DEF BackupWhole, Working, Present, Untouched, Roles, TypeOK
<1>5. CopiedSoFar'
  BY DEF CopiedSoFar, TypeOK
<1>6. InstalledWhole'
  BY DEF InstalledWhole, CopiedSoFar, TypeOK
<1>7. RestoredSoFar'
  BY DEF RestoredSoFar, TypeOK
<1> QED
  BY <1>1, <1>2, <1>3, <1>4, <1>5, <1>6, <1>7

LEMMA UpdateBeginsKeeps == IInv /\ UpdateBegins => IInv'
<1> SUFFICES ASSUME IInv, UpdateBegins PROVE IInv'
    OBVIOUS
<1> USE Names, ShippedStays DEF IInv, UpdateBegins, user, run, InstalledVersions, VenvReported
<1>1. TypeOK'
  BY DEF TypeOK, Apps, Stages, Answers, Mishaps
<1>2. Roles'
  BY DEF Roles, Stages, TypeOK
<1>a. mishap = "none" => Present(disk)
  <2> SUFFICES ASSUME mishap = "none" PROVE Present(disk)
      OBVIOUS
  <2>1. \A f \in Program : disk[VersionTxt] = disk[f]
    BY DEF Untouched
  <2>2. disk[VersionTxt] # Absent
    BY <2>1
  <2> QED
    BY <2>1, <2>2 DEF Present, TypeOK
<1>3. Untouched'
  BY <1>a DEF Untouched, Present, Mishaps, TypeOK
<1>4. BackupWhole'
  BY DEF BackupWhole, Working, Present, Untouched, Roles, TypeOK
<1>5. CopiedSoFar'
  BY DEF CopiedSoFar, TypeOK
<1>6. InstalledWhole'
  BY DEF InstalledWhole, CopiedSoFar, TypeOK
<1>7. RestoredSoFar'
  BY DEF RestoredSoFar, TypeOK
<1> QED
  BY <1>1, <1>2, <1>3, <1>4, <1>5, <1>6, <1>7

LEMMA UserInstallsKeeps == IInv /\ UserInstalls => IInv'
<1> SUFFICES ASSUME IInv, UserInstalls PROVE IInv'
    OBVIOUS
<1> USE Names, ShippedStays DEF IInv, UserInstalls, user, run, AfterStopRequest, Versions
<1>1. TypeOK'
  BY LatestAssumption DEF TypeOK, Apps, Stages, Answers, Mishaps
<1>2. Roles'
  BY LatestAssumption DEF Roles, Stages, TypeOK
<1>3. Untouched'
  BY DEF Untouched, Present, BackupWhole, RestoredSoFar, Working, CopiedSoFar, InstalledWhole, Roles, TypeOK
<1>4. BackupWhole'
  BY DEF BackupWhole, Working, Present, Untouched, Roles, TypeOK
<1>5. CopiedSoFar'
  BY DEF CopiedSoFar, TypeOK
<1>6. InstalledWhole'
  BY DEF InstalledWhole, CopiedSoFar, TypeOK
<1>7. RestoredSoFar'
  BY DEF RestoredSoFar, TypeOK
<1> QED
  BY <1>1, <1>2, <1>3, <1>4, <1>5, <1>6, <1>7

LEMMA UninstallBeginsKeeps == IInv /\ UninstallBegins => IInv'
<1> SUFFICES ASSUME IInv, UninstallBegins PROVE IInv'
    OBVIOUS
<1> USE Names, ShippedStays DEF IInv, UninstallBegins, user, run, AfterStopRequest
<1>1. TypeOK'
  BY DEF TypeOK, Apps, Stages, Answers, Mishaps
<1>2. Roles'
  BY DEF Roles, Stages, TypeOK
<1>3. Untouched'
  BY DEF Untouched, Present, BackupWhole, RestoredSoFar, Working, CopiedSoFar, InstalledWhole, Roles, TypeOK
<1>4. BackupWhole'
  BY DEF BackupWhole, Working, Present, Untouched, Roles, TypeOK
<1>5. CopiedSoFar'
  BY DEF CopiedSoFar, TypeOK
<1>6. InstalledWhole'
  BY DEF InstalledWhole, CopiedSoFar, TypeOK
<1>7. RestoredSoFar'
  BY DEF RestoredSoFar, TypeOK
<1> QED
  BY <1>1, <1>2, <1>3, <1>4, <1>5, <1>6, <1>7

LEMMA UpdateAbortsKeeps == IInv /\ UpdateAborts => IInv'
<1> SUFFICES ASSUME IInv, UpdateAborts PROVE IInv'
    OBVIOUS
<1> USE Names, ShippedStays DEF IInv, UpdateAborts, user, run, Ends, NoBackup
<1>1. TypeOK'
  BY DEF TypeOK, Apps, Stages, Answers, Mishaps
<1>2. Roles'
  BY DEF Roles, Stages, TypeOK
<1>3. Untouched'
  BY DEF Untouched, Present, BackupWhole, RestoredSoFar, Working, CopiedSoFar, InstalledWhole, Roles, TypeOK
<1>4. BackupWhole'
  BY DEF BackupWhole, Working, Present, Untouched, Roles, TypeOK
<1>5. CopiedSoFar'
  BY DEF CopiedSoFar, TypeOK
<1>6. InstalledWhole'
  BY DEF InstalledWhole, CopiedSoFar, TypeOK
<1>7. RestoredSoFar'
  BY DEF RestoredSoFar, TypeOK
<1> QED
  BY <1>1, <1>2, <1>3, <1>4, <1>5, <1>6, <1>7

LEMMA DownloadsKeeps == IInv /\ Downloads => IInv'
<1> SUFFICES ASSUME IInv, Downloads PROVE IInv'
    OBVIOUS
<1> USE Names, ShippedStays DEF IInv, Downloads, user, run, AfterStopRequest
<1>1. TypeOK'
  BY DEF TypeOK, Apps, Stages, Answers, Mishaps
<1>2. Roles'
  BY DEF Roles, Stages, TypeOK
<1>3. Untouched'
  BY DEF Untouched, Present, BackupWhole, RestoredSoFar, Working, CopiedSoFar, InstalledWhole, Roles, TypeOK
<1>4. BackupWhole'
  BY DEF BackupWhole, Working, Present, Untouched, Roles, TypeOK
<1>5. CopiedSoFar'
  BY DEF CopiedSoFar, TypeOK
<1>6. InstalledWhole'
  BY DEF InstalledWhole, CopiedSoFar, TypeOK
<1>7. RestoredSoFar'
  BY DEF RestoredSoFar, TypeOK
<1> QED
  BY <1>1, <1>2, <1>3, <1>4, <1>5, <1>6, <1>7

LEMMA BacksUpKeeps == IInv /\ BacksUp => IInv'
<1> SUFFICES ASSUME IInv, BacksUp PROVE IInv'
    OBVIOUS
<1> USE Names, ShippedStays DEF IInv, BacksUp, user, run, Archived
<1>1. TypeOK'
  BY DEF TypeOK, Apps, Stages, Answers, Mishaps
<1>2. Roles'
  BY DEF Roles, Stages, TypeOK
<1>3. Untouched'
  BY DEF Untouched, Present, BackupWhole, RestoredSoFar, Working, CopiedSoFar, InstalledWhole, Roles, TypeOK
<1>4. BackupWhole'
  BY DEF BackupWhole, Working, Present, Untouched, Roles, TypeOK
<1>5. CopiedSoFar'
  BY DEF CopiedSoFar, TypeOK
<1>6. InstalledWhole'
  BY DEF InstalledWhole, CopiedSoFar, TypeOK
<1>7. RestoredSoFar'
  BY DEF RestoredSoFar, TypeOK
<1> QED
  BY <1>1, <1>2, <1>3, <1>4, <1>5, <1>6, <1>7

LEMMA InstalledKeeps == IInv /\ Installed => IInv'
<1> SUFFICES ASSUME IInv, Installed PROVE IInv'
    OBVIOUS
<1> USE Names, ShippedStays DEF IInv, Installed, user, run, Ends, NoBackup, InstallSucceeds
<1>1. TypeOK'
  BY DEF TypeOK, Apps, Stages, Answers, Mishaps
<1>2. Roles'
  BY DEF Roles, Stages, TypeOK
<1>3. Untouched'
  BY DEF Untouched, Present, BackupWhole, RestoredSoFar, Working, CopiedSoFar, InstalledWhole, Roles, TypeOK
<1>4. BackupWhole'
  BY DEF BackupWhole, Working, Present, Untouched, Roles, TypeOK
<1>5. CopiedSoFar'
  BY DEF CopiedSoFar, TypeOK
<1>6. InstalledWhole'
  BY DEF InstalledWhole, CopiedSoFar, TypeOK
<1>7. RestoredSoFar'
  BY DEF RestoredSoFar, TypeOK
<1> QED
  BY <1>1, <1>2, <1>3, <1>4, <1>5, <1>6, <1>7

LEMMA InstallFailsKeeps == IInv /\ InstallFails => IInv'
<1> SUFFICES ASSUME IInv, InstallFails PROVE IInv'
    OBVIOUS
<1> USE Names, ShippedStays DEF IInv, InstallFails, user, run, Ends, NoBackup
<1>1. TypeOK'
  BY DEF TypeOK, Apps, Stages, Answers, Mishaps
<1>2. Roles'
  BY DEF Roles, Stages, TypeOK
<1>3. Untouched'
  BY DEF Untouched, Present, BackupWhole, RestoredSoFar, Working, CopiedSoFar, InstalledWhole, Roles, TypeOK
<1>4. BackupWhole'
  BY DEF BackupWhole, Working, Present, Untouched, Roles, TypeOK
<1>5. CopiedSoFar'
  BY DEF CopiedSoFar, TypeOK
<1>6. InstalledWhole'
  BY DEF InstalledWhole, CopiedSoFar, TypeOK
<1>7. RestoredSoFar'
  BY DEF RestoredSoFar, TypeOK
<1> QED
  BY <1>1, <1>2, <1>3, <1>4, <1>5, <1>6, <1>7

LEMMA RestartsKeeps == IInv /\ Restarts => IInv'
<1> SUFFICES ASSUME IInv, Restarts PROVE IInv'
    OBVIOUS
<1> USE Names, ShippedStays DEF IInv, Restarts, user, run, Ends, NoBackup
<1>1. TypeOK'
  BY DEF TypeOK, Apps, Stages, Answers, Mishaps
<1>2. Roles'
  BY DEF Roles, Stages, TypeOK
<1>3. Untouched'
  BY DEF Untouched, Present, BackupWhole, RestoredSoFar, Working, CopiedSoFar, InstalledWhole, Roles, TypeOK
<1>4. BackupWhole'
  BY DEF BackupWhole, Working, Present, Untouched, Roles, TypeOK
<1>5. CopiedSoFar'
  BY DEF CopiedSoFar, TypeOK
<1>6. InstalledWhole'
  BY DEF InstalledWhole, CopiedSoFar, TypeOK
<1>7. RestoredSoFar'
  BY DEF RestoredSoFar, TypeOK
<1> QED
  BY <1>1, <1>2, <1>3, <1>4, <1>5, <1>6, <1>7

LEMMA RolledBackKeeps == IInv /\ RolledBack => IInv'
<1> SUFFICES ASSUME IInv, RolledBack PROVE IInv'
    OBVIOUS
<1> USE Names, ShippedStays DEF IInv, RolledBack, user, run, Ends, NoBackup, AfterRollback
<1>1. TypeOK'
  BY DEF TypeOK, Apps, Stages, Answers, Mishaps
<1>2. Roles'
  BY DEF Roles, Stages, TypeOK
<1>3. Untouched'
  BY DEF Untouched, Present, BackupWhole, RestoredSoFar, Working, CopiedSoFar, InstalledWhole, Roles, TypeOK
<1>4. BackupWhole'
  BY DEF BackupWhole, Working, Present, Untouched, Roles, TypeOK
<1>5. CopiedSoFar'
  BY DEF CopiedSoFar, TypeOK
<1>6. InstalledWhole'
  BY DEF InstalledWhole, CopiedSoFar, TypeOK
<1>7. RestoredSoFar'
  BY DEF RestoredSoFar, TypeOK
<1> QED
  BY <1>1, <1>2, <1>3, <1>4, <1>5, <1>6, <1>7

LEMMA RollbackFailsKeeps == IInv /\ RollbackFails => IInv'
<1> SUFFICES ASSUME IInv, RollbackFails PROVE IInv'
    OBVIOUS
<1> USE Names, ShippedStays DEF IInv, RollbackFails, user, run, Ends, NoBackup, ExtractedNext
<1>1. TypeOK'
  BY DEF TypeOK, Apps, Stages, Answers, Mishaps
<1>2. Roles'
  BY DEF Roles, Stages, TypeOK
<1>3. Untouched'
  BY DEF Untouched, Present, BackupWhole, RestoredSoFar, Working, CopiedSoFar, InstalledWhole, Roles, TypeOK
<1>4. BackupWhole'
  BY DEF BackupWhole, Working, Present, Untouched, Roles, TypeOK
<1>5. CopiedSoFar'
  BY DEF CopiedSoFar, TypeOK
<1>6. InstalledWhole'
  BY DEF InstalledWhole, CopiedSoFar, TypeOK
<1>7. RestoredSoFar'
  BY DEF RestoredSoFar, TypeOK
<1> QED
  BY <1>1, <1>2, <1>3, <1>4, <1>5, <1>6, <1>7

LEMMA CrashKeeps == IInv /\ Crash => IInv'
<1> SUFFICES ASSUME IInv, Crash PROVE IInv'
    OBVIOUS
<1> USE Names, ShippedStays DEF IInv, Crash, user, run, Ends, NoBackup
<1>1. TypeOK'
  BY DEF TypeOK, Apps, Stages, Answers, Mishaps
<1>2. Roles'
  BY DEF Roles, Stages, TypeOK
<1>3. Untouched'
  BY DEF Untouched, Present, BackupWhole, RestoredSoFar, Working, CopiedSoFar, InstalledWhole, Roles, TypeOK
<1>4. BackupWhole'
  BY DEF BackupWhole, Working, Present, Untouched, Roles, TypeOK
<1>5. CopiedSoFar'
  BY DEF CopiedSoFar, TypeOK
<1>6. InstalledWhole'
  BY DEF InstalledWhole, CopiedSoFar, TypeOK
<1>7. RestoredSoFar'
  BY DEF RestoredSoFar, TypeOK
<1> QED
  BY <1>1, <1>2, <1>3, <1>4, <1>5, <1>6, <1>7

LEMMA UninstallsKeeps == IInv /\ Uninstalls => IInv'
<1> SUFFICES ASSUME IInv, Uninstalls PROVE IInv'
    OBVIOUS
<1> USE Names, ShippedStays DEF IInv, Uninstalls, user, run, Ends, NoBackup
<1>1. TypeOK'
  BY DEF TypeOK, Apps, Stages, Answers, Mishaps
<1>2. Roles'
  BY DEF Roles, Stages, TypeOK
<1>3. Untouched'
  BY DEF Untouched, Present, BackupWhole, RestoredSoFar, Working, CopiedSoFar, InstalledWhole, Roles, TypeOK
<1>4. BackupWhole'
  BY DEF BackupWhole, Working, Present, Untouched, Roles, TypeOK
<1>5. CopiedSoFar'
  BY DEF CopiedSoFar, TypeOK
<1>6. InstalledWhole'
  BY DEF InstalledWhole, CopiedSoFar, TypeOK
<1>7. RestoredSoFar'
  BY DEF RestoredSoFar, TypeOK
<1> QED
  BY <1>1, <1>2, <1>3, <1>4, <1>5, <1>6, <1>7

LEMMA CopiesKeeps == ASSUME NEW i \in Items, IInv, Copies(i) PROVE IInv'
BY Names, ShippedStays DEF IInv, TypeOK, Roles, Untouched, BackupWhole, CopiedSoFar, InstalledWhole, RestoredSoFar,
       Present, Working, Apps, Stages, Answers, Mishaps,
       Copies, user, run, CopiedNext, StillToCopy

LEMMA CopyFailsKeeps == ASSUME NEW i \in Items, IInv, CopyFails(i) PROVE IInv'
BY Names, ShippedStays DEF IInv, TypeOK, Roles, Untouched, BackupWhole, CopiedSoFar, InstalledWhole, RestoredSoFar,
       Present, Working, Apps, Stages, Answers, Mishaps,
       CopyFails, user, run, CopiedNext, StillToCopy

LEMMA ExtractsKeeps == ASSUME NEW f \in Program, IInv, Extracts(f) PROVE IInv'
BY Names, ShippedStays DEF IInv, TypeOK, Roles, Untouched, BackupWhole, CopiedSoFar, InstalledWhole, RestoredSoFar,
       Present, Working, Apps, Stages, Answers, Mishaps,
       Extracts, user, run, ExtractedNext

LEMMA PipelineKeeps == IInv /\ Pipeline => IInv'
<1> SUFFICES ASSUME IInv, Pipeline PROVE IInv'
    OBVIOUS
<1>1. CASE \E i \in Items : Copies(i) \/ CopyFails(i)
  BY <1>1, CopiesKeeps, CopyFailsKeeps
<1>2. CASE \E f \in Program : Extracts(f)
  BY <1>2, ExtractsKeeps
<1> QED
  BY <1>1, <1>2, UpdateAbortsKeeps, DownloadsKeeps, BacksUpKeeps, InstalledKeeps,
     InstallFailsKeeps, ProbesKeeps, StampsKeeps, StampFailsKeeps, RestartsKeeps,
     ClearsKeeps, RolledBackKeeps, RollbackFailsKeeps, UninstallsKeeps DEF Pipeline

LEMMA StepKeeps == IInv /\ [Next]_vars => IInv'
<1> SUFFICES ASSUME IInv, [Next]_vars PROVE IInv'
    OBVIOUS
<1>1. CASE UNCHANGED vars
  BY <1>1, ShippedStays DEF IInv, TypeOK, Roles, Untouched, BackupWhole, CopiedSoFar,
       InstalledWhole, RestoredSoFar, Present, vars
<1>2. CASE Next
  BY <1>2, PipelineKeeps, UserStartsKeeps, UserQuitsKeeps, AppExitsKeeps, PublishKeeps,
     UpdateBeginsKeeps, UserInstallsKeeps, UninstallBeginsKeeps, UpdaterKilledKeeps,
     CrashKeeps DEF Next
<1> QED
  BY <1>1, <1>2

LEMMA InitEstablishes == Init => IInv
BY Names DEF Init, IInv, TypeOK, Roles, Untouched, BackupWhole, CopiedSoFar,
   InstalledWhole, RestoredSoFar, Working, Apps, Stages, Answers, Mishaps, NoBackup

(* The invariant the theorems below rest on. *)
THEOREM Inductive == Spec => []IInv
BY InitEstablishes, StepKeeps, PTL DEF Spec

(* The updater, the installer and the uninstaller keep their state well typed. *)
THEOREM TypeCorrect == Spec => []TypeOK
<1>1. IInv => TypeOK
  BY DEF IInv
<1> QED
  BY <1>1, Inductive, PTL

(* UpdateEngine.apply restarts PAIOS only after every file was replaced. *)
THEOREM UpdatesAreComplete == Spec => []UpdatedIsNew
<1>1. IInv => UpdatedIsNew
  BY DEF IInv, InstalledWhole, UpdatedIsNew
<1> QED
  BY <1>1, Inductive, PTL

(* No run of the updater or of an installer leaves a launcher and libraries of two
   versions behind, unless it was killed or says that it failed; nor, until an
   update is rolled back, an updater or an uninstaller of another version, which
   _backup leaves out. *)
THEOREM ProgramIsWhole == Spec => []WholeUnlessUnfinished
<1>1. IInv => WholeUnlessUnfinished
  <2> SUFFICES ASSUME IInv, stage = "idle" PROVE WholeUnlessUnfinished
      BY DEF WholeUnlessUnfinished
  <2>1. ASSUME mishap = "none"
        PROVE  OfOneVersion(Program) /\ OfOneVersion(Shipped \ {VersionTxt})
    <3>1. \A i \in Shipped : disk[i] = disk[VersionTxt]
      BY <2>1 DEF IInv, Untouched
    <3>2. disk[VersionTxt] \in Versions \cup {Absent}
      BY Names DEF IInv, TypeOK
    <3> QED
      BY <3>1, <3>2, Names DEF OfOneVersion
  <2>2. ASSUME mishap = "rolledBack"
        PROVE  OfOneVersion(Program)
    BY <2>2 DEF IInv, Untouched, Present, OfOneVersion
  <2> QED
    BY <2>1, <2>2 DEF IInv, TypeOK, Mishaps, WholeUnlessUnfinished
<1> QED
  BY <1>1, Inductive, PTL

(* version.txt is the version of the program until a rollback. *)
THEOREM VersionIsTrue == Spec => []VersionTrueUnlessRolledBack
<1>1. IInv => VersionTrueUnlessRolledBack
  BY Names DEF IInv, Untouched, VersionTrueUnlessRolledBack
<1> QED
  BY <1>1, Inductive, PTL

(* A rollback that ends without an error has restored every file of the backup. *)
THEOREM RollbackIsComplete == Spec => RollbackRestores
<1> DEFINE Restored ==
      stage = "extracting" /\ stage' = "idle" /\ mishap' # "unfinished" =>
          \A f \in Program : backup[f] # Absent => disk'[f] = backup[f]
<1>1. IInv /\ [Next]_vars => [Restored]_vars
  <2> SUFFICES ASSUME IInv, Next, stage = "extracting", stage' = "idle", mishap' # "unfinished"
               PROVE  \A f \in Program : backup[f] # Absent => disk'[f] = backup[f]
      OBVIOUS
  <2>1. RolledBack
    BY DEF Next, Pipeline, UserStarts, UserQuits, AppExits, Publish, UpdateBegins,
           UserInstalls, UninstallBegins, UpdateAborts, Downloads, BacksUp, Copies,
           CopyFails, Installed, InstallFails, UpdaterKilled, Probes, Stamps, StampFails,
           Restarts, Clears, Extracts, RollbackFails, Crash, Uninstalls, Ends
  <2> QED
    BY <2>1 DEF RolledBack, IInv, RestoredSoFar
<1> QED
  BY <1>1, Inductive, PTL DEF Spec, RollbackRestores

=============================================================================
