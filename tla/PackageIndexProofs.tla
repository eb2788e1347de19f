------------------------- MODULE PackageIndexProofs -------------------------
(***************************************************************************)
(* Proofs about the shared package cache, for any number of processes,     *)
(* versions, runs, crashes and errors.  Whether a process holds a lock can *)
(* be told from where it is; from the locks it follows who may change the  *)
(* index and the directories of packages, and from that what a process     *)
(* can rely on at each place.                                              *)
(***************************************************************************)
EXTENDS PackageIndex, WellFoundedInduction, TLAPS

\* Most leaves are first-order reasoning.  Those with arithmetic, sequences or
\* records name SMT.
USE Zenon

HoldsExclusive(p) ==
  pc[p] \in {"initialize_locked", "download", "download_first", "remove", "install",
             "install_first", "publish_locked", "persist"}
Downloading(p) == pc[p] \in {"fetch_locked", "fetch", "rename"}

\* The places where the git package, the version and the lock file are settled.
Prepared(p) ==
  pc[p] \notin {"idle", "snapshot", "git_fetched", "git_rename", "publish", "publish_locked", "persist"}
Resolved(p) == Reading(p) /\ pc[p] # "resolve"
Recorded(p) == Resolved(p) /\ pc[p] \notin {"write_lock", "writing_lock"}

Typed ==
  /\ index \in [exists : BOOLEAN, files : SUBSET Versions] /\ remote \in SUBSET Versions
  /\ excl \in Procs \cup {NoProc} /\ shared \in SUBSET Procs
  /\ download \in [Versions -> Procs \cup {NoProc}]
  /\ target \in [Versions \cup {GitPkg} -> {"absent", "complete"}]
  /\ pc \in [Procs -> Labels] /\ got \in [Procs -> SUBSET Versions]
  /\ want \in [Procs -> Versions \cup {NoVersion}] /\ req \in [Procs -> Versions]
  /\ lock \in [Procs -> Versions \cup {NoVersion}]
  /\ installed \in SUBSET Versions /\ torn \in BOOLEAN

LocksRight ==
  /\ \A p \in Procs : excl = p <=> HoldsExclusive(p)
  /\ \A p \in Procs : p \in shared <=> Reading(p)
  /\ excl # NoProc => shared = {}
  /\ \A p \in Procs, v \in Versions : download[v] = p <=> Downloading(p) /\ want[p] = v

\* The index is what was installed, unless it is being replaced or was torn;
\* publish has read all of it when it writes it back.
Whole ==
  /\ index.files \subseteq installed
  /\ torn \/ (\E p \in Procs : pc[p] \in {"remove", "install"}) \/ installed \subseteq index.files
  /\ \A p \in Procs : pc[p] = "persist" => got[p] = index.files /\ want[p] \in Versions

\* "Packages are downloaded at most once" (ensure_downloaded_to): nobody fetches
\* one that is there, and the final rename finds no directory in its place.
DownloadedOnce == \A p \in Procs : pc[p] \in {"fetch", "rename"} => target[want[p]] = "absent"

Settled ==
  /\ \A p \in Procs : Prepared(p) => target[GitPkg] = "complete"
  /\ \A p \in Procs : Resolved(p) => want[p] \in Versions /\ want[p] >= req[p]
  /\ \A p \in Procs : Recorded(p) => lock[p] = want[p]
  /\ \A p \in Procs : pc[p] = "done" => target[want[p]] = "complete"

IInv == Typed /\ LocksRight /\ Whole /\ Settled /\ DownloadedOnce

-----------------------------------------------------------------------------
(* The initial states.                                                     *)

\* A non-empty set of versions has a smallest one.
LEMMA MinIn == ASSUME NEW S, S \subseteq Nat, S # {} PROVE Min(S) \in S
<1> DEFINE R == OpToRel(<, Nat)
<1>1. IsWellFoundedOn(R, Nat)
  BY NatLessThanWellFounded, Zenon
<1>2. PICK x \in S : \A y \in S : ~(<<y, x>> \in R)
  BY <1>1, WFMin, Zenon
<1>3. ASSUME NEW y \in S PROVE ~(y < x)
  <2>1. y \in Nat /\ x \in Nat
    OBVIOUS
  <2> QED
    BY <1>2, <2>1, Zenon DEF OpToRel
<1>4. \A y \in S : x <= y
  BY SMTT(30), <1>3
<1> QED
  BY <1>4 DEF Min

\* The invariant holds of a cache and of projects as they are found.
LEMMA InitInv == Init => IInv
<1> SUFFICES ASSUME Init PROVE IInv
  OBVIOUS
<1> USE VersionsAssumption
<1>1. PICK m : m = Min(Versions)
  OBVIOUS
<1>2. m \in Versions
  BY <1>1, MinIn
<1>3. /\ index \in {[exists |-> FALSE, files |-> {}], [exists |-> TRUE, files |-> {m}]}
      /\ remote = {m} /\ req = [p \in Procs |-> m] /\ lock \in [Procs -> {NoVersion, m}]
  BY <1>1 DEF Init
<1>4. Typed
  <2>1. index \in [exists : BOOLEAN, files : SUBSET Versions]
    <3>1. CASE index = [exists |-> FALSE, files |-> {}]
      BY <3>1
    <3>2. CASE index = [exists |-> TRUE, files |-> {m}]
      BY <1>2, <3>2
    <3> QED
      BY <1>3, <3>1, <3>2
  <2>2. req \in [Procs -> Versions] /\ lock \in [Procs -> Versions \cup {NoVersion}]
    BY <1>2, <1>3
  <2>3. pc \in [Procs -> Labels]
    BY DEF Init, Labels
  <2> QED
    BY <1>2, <1>3, <2>1, <2>2, <2>3 DEF Init, Typed
<1>5. LocksRight
  BY DEF Init, LocksRight, HoldsExclusive, Downloading, Reading
<1>6. Whole
  BY DEF Init, Whole
<1>7. Settled /\ DownloadedOnce
  BY DEF Init, Settled, DownloadedOnce, Prepared, Resolved, Recorded, Reading
<1> QED
  BY <1>4, <1>5, <1>6, <1>7 DEF IInv

-----------------------------------------------------------------------------
(* Starting a command and the git package.                                 *)

LEMMA StartStep == ASSUME NEW p \in Procs, IInv, Start(p) PROVE IInv'
<1> USE VersionsAssumption DEF IInv, Start, At, Goto, locks, bounds, ghosts, project
<1>1. Typed'
  BY SMTT(30) DEF Typed, Labels
<1>2. LocksRight'
  BY SMTT(30) DEF Typed, LocksRight, HoldsExclusive, Downloading, Reading
<1>3. Whole'
  BY SMTT(30) DEF Typed, LocksRight, Whole, HoldsExclusive
<1>4. Settled'
  BY DEF Typed, Settled, Prepared, Resolved, Recorded, Reading
<1>5. DownloadedOnce'
  BY SMTT(30) DEF Typed, LocksRight, Settled, DownloadedOnce, Downloading, Resolved, Reading
<1> QED
  BY <1>1, <1>2, <1>3, <1>4, <1>5

LEMMA PublishStartStep == ASSUME NEW p \in Procs, IInv, PublishStart(p) PROVE IInv'
<1> USE VersionsAssumption DEF IInv, PublishStart, At, Goto, locks, bounds, ghosts, project
<1>1. Typed'
  BY DEF Typed, Labels
<1>2. LocksRight'
  BY SMTT(30) DEF Typed, LocksRight, HoldsExclusive, Downloading, Reading
<1>3. Whole'
  BY SMTT(30) DEF Typed, LocksRight, Whole, HoldsExclusive
<1>4. Settled'
  BY DEF Typed, Settled, Prepared, Resolved, Recorded, Reading
<1>5. DownloadedOnce'
  BY SMTT(30) DEF Typed, LocksRight, Settled, DownloadedOnce, Downloading, Resolved, Reading
<1> QED
  BY <1>1, <1>2, <1>3, <1>4, <1>5

LEMMA SnapshotLockedStep == ASSUME NEW p \in Procs, IInv, SnapshotLocked(p) PROVE IInv'
<1> USE VersionsAssumption DEF IInv, SnapshotLocked, At, Goto, End, Release, UpToDate, locks,
         bounds, ghosts, project
<1>1. Typed'
  BY SMTT(30) DEF Typed, Labels
<1>2. LocksRight'
  BY SMTT(30) DEF Typed, LocksRight, HoldsExclusive, Downloading, Reading
<1>3. Whole'
  BY SMTT(30) DEF Typed, LocksRight, Whole, HoldsExclusive
<1>4. Settled'
  BY SMTT(30) DEF Typed, Settled, Prepared, Resolved, Recorded, Reading
<1>5. DownloadedOnce'
  BY SMTT(30) DEF Typed, LocksRight, Settled, DownloadedOnce, Downloading, Resolved, Reading
<1> QED
  BY <1>1, <1>2, <1>3, <1>4, <1>5

LEMMA SnapshotFetchStep == ASSUME NEW p \in Procs, IInv, SnapshotFetch(p) PROVE IInv'
<1> USE VersionsAssumption DEF IInv, SnapshotFetch, At, Goto, End, Release, Errs, locks, bounds,
         ghosts, project
<1>1. Typed'
  BY SMTT(30) DEF Typed, Labels
<1>2. LocksRight'
  BY SMTT(30) DEF Typed, LocksRight, HoldsExclusive, Downloading, Reading
<1>3. Whole'
  BY SMTT(30) DEF Typed, LocksRight, Whole, HoldsExclusive
<1>4. Settled'
  BY SMTT(30) DEF Typed, Settled, Prepared, Resolved, Recorded, Reading
<1>5. DownloadedOnce'
  BY SMTT(30) DEF Typed, LocksRight, Settled, DownloadedOnce, Downloading, Resolved, Reading
<1> QED
  BY <1>1, <1>2, <1>3, <1>4, <1>5

LEMMA SnapshotCheckStep == ASSUME NEW p \in Procs, IInv, SnapshotCheck(p) PROVE IInv'
<1> USE VersionsAssumption DEF IInv, SnapshotCheck, At, Goto, locks, bounds, ghosts, project
<1>1. Typed'
  BY DEF Typed, Labels
<1>2. LocksRight'
  BY SMTT(30) DEF Typed, LocksRight, HoldsExclusive, Downloading, Reading
<1>3. Whole'
  BY SMTT(30) DEF Typed, LocksRight, Whole, HoldsExclusive
<1>4. Settled'
  BY DEF Typed, Settled, Prepared, Resolved, Recorded, Reading
<1>5. DownloadedOnce'
  BY SMTT(30) DEF Typed, LocksRight, Settled, DownloadedOnce, Downloading, Resolved, Reading
<1> QED
  BY <1>1, <1>2, <1>3, <1>4, <1>5

LEMMA SnapshotTyped == ASSUME NEW p \in Procs, IInv, SnapshotRename(p) PROVE Typed'
<1> USE VersionsAssumption DEF IInv, SnapshotRename, At
<1>1. target' \in [Versions \cup {GitPkg} -> {"absent", "complete"}]
  <2>1. target' = target \/ target' = [target EXCEPT ![GitPkg] = "complete"]
    OBVIOUS
  <2>2. target \in [Versions \cup {GitPkg} -> {"absent", "complete"}]
    BY DEF Typed
  <2>3. [target EXCEPT ![GitPkg] = "complete"] \in [Versions \cup {GitPkg} -> {"absent", "complete"}]
    BY ONLY <2>2
  <2> QED BY <2>1, <2>2, <2>3
<1>2. pc' \in [Procs -> Labels]
  BY SMTT(30) DEF Typed, Labels, Goto, End
<1>3. excl' \in Procs \cup {NoProc} /\ shared' \in SUBSET Procs
      /\ download' \in [Versions -> Procs \cup {NoProc}]
  BY SMTT(30) DEF Typed, End, Release, locks
<1> QED
  BY <1>1, <1>2, <1>3 DEF Typed, project, bounds, ghosts

\* The git package is not one of the index packages.
LEMMA SnapshotOnce == ASSUME NEW p \in Procs, IInv, SnapshotRename(p) PROVE DownloadedOnce'
<1> USE VersionsAssumption DEF IInv, SnapshotRename, At, Goto, End
<1>1. \A q \in Procs : pc[q] \in {"fetch", "rename"} => want[q] \in Versions
  BY DEF Settled, Resolved, Reading
<1>2. \A q \in Procs : pc'[q] \in {"fetch", "rename"} => pc[q] \in {"fetch", "rename"}
  BY DEF Typed
<1>3. want' = want /\ \A v \in Versions : target'[v] = target[v]
  BY DEF Typed, project
<1> QED
  BY <1>1, <1>2, <1>3 DEF DownloadedOnce

LEMMA SnapshotRenameStep == ASSUME NEW p \in Procs, IInv, SnapshotRename(p) PROVE IInv'
<1> USE VersionsAssumption DEF IInv, SnapshotRename, At, Goto, End, Release, locks, bounds, ghosts,
         project
<1>1. Typed'
  BY SnapshotTyped
<1>2. LocksRight'
  BY SMTT(30) DEF Typed, LocksRight, HoldsExclusive, Downloading, Reading
<1>3. Whole'
  BY SMTT(30) DEF Typed, LocksRight, Whole, HoldsExclusive
<1>4. Settled'
  BY SMTT(30) DEF Typed, Settled, Prepared, Resolved, Recorded, Reading
<1>5. DownloadedOnce'
  BY SnapshotOnce
<1> QED
  BY <1>1, <1>2, <1>3, <1>4, <1>5

-----------------------------------------------------------------------------
(* Opening the index.                                                      *)

LEMMA InitializeCheckStep == ASSUME NEW p \in Procs, IInv, InitializeCheck(p) PROVE IInv'
<1> USE VersionsAssumption DEF IInv, InitializeCheck, At, Goto, locks, bounds, ghosts, project
<1>1. Typed'
  BY DEF Typed, Labels
<1>2. LocksRight'
  BY SMTT(30) DEF Typed, LocksRight, HoldsExclusive, Downloading, Reading
<1>3. Whole'
  BY SMTT(30) DEF Typed, LocksRight, Whole, HoldsExclusive
<1>4. Settled'
  BY DEF Typed, Settled, Prepared, Resolved, Recorded, Reading
<1>5. DownloadedOnce'
  BY SMTT(30) DEF Typed, LocksRight, Settled, DownloadedOnce, Downloading, Resolved, Reading
<1> QED
  BY <1>1, <1>2, <1>3, <1>4, <1>5

LEMMA InitializeLockStep == ASSUME NEW p \in Procs, IInv, InitializeLock(p) PROVE IInv'
<1> USE VersionsAssumption DEF IInv, InitializeLock, At, Goto, Exclusive, locks, bounds, ghosts,
         project
<1>1. Typed'
  BY DEF Typed, Labels
<1>2. LocksRight'
  BY SMTT(30) DEF Typed, LocksRight, HoldsExclusive, Downloading, Reading
<1>3. Whole'
  BY SMTT(30) DEF Typed, LocksRight, Whole, HoldsExclusive
<1>4. Settled'
  BY DEF Typed, Settled, Prepared, Resolved, Recorded, Reading
<1>5. DownloadedOnce'
  BY SMTT(30) DEF Typed, LocksRight, Settled, DownloadedOnce, Downloading, Resolved, Reading
<1> QED
  BY <1>1, <1>2, <1>3, <1>4, <1>5

LEMMA InitializeRecheckStep == ASSUME NEW p \in Procs, IInv, InitializeRecheck(p) PROVE IInv'
<1> USE VersionsAssumption DEF IInv, InitializeRecheck, At, Goto, Release, locks, bounds, ghosts,
         project
<1>1. Typed'
  BY SMTT(30) DEF Typed, Labels
<1>2. LocksRight'
  BY SMTT(30) DEF Typed, LocksRight, HoldsExclusive, Downloading, Reading
<1>3. Whole'
  BY SMTT(30) DEF Typed, LocksRight, Whole, HoldsExclusive
<1>4. Settled'
  BY SMTT(30) DEF Typed, Settled, Prepared, Resolved, Recorded, Reading
<1>5. DownloadedOnce'
  BY SMTT(30) DEF Typed, LocksRight, Settled, DownloadedOnce, Downloading, Resolved, Reading
<1> QED
  BY <1>1, <1>2, <1>3, <1>4, <1>5

LEMMA RefreshLockStep == ASSUME NEW p \in Procs, IInv, RefreshLock(p) PROVE IInv'
<1> USE VersionsAssumption DEF IInv, RefreshLock, At, Goto, Exclusive, locks, bounds, ghosts,
         project
<1>1. Typed'
  BY DEF Typed, Labels
<1>2. LocksRight'
  BY SMTT(30) DEF Typed, LocksRight, HoldsExclusive, Downloading, Reading
<1>3. Whole'
  BY SMTT(30) DEF Typed, LocksRight, Whole, HoldsExclusive
<1>4. Settled'
  BY DEF Typed, Settled, Prepared, Resolved, Recorded, Reading
<1>5. DownloadedOnce'
  BY SMTT(30) DEF Typed, LocksRight, Settled, DownloadedOnce, Downloading, Resolved, Reading
<1> QED
  BY <1>1, <1>2, <1>3, <1>4, <1>5

LEMMA FetchTyped == ASSUME NEW p \in Procs, IInv, DownloadFetch(p) PROVE Typed'
<1> USE VersionsAssumption DEF IInv, DownloadFetch, At
<1>1. got' \in [Procs -> SUBSET Versions]
  BY DEF Typed
<1>2. pc' \in [Procs -> Labels]
  BY SMTT(30) DEF Typed, Labels, Goto
<1>3. excl' \in Procs \cup {NoProc} /\ shared' \in SUBSET Procs
      /\ download' \in [Versions -> Procs \cup {NoProc}]
  BY DEF Typed, Release, locks
<1> QED
  BY <1>1, <1>2, <1>3 DEF Typed, project, ghosts

LEMMA DownloadFetchStep == ASSUME NEW p \in Procs, IInv, DownloadFetch(p) PROVE IInv'
<1> USE VersionsAssumption DEF IInv, DownloadFetch, At, Goto, Release, Errs, locks, bounds, ghosts,
         project
<1>1. Typed'
  BY FetchTyped
<1>2. LocksRight'
  BY SMTT(30) DEF Typed, LocksRight, HoldsExclusive, Downloading, Reading
<1>3. Whole'
  BY SMTT(30) DEF Typed, LocksRight, Whole, HoldsExclusive
<1>4. Settled'
  BY SMTT(30) DEF Typed, Settled, Prepared, Resolved, Recorded, Reading
<1>5. DownloadedOnce'
  BY SMTT(30) DEF Typed, LocksRight, Settled, DownloadedOnce, Downloading, Resolved, Reading
<1> QED
  BY <1>1, <1>2, <1>3, <1>4, <1>5

LEMMA RemoveTyped == ASSUME NEW p \in Procs, IInv, DownloadRemove(p) PROVE Typed'
<1> USE VersionsAssumption DEF IInv, DownloadRemove, At
<1>1. index' \in [exists : BOOLEAN, files : SUBSET Versions]
  <2>1. ASSUME NEW v PROVE [index EXCEPT !.files = @ \ {v}] \in [exists : BOOLEAN, files : SUBSET Versions]
    BY DEF Typed
  <2>2. [exists |-> FALSE, files |-> {}] \in [exists : BOOLEAN, files : SUBSET Versions]
    OBVIOUS
  <2>3. \/ index' = [exists |-> FALSE, files |-> {}]
        \/ \E v \in index.files : index' = [index EXCEPT !.files = @ \ {v}]
        \/ index' = index
    OBVIOUS
  <2> QED
    BY <2>1, <2>2, <2>3 DEF Typed
<1>2. pc' \in [Procs -> Labels]
  BY SMTT(30) DEF Typed, Labels, Goto
<1>3. excl' \in Procs \cup {NoProc} /\ shared' \in SUBSET Procs
      /\ download' \in [Versions -> Procs \cup {NoProc}]
  BY DEF Typed, Release, locks
<1>4. torn' \in BOOLEAN
  BY DEF Typed
<1> QED
  BY <1>1, <1>2, <1>3, <1>4 DEF Typed, project

LEMMA DownloadRemoveStep == ASSUME NEW p \in Procs, IInv, DownloadRemove(p) PROVE IInv'
<1> USE VersionsAssumption DEF IInv, DownloadRemove, At, Goto, Release, Errs, locks, bounds, ghosts,
         project
<1>1. Typed'
  BY RemoveTyped
<1>2. LocksRight'
  BY SMTT(30) DEF Typed, LocksRight, HoldsExclusive, Downloading, Reading
<1>3. Whole'
  BY SMTT(30) DEF Typed, LocksRight, Whole, HoldsExclusive
<1>4. Settled'
  BY SMTT(30) DEF Typed, Settled, Prepared, Resolved, Recorded, Reading
<1>5. DownloadedOnce'
  BY SMTT(30) DEF Typed, LocksRight, Settled, DownloadedOnce, Downloading, Resolved, Reading
<1> QED
  BY <1>1, <1>2, <1>3, <1>4, <1>5

LEMMA InstallTyped == ASSUME NEW p \in Procs, IInv, DownloadInstall(p) PROVE Typed'
<1> USE VersionsAssumption DEF IInv, DownloadInstall
<1>1. CASE Installs(p) /\ Release(p) /\ UNCHANGED bounds
  <2>1. index' \in [exists : BOOLEAN, files : SUBSET Versions] /\ installed' \in SUBSET Versions
    BY <1>1 DEF Typed, Installs
  <2> QED
    BY <1>1, <2>1 DEF Typed, Installs, Labels, Goto, Release, project
<1>2. CASE InstallFails(p)
  <2>1. torn' \in BOOLEAN
    BY <1>2, Zenon DEF InstallFails
  <2> QED
    BY <1>2, <2>1 DEF Typed, InstallFails, Labels, Goto, Release, project
<1> QED
  BY <1>1, <1>2

\* The index that is moved into place is the one installed.
LEMMA InstallWhole == ASSUME NEW p \in Procs, IInv, DownloadInstall(p) PROVE Whole'
<1> USE VersionsAssumption DEF IInv, DownloadInstall
<1>1. \A q \in Procs : q # p => ~HoldsExclusive(q)
  BY DEF LocksRight, HoldsExclusive
<1>2. CASE Installs(p) /\ Release(p) /\ UNCHANGED bounds
  BY <1>1, <1>2 DEF Whole, Typed, Installs, Goto, HoldsExclusive
<1>3. CASE InstallFails(p)
  <2>1. torn' = (torn \/ pc[p] = "install")
    BY <1>3 DEF InstallFails, At
  <2>2. index' = index /\ installed' = installed /\ got' = got /\ want' = want
    BY <1>3 DEF InstallFails, project
  <2>3. pc' = [pc EXCEPT ![p] = IF pc[p] = "install" THEN "shared" ELSE "idle"]
    BY <1>3 DEF InstallFails, Goto, At
  <2> QED
    BY <2>1, <2>2, <2>3 DEF Whole, Typed
<1> QED
  BY <1>2, <1>3

LEMMA DownloadInstallStep == ASSUME NEW p \in Procs, IInv, DownloadInstall(p) PROVE IInv'
<1> USE VersionsAssumption DEF IInv, DownloadInstall, Release, Installs, Goto, InstallFails, At,
         Errs, locks, bounds, ghosts, project
<1>1. Typed'
  BY InstallTyped
<1>2. LocksRight'
  BY SMTT(30) DEF Typed, LocksRight, HoldsExclusive, Downloading, Reading
<1>3. Whole'
  BY InstallWhole
<1>4. Settled'
  BY SMTT(30) DEF Typed, Settled, Prepared, Resolved, Recorded, Reading
<1>5. DownloadedOnce'
  BY SMTT(30) DEF Typed, LocksRight, Settled, DownloadedOnce, Downloading, Resolved, Reading
<1> QED
  BY <1>1, <1>2, <1>3, <1>4, <1>5

LEMMA SharedStep == ASSUME NEW p \in Procs, IInv, Shared(p) PROVE IInv'
<1> USE VersionsAssumption DEF IInv, Shared, At, Goto, locks, bounds, ghosts, project
<1>1. Typed'
  BY DEF Typed, Labels
<1>2. LocksRight'
  BY SMTT(30) DEF Typed, LocksRight, HoldsExclusive, Downloading, Reading
<1>3. Whole'
  BY SMTT(30) DEF Typed, LocksRight, Whole, HoldsExclusive
<1>4. Settled'
  BY DEF Typed, Settled, Prepared, Resolved, Recorded, Reading
<1>5. DownloadedOnce'
  BY SMTT(30) DEF Typed, LocksRight, Settled, DownloadedOnce, Downloading, Resolved, Reading
<1> QED
  BY <1>1, <1>2, <1>3, <1>4, <1>5

-----------------------------------------------------------------------------
(* Resolution, the lock file and the download.                             *)

\* choose_version gives a version that the manifest accepts, or none.
LEMMA ChooseVersionIn ==
  ASSUME NEW p \in Procs, IInv, ChooseVersion(p) # NoVersion
  PROVE  ChooseVersion(p) \in Versions /\ ChooseVersion(p) >= req[p]
<1> USE VersionsAssumption DEF IInv
<1> DEFINE candidates == {v \in index.files : v >= req[p]}
<1>1. CASE lock[p] # NoVersion /\ UpToDate(p)
  BY <1>1 DEF ChooseVersion, UpToDate, Typed
<1>2. CASE ~(lock[p] # NoVersion /\ UpToDate(p))
  <2>1. ChooseVersion(p) = IF candidates = {} THEN NoVersion ELSE Min(candidates)
    BY <1>2 DEF ChooseVersion
  <2>2. candidates \subseteq Nat /\ candidates # {}
    BY <2>1 DEF Typed
  <2>3. Min(candidates) \in candidates
    BY <2>2, MinIn
  <2> QED
    BY <2>1, <2>2, <2>3 DEF Typed
<1> QED
  BY <1>1, <1>2

LEMMA ResolveTyped == ASSUME NEW p \in Procs, IInv, Resolve(p) PROVE Typed'
<1> USE VersionsAssumption DEF IInv, Resolve, At
<1>1. want' \in [Procs -> Versions \cup {NoVersion}]
  BY SMTT(30), ChooseVersionIn DEF Typed
<1>2. pc' \in [Procs -> Labels]
  BY SMTT(30) DEF Typed, Labels, Goto, End
<1>3. excl' \in Procs \cup {NoProc} /\ shared' \in SUBSET Procs
      /\ download' \in [Versions -> Procs \cup {NoProc}]
  BY SMTT(30) DEF Typed, End, Release, locks
<1> QED
  BY <1>1, <1>2, <1>3 DEF Typed, bounds, ghosts

\* The version resolved is one that the manifest accepts.
LEMMA ResolveSettled == ASSUME NEW p \in Procs, IInv, Resolve(p) PROVE Settled'
<1> USE VersionsAssumption DEF IInv
<1>1. CASE ChooseVersion(p) = NoVersion
  BY SMTT(30), <1>1 DEF Resolve, At, Goto, End, Typed, Settled, Prepared, Resolved, Recorded, Reading
<1>2. CASE ChooseVersion(p) # NoVersion
  <2>1. PICK w : w = ChooseVersion(p)
    OBVIOUS
  <2>2. w \in Versions /\ w >= req[p]
    BY <1>2, <2>1, ChooseVersionIn
  <2>3. /\ pc[p] = "resolve" /\ want' = [want EXCEPT ![p] = w]
        /\ pc' = [pc EXCEPT ![p] = IF w = lock[p] THEN "ensure" ELSE "write_lock"]
        /\ target' = target /\ req' = req /\ lock' = lock
    BY <1>2, <2>1 DEF Resolve, At, Goto
  <2> QED
    BY SMTT(30), <2>2, <2>3 DEF Typed, Settled, Prepared, Resolved, Recorded, Reading
<1> QED
  BY <1>1, <1>2

LEMMA ResolveStep == ASSUME NEW p \in Procs, IInv, Resolve(p) PROVE IInv'
<1> USE VersionsAssumption DEF IInv, Resolve, At, Goto, End, Release, ChooseVersion, UpToDate,
         locks, bounds, ghosts, project
<1>1. Typed'
  BY ResolveTyped
<1>2. LocksRight'
  BY SMTT(30) DEF Typed, LocksRight, HoldsExclusive, Downloading, Reading
<1>3. Whole'
  BY SMTT(30) DEF Typed, LocksRight, Whole, HoldsExclusive
<1>4. Settled'
  BY ResolveSettled
<1>5. DownloadedOnce'
  BY SMTT(30) DEF Typed, LocksRight, Settled, DownloadedOnce, Downloading, Resolved, Reading
<1> QED
  BY <1>1, <1>2, <1>3, <1>4, <1>5

LEMMA TruncateLockStep == ASSUME NEW p \in Procs, IInv, TruncateLock(p) PROVE IInv'
<1> USE VersionsAssumption DEF IInv, TruncateLock, At, Goto, locks, bounds, ghosts, project
<1>1. Typed'
  BY DEF Typed, Labels
<1>2. LocksRight'
  BY SMTT(30) DEF Typed, LocksRight, HoldsExclusive, Downloading, Reading
<1>3. Whole'
  BY SMTT(30) DEF Typed, LocksRight, Whole, HoldsExclusive
<1>4. Settled'
  BY DEF Typed, Settled, Prepared, Resolved, Recorded, Reading
<1>5. DownloadedOnce'
  BY SMTT(30) DEF Typed, LocksRight, Settled, DownloadedOnce, Downloading, Resolved, Reading
<1> QED
  BY <1>1, <1>2, <1>3, <1>4, <1>5

LEMMA WriteLockStep == ASSUME NEW p \in Procs, IInv, WriteLock(p) PROVE IInv'
<1> USE VersionsAssumption DEF IInv, WriteLock, At, Goto, locks, bounds, ghosts, project
<1>1. Typed'
  BY DEF Typed, Labels
<1>2. LocksRight'
  BY SMTT(30) DEF Typed, LocksRight, HoldsExclusive, Downloading, Reading
<1>3. Whole'
  BY SMTT(30) DEF Typed, LocksRight, Whole, HoldsExclusive
<1>4. Settled'
  BY DEF Typed, Settled, Prepared, Resolved, Recorded, Reading
<1>5. DownloadedOnce'
  BY SMTT(30) DEF Typed, LocksRight, Settled, DownloadedOnce, Downloading, Resolved, Reading
<1> QED
  BY <1>1, <1>2, <1>3, <1>4, <1>5

LEMMA EnsureDownloadedStep == ASSUME NEW p \in Procs, IInv, EnsureDownloaded(p) PROVE IInv'
<1> USE VersionsAssumption DEF IInv, EnsureDownloaded, At, Goto, End, Release, locks, bounds,
         ghosts, project
<1>1. Typed'
  BY SMTT(30) DEF Typed, Labels
<1>2. LocksRight'
  BY SMTT(30) DEF Typed, LocksRight, HoldsExclusive, Downloading, Reading
<1>3. Whole'
  BY SMTT(30) DEF Typed, LocksRight, Whole, HoldsExclusive
<1>4. Settled'
  BY SMTT(30) DEF Typed, Settled, Prepared, Resolved, Recorded, Reading
<1>5. DownloadedOnce'
  BY SMTT(30) DEF Typed, LocksRight, Settled, DownloadedOnce, Downloading, Resolved, Reading
<1> QED
  BY <1>1, <1>2, <1>3, <1>4, <1>5

LEMMA EnsureLockStep == ASSUME NEW p \in Procs, IInv, EnsureLock(p) PROVE IInv'
<1> USE VersionsAssumption DEF IInv, EnsureLock, At, Goto, locks, bounds, ghosts, project
<1>1. Typed'
  BY DEF Typed, Labels
<1>2. LocksRight'
  BY SMTT(30) DEF Typed, LocksRight, HoldsExclusive, Downloading, Reading
<1>3. Whole'
  BY SMTT(30) DEF Typed, LocksRight, Whole, HoldsExclusive
<1>4. Settled'
  BY DEF Typed, Settled, Prepared, Resolved, Recorded, Reading
<1>5. DownloadedOnce'
  BY SMTT(30) DEF Typed, LocksRight, Settled, DownloadedOnce, Downloading, Resolved, Reading
<1> QED
  BY <1>1, <1>2, <1>3, <1>4, <1>5

LEMMA EnsureRecheckStep == ASSUME NEW p \in Procs, IInv, EnsureRecheck(p) PROVE IInv'
<1> USE VersionsAssumption DEF IInv, EnsureRecheck, At, Goto, DropDownload, locks, bounds, ghosts,
         project
<1>1. Typed'
  BY SMTT(30) DEF Typed, Labels
<1>2. LocksRight'
  BY SMTT(30) DEF Typed, LocksRight, HoldsExclusive, Downloading, Reading
<1>3. Whole'
  BY SMTT(30) DEF Typed, LocksRight, Whole, HoldsExclusive
<1>4. Settled'
  BY SMTT(30) DEF Typed, Settled, Prepared, Resolved, Recorded, Reading
<1>5. DownloadedOnce'
  BY SMTT(30) DEF Typed, LocksRight, Settled, DownloadedOnce, Downloading, Resolved, Reading
<1> QED
  BY <1>1, <1>2, <1>3, <1>4, <1>5

LEMMA EnsureFetchStep == ASSUME NEW p \in Procs, IInv, EnsureFetch(p) PROVE IInv'
<1> USE VersionsAssumption DEF IInv, EnsureFetch, At, Goto, End, Release, Errs, locks, bounds,
         ghosts, project
<1>1. Typed'
  BY SMTT(30) DEF Typed, Labels
<1>2. LocksRight'
  BY SMTT(30) DEF Typed, LocksRight, HoldsExclusive, Downloading, Reading
<1>3. Whole'
  BY SMTT(30) DEF Typed, LocksRight, Whole, HoldsExclusive
<1>4. Settled'
  BY SMTT(30) DEF Typed, Settled, Prepared, Resolved, Recorded, Reading
<1>5. DownloadedOnce'
  BY SMTT(30) DEF Typed, LocksRight, Settled, DownloadedOnce, Downloading, Resolved, Reading
<1> QED
  BY <1>1, <1>2, <1>3, <1>4, <1>5

\* Two processes that download the same version would hold the same lock.
LEMMA RenameOnce == ASSUME NEW p \in Procs, IInv, EnsureRename(p) PROVE DownloadedOnce'
<1> USE VersionsAssumption DEF IInv, EnsureRename, At, Goto
<1>1. \A q \in Procs : pc[q] \in {"fetch", "rename"} => want[q] \in Versions /\ download[want[q]] = q
  BY DEF Settled, Resolved, Reading, LocksRight, Downloading
<1>2. \A q \in Procs : pc[q] \in {"fetch", "rename"} /\ q # p => want[q] # want[p]
  BY <1>1
<1> QED
  BY <1>1, <1>2 DEF Typed, DownloadedOnce, project

LEMMA EnsureRenameStep == ASSUME NEW p \in Procs, IInv, EnsureRename(p) PROVE IInv'
<1> USE VersionsAssumption DEF IInv, EnsureRename, At, Goto, DropDownload, locks, bounds, ghosts,
         project
<1>1. Typed'
  BY DEF Typed, Labels
<1>2. LocksRight'
  BY SMTT(30) DEF Typed, LocksRight, HoldsExclusive, Downloading, Reading
<1>3. Whole'
  BY SMTT(30) DEF Typed, LocksRight, Whole, HoldsExclusive
<1>4. Settled'
  BY DEF Typed, Settled, Prepared, Resolved, Recorded, Reading
<1>5. DownloadedOnce'
  BY RenameOnce
<1> QED
  BY <1>1, <1>2, <1>3, <1>4, <1>5

LEMMA DoneStep == ASSUME NEW p \in Procs, IInv, Done(p) PROVE IInv'
<1> USE VersionsAssumption DEF IInv, Done, At, End, Goto, Release, locks, bounds, ghosts, project
<1>1. Typed'
  BY DEF Typed, Labels
<1>2. LocksRight'
  BY SMTT(30) DEF Typed, LocksRight, HoldsExclusive, Downloading, Reading
<1>3. Whole'
  BY SMTT(30) DEF Typed, LocksRight, Whole, HoldsExclusive
<1>4. Settled'
  BY DEF Typed, Settled, Prepared, Resolved, Recorded, Reading
<1>5. DownloadedOnce'
  BY SMTT(30) DEF Typed, LocksRight, Settled, DownloadedOnce, Downloading, Resolved, Reading
<1> QED
  BY <1>1, <1>2, <1>3, <1>4, <1>5

-----------------------------------------------------------------------------
(* publish, and crashes.                                                   *)

LEMMA PublishLockStep == ASSUME NEW p \in Procs, IInv, PublishLock(p) PROVE IInv'
<1> USE VersionsAssumption DEF IInv, PublishLock, At, Goto, Exclusive, locks, bounds, ghosts,
         project
<1>1. Typed'
  BY DEF Typed, Labels
<1>2. LocksRight'
  BY SMTT(30) DEF Typed, LocksRight, HoldsExclusive, Downloading, Reading
<1>3. Whole'
  BY SMTT(30) DEF Typed, LocksRight, Whole, HoldsExclusive
<1>4. Settled'
  BY DEF Typed, Settled, Prepared, Resolved, Recorded, Reading
<1>5. DownloadedOnce'
  BY SMTT(30) DEF Typed, LocksRight, Settled, DownloadedOnce, Downloading, Resolved, Reading
<1> QED
  BY <1>1, <1>2, <1>3, <1>4, <1>5

LEMMA SaveLoadStep == ASSUME NEW p \in Procs, IInv, SaveLoad(p) PROVE IInv'
<1> USE VersionsAssumption DEF IInv, SaveLoad, At, Goto, End, Release, locks, bounds, ghosts,
         project
<1>1. Typed'
  BY SMTT(30) DEF Typed, Labels
<1>2. LocksRight'
  BY SMTT(30) DEF Typed, LocksRight, HoldsExclusive, Downloading, Reading
<1>3. Whole'
  BY SMTT(30) DEF Typed, LocksRight, Whole, HoldsExclusive
<1>4. Settled'
  BY SMTT(30) DEF Typed, Settled, Prepared, Resolved, Recorded, Reading
<1>5. DownloadedOnce'
  BY SMTT(30) DEF Typed, LocksRight, Settled, DownloadedOnce, Downloading, Resolved, Reading
<1> QED
  BY <1>1, <1>2, <1>3, <1>4, <1>5

\* save writes versions.
LEMMA SavePersistTyped == ASSUME NEW p \in Procs, IInv, SavePersist(p) PROVE Typed'
<1> USE VersionsAssumption DEF IInv, SavePersist, At
<1>1. want[p] \in Versions /\ got[p] \in SUBSET Versions
  BY DEF Whole, Typed
<1>2. index' \in [exists : BOOLEAN, files : SUBSET Versions]
  BY <1>1 DEF Typed
<1> QED
  BY <1>1, <1>2 DEF Typed, Labels, End, Goto, Release

LEMMA SavePersistStep == ASSUME NEW p \in Procs, IInv, SavePersist(p) PROVE IInv'
<1> USE VersionsAssumption DEF IInv, SavePersist, At, End, Goto, Release, locks, bounds, ghosts,
         project
<1>1. Typed'
  BY SavePersistTyped
<1>2. LocksRight'
  BY SMTT(30) DEF Typed, LocksRight, HoldsExclusive, Downloading, Reading
<1>3. Whole'
  BY SMTT(30) DEF Typed, LocksRight, Whole, HoldsExclusive
<1>4. Settled'
  BY DEF Typed, Settled, Prepared, Resolved, Recorded, Reading
<1>5. DownloadedOnce'
  BY SMTT(30) DEF Typed, LocksRight, Settled, DownloadedOnce, Downloading, Resolved, Reading
<1> QED
  BY <1>1, <1>2, <1>3, <1>4, <1>5

\* A process that dies while it replaces the index leaves it torn.
LEMMA CrashWhole == ASSUME NEW p \in Procs, IInv, Crash(p) PROVE Whole'
<1> USE VersionsAssumption DEF IInv, Typed, Whole, Crash, End, Goto
<1>1. index' = index /\ installed' = installed /\ got' = [got EXCEPT ![p] = {}]
  OBVIOUS
<1>2. pc' = [pc EXCEPT ![p] = "idle"] /\ torn' = (torn \/ pc[p] \in {"remove", "install"})
  OBVIOUS
<1>3. torn' \/ (\E q \in Procs : pc'[q] \in {"remove", "install"}) \/ installed' \subseteq index'.files
  BY <1>1, <1>2
<1>4. \A q \in Procs : pc'[q] = "persist" => got'[q] = index'.files /\ want'[q] \in Versions
  BY <1>1, <1>2
<1> QED
  BY <1>1, <1>3, <1>4

LEMMA CrashStep == ASSUME NEW p \in Procs, IInv, Crash(p) PROVE IInv'
<1> USE VersionsAssumption DEF IInv, Crash, End, Goto, Release, locks, bounds, ghosts, project
<1>1. Typed'
  BY DEF Typed, Labels
<1>2. LocksRight'
  BY SMTT(30) DEF Typed, LocksRight, HoldsExclusive, Downloading, Reading
<1>3. Whole'
  BY CrashWhole
<1>4. Settled'
  BY DEF Typed, Settled, Prepared, Resolved, Recorded, Reading
<1>5. DownloadedOnce'
  BY SMTT(30) DEF Typed, LocksRight, Settled, DownloadedOnce, Downloading, Resolved, Reading
<1> QED
  BY <1>1, <1>2, <1>3, <1>4, <1>5

\* The index on github is nobody's.
LEMMA RemotePublishStep == ASSUME IInv, RemotePublish PROVE IInv'
<1> USE DEF IInv, RemotePublish, locks, project, bounds, ghosts
<1>1. Typed'
  BY DEF Typed
<1>2. LocksRight' /\ Whole' /\ Settled' /\ DownloadedOnce'
  BY SMTT(30) DEF LocksRight, Whole, Settled, DownloadedOnce, HoldsExclusive, Downloading, Prepared, Resolved,
         Recorded, Reading
<1> QED
  BY <1>1, <1>2

-----------------------------------------------------------------------------
(* The theorems.                                                           *)

LEMMA NextInv == IInv /\ [Next]_vars => IInv'
<1> SUFFICES ASSUME IInv, [Next]_vars PROVE IInv'
  OBVIOUS
<1>1. ASSUME NEW p \in Procs, Step(p) PROVE IInv'
  BY <1>1, Zenon, SnapshotLockedStep, SnapshotFetchStep, SnapshotCheckStep, SnapshotRenameStep,
     InitializeCheckStep, InitializeLockStep, InitializeRecheckStep, RefreshLockStep,
     DownloadFetchStep, DownloadRemoveStep, DownloadInstallStep, SharedStep,
     ResolveStep, TruncateLockStep, WriteLockStep,
     EnsureDownloadedStep, EnsureLockStep, EnsureRecheckStep, EnsureFetchStep, EnsureRenameStep,
     DoneStep, PublishLockStep, SaveLoadStep, SavePersistStep DEF Step
<1>2. CASE Next
  BY <1>1, <1>2, Zenon, StartStep, PublishStartStep, CrashStep, RemotePublishStep DEF Next
<1>3. CASE UNCHANGED vars
  <2> USE <1>3 DEF IInv, vars, locks, project, bounds, ghosts
  <2>1. Typed'
    BY DEF Typed
  <2>2. LocksRight' /\ Whole' /\ Settled' /\ DownloadedOnce'
    BY SMTT(30) DEF LocksRight, Whole, Settled, DownloadedOnce, HoldsExclusive, Downloading, Prepared,
           Resolved, Recorded, Reading
  <2> QED
    BY <2>1, <2>2
<1> QED
  BY <1>2, <1>3

LEMMA Invariance == Spec => []IInv
<1> QED
  BY InitInv, NextInv, PTL DEF Spec

LEMMA InvTypeOK == IInv => TypeOK
<1> SUFFICES ASSUME IInv PROVE TypeOK
  OBVIOUS
<1> USE DEF IInv
<1>1. shared = {p \in Procs : Reading(p)}
  BY DEF Typed, LocksRight
<1>2. ASSUME NEW p \in Procs
      PROVE  {v \in Versions : download[v] = p}
               = IF pc[p] \in {"fetch_locked", "fetch", "rename"} THEN {want[p]} ELSE {}
  BY SMTT(30) DEF Typed, LocksRight, Downloading, Settled, Resolved, Reading
<1> QED
  BY <1>1, <1>2 DEF Typed, TypeOK

\* The processes agree about the locks, for any number of them.
THEOREM TypeCorrect == Spec => []TypeOK
<1> QED
  BY Invariance, InvTypeOK, PTL

\* Readers never see the index in the middle of a replacement or of a save
\* (IndexLock::download, save): they hold the shared lock, so that no process has
\* the exclusive one, and only its holder leaves the index incomplete.
THEOREM WholeIndex == Spec => []ReadersSeeWhole
<1>1. IInv => ReadersSeeWhole
  <2> SUFFICES ASSUME IInv, NEW p \in Procs, Reading(p)
               PROVE  index.files \subseteq installed /\ (torn \/ installed \subseteq index.files)
    BY DEF ReadersSeeWhole
  <2>1. \A q \in Procs : ~HoldsExclusive(q)
    BY SMTT(30), VersionsAssumption DEF IInv, LocksRight
  <2> QED
    BY <2>1 DEF IInv, Whole, HoldsExclusive
<1> QED
  BY <1>1, Invariance, PTL

\* What a finished command uses is what its manifest asks for, what its lock file
\* says and what is on disk (make_lock, ensure_downloaded).
THEOREM DependenciesReady == Spec => []DepsReady
<1>1. IInv => DepsReady
  BY DEF IInv, Settled, DepsReady, Prepared, Resolved, Recorded, Reading
<1> QED
  BY <1>1, Invariance, PTL

\* No package is fetched a second time, and the rename that ends a download
\* (ensure_downloaded_to) finds nothing in its way.
THEOREM NoSecondDownload == Spec => []DownloadedOnce
<1>1. IInv => DownloadedOnce
  BY DEF IInv
<1> QED
  BY <1>1, Invariance, PTL

\* A process reads the index many times during a resolution: it does not change
\* between two of them, however many processes refresh or publish meanwhile.
IndexStable == [][\A p \in Procs : Reading(p) /\ Reading(p)' => index' = index]_vars

\* The index is stable while a resolution reads it (PackageIndex::shared keeps the
\* lock in the resolution): all the changes of the index are made under the
\* exclusive lock.
THEOREM StableWhileRead == Spec => IndexStable
<1> DEFINE Stable == \A p \in Procs : Reading(p) /\ Reading(p)' => index' = index
<1>1. ASSUME IInv, Next PROVE Stable
  <2>1. ASSUME NEW q \in Procs, HoldsExclusive(q) PROVE \A p \in Procs : ~Reading(p)
    BY <1>1, <2>1, VersionsAssumption DEF IInv, LocksRight
  <2>2. ASSUME NEW q \in Procs, DownloadRemove(q) \/ DownloadInstall(q) \/ SavePersist(q)
        PROVE  HoldsExclusive(q)
    BY <2>2 DEF DownloadRemove, DownloadInstall, SavePersist, At, HoldsExclusive
  <2>3. ASSUME NEW q \in Procs, PublishLock(q) PROVE \A p \in Procs : ~Reading(p)
    BY <1>1, <2>3 DEF PublishLock, Exclusive, IInv, LocksRight
  <2>4. \/ index' = index
        \/ \E q \in Procs : \/ DownloadRemove(q) \/ DownloadInstall(q)
                            \/ SavePersist(q) \/ PublishLock(q)
    BY <1>1, Zenon DEF Next, Step, Start, PublishStart, Crash, RemotePublish, SnapshotLocked,
       SnapshotFetch, SnapshotCheck, SnapshotRename, InitializeCheck, InitializeLock,
       InitializeRecheck, RefreshLock, DownloadFetch, Shared, Resolve, TruncateLock, WriteLock,
       EnsureDownloaded, EnsureLock, EnsureRecheck, EnsureFetch, EnsureRename, Done, SaveLoad
  <2> QED
    BY <2>1, <2>2, <2>3, <2>4
<1>2. IInv /\ [Next]_vars => [Stable]_vars
  BY <1>1
<1> QED
  BY <1>2, Invariance, PTL DEF Spec, IndexStable

=============================================================================
