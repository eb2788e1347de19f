---------------------------- MODULE PackageIndex ----------------------------
(***************************************************************************)
(* Several nickel processes that share one package cache on disk           *)
(* (package/src): the package index, replaced as a whole by a download and *)
(* extended by publish, under an advisory file lock (index/lock.rs); the   *)
(* downloaded index packages, each with a download lock (index/mod.rs);    *)
(* the git packages, without lock (snapshot.rs); and the lock file of each *)
(* process's own project (manifest.rs).                                    *)
(*                                                                         *)
(* A project depends on one git package and, by a lower bound on its       *)
(* version, on one index package.  A process may die between any two       *)
(* steps: the operating system then releases its locks, and what it wrote  *)
(* to disk stays.                                                          *)
(***************************************************************************)
EXTENDS Naturals, FiniteSets, FiniteSetsExt

CONSTANTS Procs,       \* nickel processes
          Versions,    \* versions of the index package, natural numbers
          GitPkg,      \* the git package, at the head of its branch
          NoProc, NoVersion,
          MaxRuns,     \* commands each process runs
          MaxCrashes,  \* processes that die
          MaxErrors    \* failing downloads and removals

ASSUME VersionsAssumption ==
  /\ Versions \subseteq Nat /\ Versions # {}
  /\ GitPkg \notin Versions /\ NoVersion \notin Versions /\ NoProc \notin Procs

VARIABLES
  index,      \* index_dir: whether it exists, and the versions its files list
  remote,     \* the versions listed by the index on github
  excl,       \* the process with the exclusive index lock
  shared,     \* those with a shared one
  download,   \* for each version, the process with its download lock
  target,     \* for each package its directory: "absent" or "complete"
  pc,
  got,        \* the index a process has fetched or read
  want,       \* the version it resolved
  req,        \* the version its manifest requires
  lock,       \* the version in its lock file, or NoVersion without lock file
  runs, crashes, errors,
  installed,  \* the versions last installed by a download, with those saved since
  torn        \* a process failed or died while it replaced the index

locks == <<excl, shared, download>>
bounds == <<runs, crashes, errors>>
ghosts == <<installed, torn>>
project == <<want, req, lock>>
vars == <<index, remote, locks, target, pc, got, project, bounds, ghosts>>

-----------------------------------------------------------------------------
(* Locks.  All are dropped when a command fails or ends.                   *)

At(p, l) == pc[p] = l
Goto(p, l) == pc' = [pc EXCEPT ![p] = l]

\* open_rw_exclusive_create blocks until nobody else holds the lock.
Exclusive(p) ==
  /\ excl = NoProc /\ shared = {}
  /\ excl' = p
  /\ UNCHANGED <<shared, download>>

\* Drop of FileLock, and what the operating system does for a dead process.
Release(p) ==
  /\ excl' = IF excl = p THEN NoProc ELSE excl
  /\ shared' = shared \ {p}
  /\ download' = [v \in Versions |-> IF download[v] = p THEN NoProc ELSE download[v]]

\* The command ends here, with an error or without.
End(p) == Goto(p, "idle") /\ Release(p)

Errs == errors < MaxErrors /\ errors' = errors + 1 /\ UNCHANGED <<runs, crashes>>

-----------------------------------------------------------------------------
(* Locking the project (ManifestFile::lock).                               *)

\* A command that needs the dependencies; its manifest may have been edited.
Start(p) ==
  /\ At(p, "idle") /\ runs[p] < MaxRuns
  /\ runs' = [runs EXCEPT ![p] = @ + 1]
  /\ \E v \in Versions : req' = [req EXCEPT ![p] = v]
  /\ Goto(p, "snapshot")
  /\ UNCHANGED <<index, remote, locks, target, got, want, lock, crashes, errors, ghosts>>

\* Mutant: a lock file is always good.
UpToDateAlways(p) == TRUE

\* is_lock_file_up_to_date: does the lock file still match the manifest?
UpToDate(p) == lock[p] >= req[p]

\* With a lock file the git package is not fetched: its manifest is read from
\* where a fetch would have put it.
SnapshotLocked(p) ==
  /\ At(p, "snapshot") /\ lock[p] # NoVersion
  /\ IF target[GitPkg] # "complete" THEN End(p)
     ELSE /\ Goto(p, IF UpToDate(p) THEN "open" ELSE "refresh")
          /\ UNCHANGED locks
  /\ UNCHANGED <<index, remote, target, got, project, bounds, ghosts>>

\* snapshot_git fetches to a temporary directory.
SnapshotFetch(p) ==
  /\ At(p, "snapshot") /\ lock[p] = NoVersion
  /\ \/ Goto(p, "git_fetched") /\ UNCHANGED <<locks, bounds>>
     \/ Errs /\ End(p)
  /\ UNCHANGED <<index, remote, target, got, project, ghosts>>

SnapshotCheck(p) ==
  /\ At(p, "git_fetched")
  /\ Goto(p, IF target[GitPkg] # "absent" THEN "refresh" ELSE "git_rename")
  /\ UNCHANGED <<index, remote, locks, target, got, project, bounds, ghosts>>

\* Renaming a directory onto one that is not empty is an error.
SnapshotRename(p) ==
  /\ At(p, "git_rename")
  /\ IF target[GitPkg] = "absent"
     THEN /\ target' = [target EXCEPT ![GitPkg] = "complete"]
          /\ Goto(p, "refresh") /\ UNCHANGED locks
     ELSE End(p) /\ UNCHANGED target
  /\ UNCHANGED <<index, remote, got, project, bounds, ghosts>>

-----------------------------------------------------------------------------
(* Opening the index.                                                      *)

\* PackageIndex::shared_or_initialize looks at the directory without a lock,
\* and again with it.
InitializeCheck(p) ==
  /\ At(p, "open")
  /\ Goto(p, IF index.exists THEN "shared" ELSE "initialize")
  /\ UNCHANGED <<index, remote, locks, target, got, project, bounds, ghosts>>

InitializeLock(p) ==
  /\ At(p, "initialize")
  /\ Exclusive(p)
  /\ Goto(p, "initialize_locked")
  /\ UNCHANGED <<index, remote, target, got, project, bounds, ghosts>>

InitializeRecheck(p) ==
  /\ At(p, "initialize_locked")
  /\ IF index.exists THEN Goto(p, "shared") /\ Release(p)
     ELSE Goto(p, "download_first") /\ UNCHANGED locks
  /\ UNCHANGED <<index, remote, target, got, project, bounds, ghosts>>

\* PackageIndex::refreshed.
RefreshLock(p) ==
  /\ At(p, "refresh")
  /\ Exclusive(p)
  /\ Goto(p, "download")
  /\ UNCHANGED <<index, remote, target, got, project, bounds, ghosts>>

\* IndexLock::download fetches to a temporary directory.  If that fails,
\* make_lock goes on with the old index, shared_or_initialize gives up.
DownloadFetch(p) ==
  /\ pc[p] \in {"download", "download_first"}
  /\ \/ /\ got' = [got EXCEPT ![p] = remote]
        /\ Goto(p, IF At(p, "download_first") THEN "install_first"
                   ELSE IF index.exists THEN "remove" ELSE "install")
        /\ UNCHANGED <<locks, bounds>>
     \/ /\ Errs
        /\ Release(p)
        /\ Goto(p, IF At(p, "download") THEN "shared" ELSE "idle")
        /\ UNCHANGED got
  /\ UNCHANGED <<index, remote, target, project, ghosts>>

\* remove_dir_all removes the files one by one, then the directory; it may fail
\* in between.  (Only a refresh gets here.)
DownloadRemove(p) ==
  /\ At(p, "remove")
  /\ \/ /\ index' = [exists |-> FALSE, files |-> {}]
        /\ Goto(p, "install") /\ UNCHANGED <<locks, bounds, torn>>
     \/ \E v \in index.files :
          /\ index' = [index EXCEPT !.files = @ \ {v}]
          /\ UNCHANGED <<pc, locks, bounds, torn>>
     \/ /\ Errs /\ Release(p)
        /\ torn' = TRUE
        /\ Goto(p, "shared") /\ UNCHANGED index
  /\ UNCHANGED <<remote, target, got, project, installed>>

Installs(p) ==
  /\ index' = [exists |-> TRUE, files |-> got[p]]
  /\ installed' = got[p] /\ torn' = FALSE
  /\ got' = [got EXCEPT ![p] = {}]
  /\ Goto(p, "shared")

\* The fetched index cannot be moved: there is none any more.
InstallFails(p) ==
  /\ Errs /\ Release(p)
  /\ torn' = (torn \/ At(p, "install"))
  /\ Goto(p, IF At(p, "install") THEN "shared" ELSE "idle")
  /\ UNCHANGED <<index, installed, got>>

\* Mutant: refreshed still holds its lock when it opens the index for reading.
InstallKeepsLock(p) ==
  /\ pc[p] \in {"install", "install_first"}
  /\ (Installs(p) /\ UNCHANGED <<locks, bounds>>) \/ InstallFails(p)
  /\ UNCHANGED <<remote, target, project>>

\* The fetched index is moved into place and the exclusive lock released, as
\* flock cannot turn it into a shared one.
DownloadInstall(p) ==
  /\ pc[p] \in {"install", "install_first"}
  /\ (Installs(p) /\ Release(p) /\ UNCHANGED bounds) \/ InstallFails(p)
  /\ UNCHANGED <<remote, target, project>>

Shared(p) ==
  /\ At(p, "shared")
  /\ excl = NoProc
  /\ shared' = shared \cup {p}
  /\ Goto(p, "resolve")
  /\ UNCHANGED <<index, remote, excl, download, target, got, project, bounds, ghosts>>

-----------------------------------------------------------------------------
(* Resolution, the lock file and the download of the package.              *)

\* choose_version: the locked version if it is in the range, else the smallest
\* version of the index that is.
ChooseVersion(p) ==
  IF lock[p] # NoVersion /\ UpToDate(p) THEN lock[p]
  ELSE LET candidates == {v \in index.files : v >= req[p]}
       IN IF candidates = {} THEN NoVersion ELSE Min(candidates)

\* A lock file that is up to date is copied and not written.
Resolve(p) ==
  /\ At(p, "resolve")
  /\ LET v == ChooseVersion(p)
     IN IF v = NoVersion THEN End(p) /\ UNCHANGED want
        ELSE /\ want' = [want EXCEPT ![p] = v]
             /\ Goto(p, IF v = lock[p] THEN "ensure" ELSE "write_lock")
             /\ UNCHANGED locks
  /\ UNCHANGED <<index, remote, target, got, req, lock, bounds, ghosts>>

\* LockFile::write truncates the file first.
TruncateLock(p) ==
  /\ At(p, "write_lock")
  /\ lock' = [lock EXCEPT ![p] = NoVersion]
  /\ Goto(p, "writing_lock")
  /\ UNCHANGED <<index, remote, locks, target, got, want, req, bounds, ghosts>>

WriteLock(p) ==
  /\ At(p, "writing_lock")
  /\ lock' = [lock EXCEPT ![p] = want[p]]
  /\ Goto(p, "ensure")
  /\ UNCHANGED <<index, remote, locks, target, got, want, req, bounds, ghosts>>

\* ensure_downloaded: the index must know the version, even if it was locked.
EnsureDownloaded(p) ==
  /\ At(p, "ensure")
  /\ IF want[p] \notin index.files THEN End(p)
     ELSE /\ Goto(p, IF target[want[p]] # "absent" THEN "done" ELSE "fetch_lock")
          /\ UNCHANGED locks
  /\ UNCHANGED <<index, remote, target, got, project, bounds, ghosts>>

EnsureLock(p) ==
  /\ At(p, "fetch_lock")
  /\ download[want[p]] = NoProc
  /\ download' = [download EXCEPT ![want[p]] = p]
  /\ Goto(p, "fetch_locked")
  /\ UNCHANGED <<index, remote, excl, shared, target, got, project, bounds, ghosts>>

DropDownload(p) == download' = [download EXCEPT ![want[p]] = NoProc] /\ UNCHANGED <<excl, shared>>

EnsureRecheck(p) ==
  /\ At(p, "fetch_locked")
  /\ IF target[want[p]] # "absent" THEN Goto(p, "done") /\ DropDownload(p)
     ELSE Goto(p, "fetch") /\ UNCHANGED locks
  /\ UNCHANGED <<index, remote, target, got, project, bounds, ghosts>>

\* The fetch goes to a temporary directory, which nobody else looks at and which
\* only the rename makes the package's.
EnsureFetch(p) ==
  /\ At(p, "fetch")
  /\ \/ Goto(p, "rename") /\ UNCHANGED <<locks, bounds>>
     \/ Errs /\ End(p)
  /\ UNCHANGED <<index, remote, target, got, project, ghosts>>

EnsureRename(p) ==
  /\ At(p, "rename")
  /\ target' = [target EXCEPT ![want[p]] = "complete"]
  /\ Goto(p, "done") /\ DropDownload(p)
  /\ UNCHANGED <<index, remote, got, project, bounds, ghosts>>

\* The resolution, and with it the shared lock, is dropped.
Done(p) ==
  /\ At(p, "done")
  /\ End(p)
  /\ want' = [want EXCEPT ![p] = NoVersion]
  /\ UNCHANGED <<index, remote, target, got, req, lock, bounds, ghosts>>

-----------------------------------------------------------------------------
(* nickel package publish --index, on the same index.                      *)

PublishStart(p) ==
  /\ At(p, "idle") /\ runs[p] < MaxRuns
  /\ runs' = [runs EXCEPT ![p] = @ + 1]
  /\ Goto(p, "publish")
  /\ UNCHANGED <<index, remote, locks, target, got, project, crashes, errors, ghosts>>

\* PackageIndex::exclusive creates an empty index if there is none.
PublishLock(p) ==
  /\ At(p, "publish")
  /\ Exclusive(p)
  /\ index' = [index EXCEPT !.exists = TRUE]
  /\ Goto(p, "publish_locked")
  /\ UNCHANGED <<remote, target, got, project, bounds, ghosts>>

\* save loads the file of the package; a version that is there is refused.
SaveLoad(p) ==
  /\ At(p, "publish_locked")
  /\ \E v \in Versions :
       IF v \in index.files THEN End(p) /\ UNCHANGED <<got, want>>
       ELSE /\ got' = [got EXCEPT ![p] = index.files]
            /\ want' = [want EXCEPT ![p] = v]
            /\ Goto(p, "persist") /\ UNCHANGED locks
  /\ UNCHANGED <<index, remote, target, req, lock, bounds, ghosts>>

\* Mutant: the versions already in the file are forgotten.
SaveForgets(p) ==
  /\ At(p, "persist")
  /\ index' = [index EXCEPT !.files = {want[p]}]
  /\ installed' = installed \cup {want[p]}
  /\ got' = [got EXCEPT ![p] = {}] /\ want' = [want EXCEPT ![p] = NoVersion]
  /\ End(p)
  /\ UNCHANGED <<remote, target, req, lock, bounds, torn>>

\* A temporary file with all versions replaces it.
SavePersist(p) ==
  /\ At(p, "persist")
  /\ index' = [index EXCEPT !.files = got[p] \cup {want[p]}]
  /\ installed' = installed \cup {want[p]}
  /\ got' = [got EXCEPT ![p] = {}] /\ want' = [want EXCEPT ![p] = NoVersion]
  /\ End(p)
  /\ UNCHANGED <<remote, target, req, lock, bounds, torn>>

-----------------------------------------------------------------------------
(* Outside of the processes: the index on github grows, a process dies.    *)

RemotePublish ==
  /\ \E v \in Versions \ remote : remote' = remote \cup {v}
  /\ UNCHANGED <<index, locks, target, pc, got, project, bounds, ghosts>>

Crash(p) ==
  /\ pc[p] # "idle" /\ crashes < MaxCrashes
  /\ crashes' = crashes + 1
  /\ torn' = (torn \/ pc[p] \in {"remove", "install"})
  /\ End(p)
  /\ got' = [got EXCEPT ![p] = {}] /\ want' = [want EXCEPT ![p] = NoVersion]
  /\ UNCHANGED <<index, remote, target, req, lock, runs, errors, installed>>

-----------------------------------------------------------------------------
Init ==
  /\ index \in {[exists |-> FALSE, files |-> {}], [exists |-> TRUE, files |-> {Min(Versions)}]}
  /\ remote = {Min(Versions)}
  /\ excl = NoProc /\ shared = {} /\ download = [v \in Versions |-> NoProc]
  /\ target = [t \in Versions \cup {GitPkg} |-> "absent"]
  /\ pc = [p \in Procs |-> "idle"] /\ got = [p \in Procs |-> {}]
  /\ want = [p \in Procs |-> NoVersion] /\ req = [p \in Procs |-> Min(Versions)]
  /\ lock \in [Procs -> {NoVersion, Min(Versions)}]
  /\ runs = [p \in Procs |-> 0] /\ crashes = 0 /\ errors = 0
  /\ installed = index.files /\ torn = FALSE

Step(p) ==
  \/ SnapshotLocked(p) \/ SnapshotFetch(p) \/ SnapshotCheck(p) \/ SnapshotRename(p)
  \/ InitializeCheck(p) \/ InitializeLock(p) \/ InitializeRecheck(p) \/ RefreshLock(p)
  \/ DownloadFetch(p) \/ DownloadRemove(p) \/ DownloadInstall(p) \/ Shared(p)
  \/ Resolve(p) \/ TruncateLock(p) \/ WriteLock(p)
  \/ EnsureDownloaded(p) \/ EnsureLock(p) \/ EnsureRecheck(p) \/ EnsureFetch(p) \/ EnsureRename(p)
  \/ Done(p) \/ PublishLock(p) \/ SaveLoad(p) \/ SavePersist(p)

Next ==
  \/ \E p \in Procs : Start(p) \/ PublishStart(p) \/ Step(p) \/ Crash(p)
  \/ RemotePublish

Spec == Init /\ [][Next]_vars
FairSpec == Spec /\ \A p \in Procs : WF_vars(Step(p))

-----------------------------------------------------------------------------
(* Properties.                                                             *)

Labels == {"idle", "snapshot", "git_fetched", "git_rename", "open", "initialize",
           "initialize_locked", "refresh", "download", "download_first", "remove", "install", "install_first",
           "shared", "resolve", "write_lock", "writing_lock", "ensure", "fetch_lock",
           "fetch_locked", "fetch", "rename", "done", "publish", "publish_locked", "persist"}

Reading(p) == pc[p] \in {"resolve", "write_lock", "writing_lock", "ensure", "fetch_lock",
                         "fetch_locked", "fetch", "rename", "done"}

\* The state is of the expected types.  The shared lock of the index is held
\* throughout a resolution and no longer, a download lock throughout a download.
TypeOK ==
  /\ index \in [exists : BOOLEAN, files : SUBSET Versions] /\ remote \in SUBSET Versions
  /\ excl \in Procs \cup {NoProc} /\ shared \in SUBSET Procs
  /\ download \in [Versions -> Procs \cup {NoProc}]
  /\ target \in [Versions \cup {GitPkg} -> {"absent", "complete"}]
  /\ pc \in [Procs -> Labels] /\ got \in [Procs -> SUBSET Versions]
  /\ want \in [Procs -> Versions \cup {NoVersion}] /\ req \in [Procs -> Versions]
  /\ lock \in [Procs -> Versions \cup {NoVersion}]
  /\ installed \in SUBSET Versions /\ torn \in BOOLEAN
  /\ shared = {p \in Procs : Reading(p)}
  /\ \A p \in Procs : {v \in Versions : download[v] = p}
                        = IF pc[p] \in {"fetch_locked", "fetch", "rename"} THEN {want[p]} ELSE {}

\* A process that reads the index finds exactly what was last installed and
\* saved, never the middle of a replacement or of a save (IndexLock::download
\* deletes, then renames).  Once a process has died or failed in the middle of a
\* replacement, versions may be missing, but none is there that was not installed.
ReadersSeeWhole ==
  (\E p \in Procs : Reading(p)) =>
    index.files \subseteq installed /\ (torn \/ installed \subseteq index.files)

\* A command that gets through uses a version that its manifest accepts, that
\* its lock file records and that is completely downloaded, with the git
\* package next to it.
DepsReady ==
  \A p \in Procs : pc[p] = "done" =>
    /\ want[p] >= req[p] /\ lock[p] = want[p]
    /\ target[want[p]] = "complete" /\ target[GitPkg] = "complete"

\* Every command ends: no process waits for ever for a lock, its own included.
CommandsEnd == <>[](\A p \in Procs : pc[p] = "idle")
=============================================================================
