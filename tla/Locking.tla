------------------------------- MODULE Locking -------------------------------
(* The life of a package's lock file (package/src/manifest.rs,              *)
(* package/src/lock.rs): manifests are edited, branches move, packages are  *)
(* published and the project is checked out elsewhere, while commands       *)
(* evaluate a program of the package (cli/src/input.rs), which brings the   *)
(* lock file up to date and makes the package map, or regenerate the lock   *)
(* file (cli/src/package.rs).                                               *)
(*                                                                          *)
(* The concurrent use of the cache is the subject of PackageIndex; here a   *)
(* command is one step.                                                     *)
EXTENDS Resolution

CONSTANTS RootManifests,  \* what the manifest of the package may say
          PathManifests,  \* what the manifest of each path package may say
          Commits,        \* the commits of the git repository: their manifests by path
          Heads,          \* where each branch may be: branch -> the commits, in order
          Universe,       \* the index packages that may be published
          Published,      \* those that are published at the start
          MaxEdits        \* bound on the changes from outside

VARIABLES root,     \* the manifest of the package
          disk,     \* the manifests of the path packages
          heads,    \* branch -> the number of its head in Heads
          remote,   \* the index on the server
          cache,    \* the local cache: the index, if there is one, and the commits
          lock,     \* the lock file, if there is one
          current,  \* the lock file was made or accepted for these manifests
          outcome,  \* of the last command
          edits     \* changes so far, bounded by MaxEdits

vars == <<root, disk, heads, remote, cache, lock, current, outcome, edits>>

EmptyCache == [there |-> FALSE, index |-> {}, git |-> {}]

Result(kind) == [kind |-> kind, map |-> <<>>]

(***************************************************************************)
(* The lock file                                                           *)
(***************************************************************************)

EmptyLock == [dependencies |-> Nothing, packages |-> Nothing]

(* LockPrecisePkg::from: a path package without its path. *)
LockPrecise(pkg) == IF pkg.kind = "Path" THEN [kind |-> "Path"] ELSE pkg

(* LockFileNamer::name: a package keeps the name it is first met under, and *)
(* a number tells packages with one name apart.                             *)
name(st, n, pkg) ==
  LET count == IF n \in DOMAIN st.counts THEN st.counts[n] + 1 ELSE 0
  IN  IF pkg \in DOMAIN st.assigned THEN st
      ELSE [st EXCEPT !.counts = (n :> count) @@ @,
                      !.assigned = (pkg :> <<n, count>>) @@ @]

(* The spec is not kept (used as a mutation). *)
LockedWithoutSpec(st, dep, pkg) == [name |-> st.assigned[pkg], spec |-> <<>>]

(* The original spec goes with a git dependency. *)
LockedDep(st, dep, pkg) ==
  [name |-> st.assigned[pkg], spec |-> IF dep.kind = "Git" THEN <<dep.spec>> ELSE <<>>]

(* collect_packages: an entry for pkg and, the first time, for everything   *)
(* below it. A lookup that panics or fails ends the walk.                   *)
RECURSIVE collect_packages(_, _, _, _)
collect_packages(res, st, n, pkg) ==
  CASE st.kind # "ok" -> st
    [] st.kind = "ok" /\ Missing(res, pkg) -> [st EXCEPT !.kind = "error"]
    [] st.kind = "ok" /\ ~ Missing(res, pkg) /\ Unfit(res, pkg) -> [st EXCEPT !.kind = "panic"]
    [] OTHER ->
         LET manifest == ManifestOf(res, pkg)
             deps  == sorted_dependencies(res, pkg)
             names == SortedNames(manifest)
             own   == name(st, n, pkg)
             named == FoldLeft(LAMBDA s, m : name(s, m, deps[m]), own, names)
             key   == own.assigned[pkg]
             entry == [precise |-> LockPrecise(pkg),
                       dependencies |-> [m \in DOMAIN manifest |-> LockedDep(named, manifest[m], deps[m])]]
             added == [named EXCEPT !.acc = (key :> entry) @@ @]
         IN  IF key \in DOMAIN st.acc THEN added
             ELSE FoldLeft(LAMBDA s, m : collect_packages(res, s, m, deps[m]), added, names)

(* LockFile::new: [kind, lock]. *)
NewLockFile(manifest, res) ==
  LET start == [kind |-> "ok", acc |-> Nothing, counts |-> Nothing, assigned |-> Nothing]
      Add(st, n) == LET pkg == precise(res, manifest[n])
                    IN  IF st.kind = "ok" /\ pkg = <<>> THEN [st EXCEPT !.kind = "panic"]
                        ELSE IF st.kind = "ok" THEN collect_packages(res, st, n, pkg[1]) ELSE st
      st == FoldLeft(Add, start, SortedNames(manifest))
  IN  IF st.kind # "ok" THEN [kind |-> st.kind, lock |-> EmptyLock]
      ELSE [kind |-> "ok",
            lock |-> [dependencies |-> [n \in DOMAIN manifest |->
                                          LockedDep(st, manifest[n], precise(res, manifest[n])[1])],
                      packages |-> st.acc]]

(* The version is not looked at (used as a mutation). *)
DepMatchesId(dep, locked, entry) ==
  CASE dep.kind = "Git"   -> locked.spec = <<dep.spec>>
    [] dep.kind = "Path"  -> TRUE
    [] dep.kind = "Index" -> entry.precise.kind = "Index" /\ entry.precise.id = dep.id

(* Dependency::matches. *)
DepMatches(dep, locked, entry) ==
  CASE dep.kind = "Git"   -> locked.spec = <<dep.spec>>
    [] dep.kind = "Path"  -> TRUE
    [] dep.kind = "Index" -> /\ entry.precise.kind = "Index"
                             /\ entry.precise.id = dep.id
                             /\ Matches(dep.req, entry.precise.version)

(* is_lock_file_up_to_date: the verdicts it may give, as the dependencies   *)
(* of a manifest are visited in no fixed order. The walk goes into path     *)
(* packages and has no memory of where it has been: it does not end when it *)
(* comes back to a package under the same entry (stack).                    *)
RECURSIVE up_to_date_rec(_, _, _, _, _)
up_to_date_rec(snap, file, path, locked, stack) ==
  LET manifest == snap.manifests[PathPkg(path)]
      Visit(n) ==
        IF n \notin DOMAIN locked \/ locked[n].name \notin DOMAIN file.packages THEN {"stale"}
        ELSE LET entry == file.packages[locked[n].name]
                 child == Normalized(path \o manifest[n].path)
                 here  == <<child, locked[n].name>>
             IN  CASE ~ DepMatches(manifest[n], locked[n], entry) -> {"stale"}
                   [] DepMatches(manifest[n], locked[n], entry) /\ manifest[n].kind # "Path" -> {"current"}
                   [] OTHER -> IF here \in stack THEN {"endless"}
                               ELSE up_to_date_rec(snap, file, child, entry.dependencies, stack \cup {here})
      visits == {Visit(n) : n \in DOMAIN manifest}
  IN  (UNION visits \ {"current"}) \cup
      IF \A v \in visits : "current" \in v THEN {"current"} ELSE {}

UpToDate(snap, file) == up_to_date_rec(snap, file, <<>>, file.dependencies, {})

(***************************************************************************)
(* Commands                                                                *)
(***************************************************************************)

OldLock == IF lock = <<>> THEN EmptyLock ELSE lock[1]

Files(online) ==
  [disk |-> disk, commits |-> Commits, heads |-> [b \in DOMAIN Heads |-> Heads[b][heads[b]]],
   fetched |-> cache.git, online |-> online]

(* ensure_index_packages_downloaded and package_map, at the end of a        *)
(* command. Which of an error and a panic comes first depends on the order  *)
(* of the packages.                                                         *)
Mapped(res) ==
  LET all    == AllPackages(res)
      errors == {Result("error") : p \in {q \in all : Missing(res, q)}}
      panics == {Result("panic") : p \in {q \in all : Unfit(res, q)}}
                  \cup {Result("panic") : n \in {m \in DOMAIN root : precise(res, root[m]) = <<>>}}
  IN  IF errors \cup panics # {} THEN errors \cup panics
      ELSE {[kind |-> "ok", map |-> <<package_map(res, root)>>]}

(* The index a command reads once it has tried to refresh its copy; if the  *)
(* refresh fails it goes on with the old copy.                              *)
Refreshed(snap, online) ==
  IF AllIndexDeps(snap) # {} /\ online
    THEN [there |-> TRUE, index |-> remote, git |-> snap.fetched]
    ELSE [cache EXCEPT !.git = snap.fetched]

(* make_lock, and the write of the new lock file; finish says whether the   *)
(* command goes on to the package map.                                      *)
MakeLock(snap, old, online, finish) ==
  /\ cache' = Refreshed(snap, online)
  /\ \E r \in resolve_with_lock(snap, cache'.index, old) :
       IF r = Failed
         THEN outcome' = Result("error") /\ UNCHANGED <<lock, current>>
         ELSE LET new == NewLockFile(root, r[1])
              IN  IF new.kind # "ok"
                    THEN outcome' = Result(new.kind) /\ UNCHANGED <<lock, current>>
                    ELSE /\ lock' = <<new.lock>>
                         /\ current' = TRUE
                         /\ outcome' \in IF finish THEN Mapped(r[1]) ELSE {Result("written")}

(* The lock file is kept: the versions are copied out of it. *)
KeepLock(snap, online) ==
  LET download == AllIndexDeps(snap) # {} /\ ~ cache.there
  IN  IF download /\ ~ online
        THEN /\ outcome' = Result("error")
             /\ cache' = [cache EXCEPT !.git = snap.fetched]
             /\ UNCHANGED <<lock, current>>
        ELSE /\ cache' = IF download THEN Refreshed(snap, online)
                                     ELSE [cache EXCEPT !.git = snap.fetched]
             /\ outcome' \in Mapped(copy_from_lock(snap, cache'.index, lock[1]))
             /\ current' = TRUE
             /\ UNCHANGED lock

FailedSnapshot(snap) ==
  /\ snap.failed
  /\ outcome' = Result("error")
  /\ cache' = [cache EXCEPT !.git = snap.fetched]
  /\ UNCHANGED <<lock, current>>

(* ManifestFile::lock, then the package map (prepare). *)
Lock(online) ==
  /\ LET snap == Snapshot(Files(online), root, OldLock)
     IN  \/ FailedSnapshot(snap)
         \/ /\ ~ snap.failed /\ lock = <<>>
            /\ MakeLock(snap, EmptyLock, online, TRUE)
         \/ /\ ~ snap.failed /\ lock # <<>>
            /\ \E verdict \in UpToDate(snap, lock[1]) :
                 CASE verdict = "current" -> KeepLock(snap, online)
                   [] verdict = "stale"   -> MakeLock(snap, lock[1], online, TRUE)
                   [] verdict = "endless" -> /\ outcome' = Result("endless")
                                             /\ cache' = [cache EXCEPT !.git = snap.fetched]
                                             /\ UNCHANGED <<lock, current>>
  /\ UNCHANGED <<root, disk, heads, remote, edits>>

(* regenerate_lock (nickel package lock). *)
RegenerateLock(online) ==
  /\ LET snap == Snapshot(Files(online), root, EmptyLock)
     IN  \/ FailedSnapshot(snap)
         \/ ~ snap.failed /\ MakeLock(snap, EmptyLock, online, FALSE)
  /\ UNCHANGED <<root, disk, heads, remote, edits>>

(***************************************************************************)
(* Changes from outside                                                    *)
(***************************************************************************)

Edit == edits < MaxEdits /\ edits' = edits + 1

EditRoot(m) ==
  /\ Edit
  /\ m # root /\ root' = m
  /\ current' = FALSE
  /\ UNCHANGED <<disk, heads, remote, cache, lock, outcome>>

EditPath(p, m) ==
  /\ Edit
  /\ m # disk[p] /\ disk' = [disk EXCEPT ![p] = m]
  /\ current' = FALSE
  /\ UNCHANGED <<root, heads, remote, cache, lock, outcome>>

Push(b) ==
  /\ Edit
  /\ heads[b] < Len(Heads[b]) /\ heads' = [heads EXCEPT ![b] = @ + 1]
  /\ UNCHANGED <<root, disk, remote, cache, lock, current, outcome>>

Publish(p) ==
  /\ Edit
  /\ p \notin remote /\ remote' = remote \cup {p}
  /\ UNCHANGED <<root, disk, heads, cache, lock, current, outcome>>

(* The project, with its lock file, on a machine whose cache is empty or    *)
(* has the index as it was at the start.                                    *)
Checkout ==
  /\ Edit
  /\ cache' \in {EmptyCache, [EmptyCache EXCEPT !.there = TRUE, !.index = Published]}
  /\ cache' # cache
  /\ UNCHANGED <<root, disk, heads, remote, lock, current, outcome>>

Init ==
  /\ root \in RootManifests
  /\ disk = [p \in DOMAIN PathManifests |-> Nothing]
  /\ heads = [b \in DOMAIN Heads |-> 1]
  /\ remote = Published
  /\ cache = EmptyCache
  /\ lock = <<>> /\ current = FALSE
  /\ outcome = Result("none")
  /\ edits = 0

Next ==
  \/ \E online \in BOOLEAN : Lock(online)
  \/ \E online \in BOOLEAN : RegenerateLock(online)
  \/ \E m \in RootManifests : EditRoot(m)
  \/ \E p \in DOMAIN PathManifests : \E m \in PathManifests[p] : EditPath(p, m)
  \/ \E b \in DOMAIN Heads : Push(b)
  \/ \E p \in Universe : Publish(p)
  \/ Checkout

Spec == Init /\ [][Next]_vars

(***************************************************************************)
(* Properties                                                              *)
(***************************************************************************)

Manifest(pkg) ==
  CASE pkg.kind = "Path"  -> IF pkg = RootPkg THEN root ELSE disk[pkg.path]
    [] pkg.kind = "Git"   -> Commits[pkg.rev][pkg.path]
    [] pkg.kind = "Index" -> IndexPackage(Universe, pkg.id, pkg.version).dependencies

(* The packages a program can import from, directly or not. *)
RECURSIVE Imported(_, _)
Imported(map, pkgs) ==
  LET next == pkgs \cup UNION {{map.packages[p][n] : n \in DOMAIN map.packages[p]} :
                                p \in pkgs \cap DOMAIN map.packages}
  IN  IF next = pkgs THEN pkgs ELSE Imported(map, next)

FromTop(map) == Imported(map, {map.top[n] : n \in DOMAIN map.top})

(* The imports of the program and of everything it imports from. *)
Imports(map) ==
  [top |-> map.top, packages |-> [p \in FromTop(map) \cap DOMAIN map.packages |-> map.packages[p]]]

Clear(dep) == dep.kind = "Index" => Faithful(dep.req, VersionsOf(Universe, dep.id))

(* Every requirement a command may meet means the same to the resolver and  *)
(* to the lookups.                                                          *)
AllClear ==
  LET manifests == {root} \cup {disk[p] : p \in DOMAIN disk}
                     \cup UNION {{Commits[r][p] : p \in DOMAIN Commits[r]} : r \in cache.git}
                     \cup {p.dependencies : p \in remote \cup cache.index}
  IN  \A m \in manifests : \A n \in DOMAIN m : Clear(m[n])

Manifests == {root} \cup {disk[p] : p \in DOMAIN disk}

(* One git dependency is named twice, and its branch was seen at two        *)
(* commits: a snapshot may then take one of them from the lock file and the *)
(* other from the repository, and remember only the last for both.          *)
TwoCommits ==
  LET uses == UNION {{<<m, n>> : n \in {x \in DOMAIN m : m[x].kind = "Git"}} : m \in Manifests}
  IN  /\ \E u, w \in uses : u # w /\ u[1][u[2]] = w[1][w[2]]
      /\ Cardinality(cache.git) > 1

(* The paths of the root's manifest are written in normal form. *)
PathsNormal ==
  \A n \in DOMAIN root : root[n].kind = "Path" => Normalized(root[n].path) = root[n].path

(* Some path package leads back to the root. *)
PathCycle ==
  \E p \in DOMAIN disk : \E n \in DOMAIN disk[p] :
    disk[p][n].kind = "Path" /\ Normalized(p \o disk[p][n].path) = <<>>

(* After a command, every import of the program and of the packages it      *)
(* imports from leads to a package of the map, and an index dependency to a *)
(* version its requirement allows, unless the two readings of that          *)
(* requirement differ (package_map, index_dep_version).                     *)
ResolvedAsRequired ==
  current /\ outcome.kind = "ok" =>
    LET map == outcome.map[1]
        Right(m, links) ==
          /\ DOMAIN links = DOMAIN m
          /\ \A n \in DOMAIN m :
               m[n].kind = "Index" =>
                 /\ links[n].id = m[n].id
                 /\ Clear(m[n]) => Allowed(m[n].req, links[n].version)
    IN  /\ Right(root, map.top)
        /\ \A p \in FromTop(map) \ {RootPkg} :
             p \in DOMAIN map.packages /\ Right(Manifest(p), map.packages[p])

(* A lock file that was made or accepted for the manifests as they are is   *)
(* kept by every later evaluation, whatever has been pushed or published    *)
(* since and whatever the cache holds, and the program imports the same     *)
(* packages or the command fails (lock, is_lock_file_up_to_date,            *)
(* snapshot_recursive, copy_from_lock).                                     *)
Reproducible ==
  [][current /\ edits' = edits /\ outcome'.kind # "written" =>
       /\ lock' = lock
       /\ outcome.kind = "ok" /\ outcome'.kind = "ok" /\ AllClear =>
            Imports(outcome'.map[1]) = Imports(outcome.map[1])]_vars

(* The entries of the lock file and the packages of the map that the same   *)
(* names lead to.                                                           *)
RECURSIVE SideBySide(_, _, _)
SideBySide(file, map, pairs) ==
  LET Below(x) == {<<file.packages[x[1]].dependencies[n].name, map.packages[x[2]][n]>> :
                     n \in DOMAIN map.packages[x[2]] \cap DOMAIN file.packages[x[1]].dependencies}
      next == pairs \cup UNION {Below(x) : x \in {y \in pairs : y[2] # RootPkg}}
  IN  IF next = pairs THEN pairs ELSE SideBySide(file, map, next)

(* How the last command may have ended. *)
Settled ==
  /\ outcome.kind = "panic" => ~ AllClear \/ TwoCommits \/ ~ PathsNormal
  /\ outcome.kind = "endless" => PathCycle

(* No command panics or recurses without end, except for the manifests      *)
(* named above (index_dep_version, sorted_dependencies, up_to_date_rec).    *)
CommandsSettle == [][edits' = edits => Settled']_vars
=============================================================================
