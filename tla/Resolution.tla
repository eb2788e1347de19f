----------------------------- MODULE Resolution -----------------------------
(***************************************************************************)
(* Versions and requirements (version.rs), and the resolution of the       *)
(* dependencies of a package (resolve.rs).                                 *)
(***************************************************************************)
EXTENDS Integers, FiniteSetsExt, Sequences, SequencesExt

-----------------------------------------------------------------------------
(* Semantic versions and requirements of the package manager                *)
(* (package/src/version.rs, the buckets of package/src/resolve.rs).         *)
(*                                                                          *)
(* A requirement is read in two ways. The resolver turns it into a bucket   *)
(* of compatible versions and a range (BucketOf, RangeOf); everything that  *)
(* runs after the resolution asks whether a version matches it (Matches).   *)
(* Faithful says on which versions the two readings agree.                  *)
(* Option::None for the minor and patch numbers of a requirement. *)
Absent == -1

(* A version. A number stands for the prerelease string, 0 for the empty    *)
(* one: the derived order compares strings and puts the empty one first.    *)
SemVer(major, minor, patch, pre) ==
  [major |-> major, minor |-> minor, patch |-> patch, pre |-> pre]

Compatible(major, minor, patch) ==
  [kind |-> "Compatible", major |-> major, minor |-> minor, patch |-> patch]

Exact(v) == [kind |-> "Exact", version |-> v]

(* The derived, lexicographic order of versions. *)
Before(v, w) ==
  \/ v.major < w.major
  \/ v.major = w.major /\ v.minor < w.minor
  \/ v.major = w.major /\ v.minor = w.minor /\ v.patch < w.patch
  \/ v.major = w.major /\ v.minor = w.minor /\ v.patch = w.patch /\ v.pre < w.pre

Least(versions) == CHOOSE v \in versions : \A w \in versions : v = w \/ Before(v, w)

OrZero(n) == IF n = Absent THEN 0 ELSE n

(* SemVerPrefix::matches. The prerelease part of v plays no role. *)
PrefixMatches(req, v) ==
  /\ v.major = req.major
  /\ req.minor # Absent => IF req.patch = Absent
                             THEN v.minor >= req.minor
                             ELSE v.minor = req.minor /\ v.patch >= req.patch

(* VersionReq::matches. *)
Matches(req, v) == IF req.kind = "Exact" THEN v = req.version ELSE PrefixMatches(req, v)

Major(n) == [kind |-> "Major", number |-> n]
Minor(n) == [kind |-> "Minor", number |-> n]
Prerelease(v) == [kind |-> "Prerelease", version |-> v]

MajorMinor(major, minor) == IF major = 0 THEN Minor(minor) ELSE Major(major)

(* BucketVersion::from, for a version and for a requirement. *)
BucketOfVersion(v) == IF v.pre = 0 THEN MajorMinor(v.major, v.minor) ELSE Prerelease(v)

BucketOf(req) ==
  IF req.kind = "Exact" THEN BucketOfVersion(req.version)
                        ELSE MajorMinor(req.major, OrZero(req.minor))

(* BucketVersion::contains. *)
InBucket(bucket, v) ==
  CASE bucket.kind = "Major"      -> v.major = bucket.number /\ v.pre = 0
    [] bucket.kind = "Minor"      -> v.major = 0 /\ v.minor = bucket.number /\ v.pre = 0
    [] bucket.kind = "Prerelease" -> v = bucket.version

(* pubgrub::Ranges::higher_than(lower bound) and Ranges::singleton. *)
InRange(req, v) ==
  IF req.kind = "Exact" THEN v = req.version
  ELSE ~ Before(v, SemVer(req.major, OrZero(req.minor), OrZero(req.patch), 0))

(* The version is one the resolver may choose for the requirement. *)
Allowed(req, v) == InBucket(BucketOf(req), v) /\ InRange(req, v)

(* On these versions the resolver and everything after it agree about req. *)
Faithful(req, versions) == \A v \in versions : Matches(req, v) <=> Allowed(req, v)

-----------------------------------------------------------------------------
(* The resolution of a package's dependencies: the snapshot of its path and *)
(* git packages (package/src/snapshot.rs), the choice of versions for its   *)
(* index packages and the package map made of both                          *)
(* (package/src/resolve.rs, package/src/lib.rs).                            *)
(*                                                                          *)
(* The names of dependencies are numbers, in the order of their labels. A   *)
(* path is the sequence of its components. A manifest maps names to         *)
(* dependencies; its other fields play no role here. An Option is a         *)
(* sequence of length 0 or 1. Urls of git repositories are absolute, and a  *)
(* git spec names a branch and a path in the repository.                    *)
IndexDep(id, req) == [kind |-> "Index", id |-> id, req |-> req]
PathDep(path)     == [kind |-> "Path", path |-> path]
GitDep(branch, path) == [kind |-> "Git", spec |-> [branch |-> branch, path |-> path]]

IndexPkg(id, v)     == [kind |-> "Index", id |-> id, version |-> v]
PathPkg(path)       == [kind |-> "Path", path |-> path]
GitPkg(rev, path)   == [kind |-> "Git", rev |-> rev, path |-> path]

RootPkg == PathPkg(<<>>)

Nothing == [x \in {} |-> x]

(* ManifestFile::sorted_dependencies: the names in the order of the walk. *)
SortedNames(manifest) == SetToSortSeq(DOMAIN manifest, LAMBDA a, b : a < b)

IndexDepsOf(manifest) == {manifest[n] : n \in {x \in DOMAIN manifest : manifest[x].kind = "Index"}}

(***************************************************************************)
(* Paths                                                                   *)
(***************************************************************************)

Up == ".."

(* cache.rs normalize_rel_path: "." vanishes, ".." takes the component      *)
(* before it away, and what cannot be taken away stays in front.            *)
Normalized(path) ==
  FoldLeft(LAMBDA acc, c : CASE c = "." -> acc
                             [] c = Up /\ acc # <<>> /\ Last(acc) # Up -> Front(acc)
                             [] OTHER -> Append(acc, c),
           <<>>, path)

(***************************************************************************)
(* Snapshot                                                                *)
(***************************************************************************)

(* What a snapshot reads: the manifests on disk, those of the commits, the  *)
(* heads of the branches, the commits that are in the cache, and whether a  *)
(* fetch works. A fetched commit is moved to the cache.                     *)
NewSnapshot(root, fetched) ==
  [git |-> Nothing, dependency |-> Nothing, manifests |-> RootPkg :> root,
   fetched |-> fetched, failed |-> FALSE]

HasManifest(files, snap, pkg) ==
  IF pkg.kind = "Path" THEN pkg.path \in DOMAIN files.disk
  ELSE pkg.rev \in snap.fetched /\ pkg.path \in DOMAIN files.commits[pkg.rev]

ReadManifest(files, pkg) ==
  IF pkg.kind = "Path" THEN files.disk[pkg.path] ELSE files.commits[pkg.rev][pkg.path]

(* The commit of a git dependency: the locked one if the spec has not       *)
(* changed, else the one this snapshot has already found, else the head.    *)
LockedCommit(lock, entry, dep) ==
  IF entry # <<>> /\ entry[1].spec = <<dep.spec>>
    THEN <<lock.packages[entry[1].name].precise.rev>> ELSE <<>>

SnapshotGit(snap, files, locked, spec) ==
  LET fetch == locked = <<>> /\ spec \notin DOMAIN snap.git
      id == IF locked # <<>> THEN locked[1]
            ELSE IF fetch THEN files.heads[spec.branch] ELSE snap.git[spec]
  IN  IF fetch /\ ~ files.online THEN [snap EXCEPT !.failed = TRUE]
      ELSE [snap EXCEPT !.git = (spec :> id) @@ @,
                        !.fetched = IF fetch THEN @ \cup {id} ELSE @]

(* The package a dependency of parent stands for; a path that leaves the    *)
(* repository of a git package is refused (Error::RestrictedPath).          *)
PackageOf(snap, dep, parent) ==
  IF dep.kind = "Git" THEN GitPkg(snap.git[dep.spec], dep.spec.path)
  ELSE [parent EXCEPT !.path = Normalized(parent.path \o dep.path)]

Restricted(pkg) == pkg.kind = "Git" /\ pkg.path # <<>> /\ pkg.path[1] = Up

RECURSIVE SnapshotAll(_, _, _, _, _, _)

SnapshotRecursive(snap, files, lock, entry, dep, parent) ==
  IF snap.failed \/ dep.kind = "Index" THEN snap
  ELSE
    LET found == IF dep.kind = "Git"
                   THEN SnapshotGit(snap, files, LockedCommit(lock, entry, dep), dep.spec)
                   ELSE snap
        pkg == PackageOf(found, dep, parent)
        linked == [found EXCEPT !.dependency = (<<parent, dep>> :> pkg) @@ @]
        locked == IF entry = <<>> THEN Nothing ELSE lock.packages[entry[1].name].dependencies
    IN  CASE found.failed -> found
          [] ~ found.failed /\ Restricted(pkg) -> [found EXCEPT !.failed = TRUE]
          [] ~ found.failed /\ ~ Restricted(pkg) /\ pkg \in DOMAIN found.manifests -> linked
          [] OTHER ->
               IF ~ HasManifest(files, linked, pkg) THEN [linked EXCEPT !.failed = TRUE]
               ELSE LET manifest == ReadManifest(files, pkg)
                    IN  SnapshotAll([linked EXCEPT !.manifests = (pkg :> manifest) @@ @],
                                    files, lock, locked, manifest, pkg)

(* The loop over the dependencies of one manifest; locked holds the entries *)
(* of the lock file for them.                                               *)
SnapshotAll(snap, files, lock, locked, manifest, parent) ==
  FoldLeft(LAMBDA s, n : SnapshotRecursive(s, files, lock,
                                           IF n \in DOMAIN locked THEN <<locked[n]>> ELSE <<>>,
                                           manifest[n], parent),
           snap, SortedNames(manifest))

(* Snapshot::new_with_lock. *)
Snapshot(files, root, lock) ==
  SnapshotAll(NewSnapshot(root, files.fetched), files, lock, lock.dependencies, root, RootPkg)

(* The git and path packages of the snapshot, without the root. *)
SnapshotPackages(snap) == {snap.dependency[d] : d \in DOMAIN snap.dependency}

AllIndexDeps(snap) == UNION {IndexDepsOf(snap.manifests[p]) : p \in DOMAIN snap.manifests}

(***************************************************************************)
(* Version resolution                                                      *)
(***************************************************************************)

Bucket(id, version) == [id |-> id, version |-> version]

BucketOfDep(dep) == Bucket(dep.id, BucketOf(dep.req))

VersionsOf(index, id) == {p.version : p \in {q \in index : q.id = id}}

Known(index, id, v) == v \in VersionsOf(index, id)

(* PackageIndex::package, for a version the index has. *)
IndexPackage(index, id, v) == CHOOSE p \in index : p.id = id /\ p.version = v

(* The index packages of a lock file, by bucket. *)
LockedVersions(lock) ==
  LET entries == {lock.packages[e].precise : e \in DOMAIN lock.packages}
      picked  == {p \in entries : p.kind = "Index"}
  IN  {<<Bucket(p.id, BucketOfVersion(p.version)), p.version>> : p \in picked}

(* The git and path packages the solver reaches from the root. They have    *)
(* one version each and the highest priority, so their index dependencies   *)
(* are what the solver starts from.                                         *)
RECURSIVE Reached(_, _)
Reached(snap, pkgs) ==
  LET next == pkgs \cup {snap.dependency[d] : d \in {x \in DOMAIN snap.dependency : x[1] \in pkgs}}
  IN  IF next = pkgs THEN pkgs ELSE Reached(snap, next)

StartingDeps(snap) == UNION {IndexDepsOf(snap.manifests[p]) : p \in Reached(snap, {RootPkg})}

(* What is asked of the index when the buckets of picks have their versions *)
(* (get_dependencies, collect_intersections).                               *)
Asked(reg, picks) ==
  reg.start \cup
  UNION {LET deps == IndexPackage(reg.index, b.id, picks[b]).dependencies
         IN  {deps[n] : n \in DOMAIN deps} : b \in DOMAIN picks}

Fits(asked, bucket, v) == \A dep \in asked : BucketOfDep(dep) = bucket => InRange(dep.req, v)

(* The versions choose_version may return for a bucket, the locked one aside. *)
Candidates(reg, asked, bucket) ==
  {v \in VersionsOf(reg.index, bucket.id) : InBucket(bucket.version, v) /\ Fits(asked, bucket, v)}

(* choose_version: the locked version if it is in the range, whether or not *)
(* the index has it, else the least version of the index.                   *)
choose_version(reg, asked, bucket) ==
  LET locked == {l[2] : l \in {x \in reg.locked : x[1] = bucket /\ Fits(asked, bucket, x[2])}}
      free   == Candidates(reg, asked, bucket)
  IN  IF locked # {} THEN <<Least(locked)>>
      ELSE IF free # {} THEN <<Least(free)>> ELSE <<>>

Pending(asked, picks) == {BucketOfDep(dep) : dep \in asked} \ DOMAIN picks

Consistent(asked, picks) == \A b \in DOMAIN picks : Fits(asked, b, picks[b])

(* Every assignment of versions that satisfies all that is asked. *)
RECURSIVE Solutions(_, _)
Solutions(reg, picks) ==
  LET asked == Asked(reg, picks)
      open  == Pending(asked, picks)
  IN  IF ~ Consistent(asked, picks) THEN {}
      ELSE IF open = {} THEN {picks}
      ELSE LET b == CHOOSE x \in open : TRUE
           IN  UNION {Solutions(reg, (b :> v) @@ picks) : v \in Candidates(reg, asked, b)}

(* prioritize: packages with a single version come first. *)
prioritize(open) ==
  LET single == {b \in open : b.version.kind = "Prerelease"}
  IN  IF single # {} THEN single ELSE open

(* pubgrub::resolve (external). It decides the packages in some order that  *)
(* respects their priority and takes the version it is given as long as     *)
(* there is no conflict. After a conflict it goes back, and finds some      *)
(* solution if there is one. A version the index does not have is an error. *)
Failed == <<>>

RECURSIVE Solve(_, _)
Solve(reg, picks) ==
  LET asked    == Asked(reg, picks)
      open     == Pending(asked, picks)
      all      == Solutions(reg, Nothing)
      conflict == {<<x>> : x \in all} \cup
                  IF all = {} \/ \E l \in reg.locked : ~ Known(reg.index, l[1].id, l[2])
                    THEN {Failed} ELSE {}
      Decide(b) ==
        LET v == choose_version(reg, asked, b)
        IN  IF v = <<>> THEN conflict
            ELSE IF ~ Known(reg.index, b.id, v[1]) THEN {Failed}
            ELSE Solve(reg, (b :> v[1]) @@ picks)
  IN  IF ~ Consistent(asked, picks) THEN conflict
      ELSE IF open = {} THEN {<<picks>>}
      ELSE UNION {Decide(b) : b \in prioritize(open)}

(* resolve_with_lock: the resolutions it may return, and Failed. *)
resolve_with_lock(snap, index, lock) ==
  LET reg == [start |-> StartingDeps(snap), index |-> index, locked |-> LockedVersions(lock)]
      Picked(s) == {IndexPkg(b.id, s[1][b]) : b \in DOMAIN s[1]}
  IN  {IF s = Failed THEN Failed
       ELSE <<[snap |-> snap, index |-> index, index_packages |-> Picked(s)]>> :
       s \in Solve(reg, Nothing)}

(* copy_from_lock: every index package the lock file mentions. *)
copy_from_lock(snap, index, lock) ==
  [snap |-> snap, index |-> index,
   index_packages |-> {IndexPkg(l[1].id, l[2]) : l \in LockedVersions(lock)}]

(***************************************************************************)
(* The resolved packages                                                   *)
(***************************************************************************)

(* The first version of the package, whatever is asked (used as a mutation). *)
index_dep_first(res, dep) ==
  LET found == {p.version : p \in {q \in res.index_packages : q.id = dep.id}}
  IN  IF found = {} THEN <<>> ELSE <<Least(found)>>

(* index_dep_version: the first version that matches, in increasing order.  *)
(* There may be none, and then the lookup panics.                           *)
index_dep_version(res, dep) ==
  LET found == {p.version : p \in {q \in res.index_packages : q.id = dep.id /\ Matches(dep.req, q.version)}}
  IN  IF found = {} THEN <<>> ELSE <<Least(found)>>

(* Resolution::precise, for a dependency of the root. The path is the one   *)
(* the manifest gives, not a normalized one.                                *)
precise(res, dep) ==
  CASE dep.kind = "Git"   -> <<GitPkg(res.snap.git[dep.spec], dep.spec.path)>>
    [] dep.kind = "Path"  -> <<PathPkg(dep.path)>>
    [] dep.kind = "Index" -> LET v == index_dep_version(res, dep)
                             IN  IF v = <<>> THEN <<>> ELSE <<IndexPkg(dep.id, v[1])>>

(* The manifest of a package of the resolution. *)
ManifestOf(res, pkg) ==
  IF pkg.kind = "Index" THEN IndexPackage(res.index, pkg.id, pkg.version).dependencies
                        ELSE res.snap.manifests[pkg]

(* The package behind a dependency of pkg (sorted_dependencies). *)
Target(res, pkg, dep) ==
  IF dep.kind = "Index" THEN precise(res, dep) ELSE <<res.snap.dependency[<<pkg, dep>>]>>

(* sorted_dependencies(pkg) returns an error: the index lacks the package.  *)
Missing(res, pkg) == pkg.kind = "Index" /\ ~ Known(res.index, pkg.id, pkg.version)

(* sorted_dependencies(pkg) panics: the package is not in the snapshot, or  *)
(* no version of the resolution matches.                                    *)
Unfit(res, pkg) ==
  \/ pkg.kind # "Index" /\ pkg \notin DOMAIN res.snap.manifests
  \/ /\ ~ Missing(res, pkg)
     /\ LET m == ManifestOf(res, pkg) IN \E n \in DOMAIN m : Target(res, pkg, m[n]) = <<>>

sorted_dependencies(res, pkg) ==
  LET m == ManifestOf(res, pkg) IN [n \in DOMAIN m |-> Target(res, pkg, m[n])[1]]

AllPackages(res) == SnapshotPackages(res.snap) \cup res.index_packages

(* with_abs_path, on paths relative to the root package. *)
WithAbsPath(pkg) == IF pkg.kind = "Path" THEN PathPkg(Normalized(pkg.path)) ELSE pkg

(* package_map: where each name leads in the root and in every package. *)
package_map(res, root) ==
  [top |-> [n \in DOMAIN root |-> WithAbsPath(precise(res, root[n])[1])],
   packages |-> [p \in AllPackages(res) |-> sorted_dependencies(res, p)]]
=============================================================================
