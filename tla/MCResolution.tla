---------------------------- MODULE MCResolution ----------------------------
(* A package with a path package p, a git repository and two index packages *)
(* i and j.                                                                 *)
EXTENDS Locking

Pkg(id, v, deps) == [id |-> id, version |-> v, dependencies |-> deps]

V(major, minor) == SemVer(major, minor, 0, 0)

Any1   == Compatible(1, Absent, Absent)
From11 == Compatible(1, 1, Absent)

I == IndexDep("i", Any1)
J == IndexDep("j", Any1)
G == GitDep("main", <<>>)
P == PathDep(<<"p">>)

i10 == Pkg("i", V(1, 0), Nothing)
i11 == Pkg("i", V(1, 1), Nothing)
i20 == Pkg("i", V(2, 0), Nothing)
j10 == Pkg("j", V(1, 0), 1 :> IndexDep("i", From11))
j11 == Pkg("j", V(1, 1), 1 :> IndexDep("i", Compatible(2, Absent, Absent)))

MCPublished == {i10, i11, j10}
MCUniverse  == MCPublished \cup {i20, j11}

(* Two commits: the second gains a package below it that needs j. *)
MCCommits ==
  (1 :> (<<>> :> (1 :> I))) @@
  (2 :> ((<<>> :> (2 :> PathDep(<<"sub">>))) @@ (<<"sub">> :> (1 :> J))))

MCHeads == "main" :> <<1, 2>>

Plain ==
  { 1 :> I,
    (1 :> I) @@ (2 :> J),
    (1 :> IndexDep("i", Exact(V(1, 0)))) @@ (2 :> P),
    3 :> G,
    (1 :> G) @@ (2 :> P),
    (1 :> G) @@ (2 :> P) @@ (3 :> G) }

MCPathManifests ==
  <<"p">> :> { Nothing, 1 :> IndexDep("i", From11), (1 :> G) @@ (2 :> J), 3 :> PathDep(<<Up>>) }

(* Requirements that the resolver and the lookups read differently, a path  *)
(* that is not normalized, and a path package that leads back to the root.  *)
Corners ==
  { (1 :> IndexDep("i", Compatible(1, 0, 0))) @@ (2 :> J),
    2 :> PathDep(<<".", "p">>) }

MCRoots == Plain \cup Corners
=============================================================================
