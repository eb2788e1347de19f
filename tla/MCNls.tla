------------------------------- MODULE MCNls -------------------------------
(***************************************************************************)
(* Two documents, d1 importing d2; d2 is on disk, d1 is not.               *)
(***************************************************************************)
EXTENDS Nls

CONSTANTS d1, d2, i1, i2, i3

MCFiles == {d1, d2}
MCIds == {i1, i2, i3}
MCDeps == [x \in MCFiles |-> IF x = d1 THEN {d1, d2} ELSE {d2}]
MCOnDisk == {d2}
MCMethod == [x \in MCIds |-> CASE x = i1 -> "position"
                               [] x = i2 -> "eval"
                               [] x = i3 -> "shutdown"]
=============================================================================
