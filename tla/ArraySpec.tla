------------------------------ MODULE ArraySpec ------------------------------
(***************************************************************************)
(* What arrays promise: an array is a sequence of elements, each with the  *)
(* set of contracts it has been or will be checked against when it is      *)
(* read.  Nothing is said of trees, windows or pending contracts.          *)
(***************************************************************************)
EXTENDS Integers, SequencesExt

CONSTANTS Operands,     \* arrays that elems may be concatenated with
          Contracts,
          NewElems      \* elements that may be added or written

VARIABLE elems           \* the array

WithContract(e, c) == [e EXCEPT !.ctrs = @ \cup {c}]

Init == elems = <<>>

\* What an operation may make of the array s.
Results(s) ==
  LET n == Len(s) IN
  UNION {{t, s \o t, t \o s} : t \in Operands}
  \cup {SubSeq(s, i + 1, j) : i \in 0..n, j \in 0..n}   \* slices; pop
  \cup {[i \in 1..n |-> WithContract(s[i], c)] : c \in Contracts}
  \cup {Append(s, e) : e \in NewElems}
  \cup {[s EXCEPT ![i] = e] : i \in 1..n, e \in NewElems}
  \cup {[i \in 1..n |-> e] : e \in NewElems}

Next == elems' \in Results(elems)

Spec == Init /\ [][Next]_elems
=============================================================================
