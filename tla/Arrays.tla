------------------------------- MODULE Arrays -------------------------------
(***************************************************************************)
(* Nickel arrays: a slice of a persistent vector and the contracts that    *)
(* wait to be applied to its elements (eval/value/mod.rs, ArrayData), with *)
(* the primitive operations of eval/operation.rs on them and the           *)
(* operations of slices that other parts use.                              *)
(*                                                                         *)
(* An element is a value with the contracts it is wrapped in, in the order *)
(* of their application.  The function given to array/map is not tracked:  *)
(* what matters is that map applies the pending contracts.                 *)
(***************************************************************************)
EXTENDS Vector, FiniteSets

CONSTANTS Values,       \* element values
          Contracts,
          Polymorphic,  \* the contracts with a polymorphic subcontract
          Literals,     \* array literals of a program: sequences of values
          MaxLen,       \* bound on the length of the underlying vector
          MaxWrapped,   \* the bound once contracts are involved
          MaxCtrs       \* bound on the contracts an element is wrapped in

VARIABLE arr             \* the array

Element(v) == [v |-> v, ctrs |-> <<>>]

\* Container::Empty: the empty array inlined in the value, without a block.
EmptyArray == [inline |-> TRUE, array |-> DefaultSlice, pending |-> <<>>]

Block(slice, pending) == [inline |-> FALSE, array |-> slice, pending |-> pending]

NewArray(slice, pending) ==
  IF SliceLen(slice) = 0 THEN EmptyArray ELSE Block(slice, pending)

\* empty_array_block: an operation about to modify an array allocates it.
Allocated(a) == [a EXCEPT !.inline = FALSE]

apply_all(e, ctrs) == [e EXCEPT !.ctrs = @ \o ctrs]

iter_with_pending_contracts(a) ==
  LET es == SliceIter(a.array) IN [i \in DOMAIN es |-> apply_all(es[i], a.pending)]

\* Contracts are equal here when they are the same contract.
push_dedup(ctrs, c) == IF Contains(ctrs, c) THEN ctrs ELSE Append(ctrs, c)

\* Whether concatenated arrays may keep their contracts pending.
SamePending(a, b) ==
  /\ Len(a.pending) = Len(b.pending)
  /\ \A i \in DOMAIN a.pending :
       a.pending[i] \notin Polymorphic /\ a.pending[i] = b.pending[i]

ConcatOf(a, b) ==
  IF a.inline THEN b
  ELSE IF b.inline THEN a
  ELSE IF SamePending(a, b)
  THEN NewArray(SliceExtend(a.array, SliceIter(b.array)), a.pending)
  ELSE NewArray(SliceExtend(SliceFromIter(iter_with_pending_contracts(a)),
                            iter_with_pending_contracts(b)), <<>>)

\* array/at: an index that is not below the length is an error.
ArrayAt(a, n) ==
  IF a.inline \/ n >= SliceLen(a.array) THEN <<>>
  ELSE <<apply_all(SliceGet(a.array, n)[1], a.pending)>>

ArrayLiteral(s) == NewArray(SliceFromIter([i \in DOMAIN s |-> Element(s[i])]), <<>>)

\* Other arrays of the program: a literal, or a literal with a contract.
Others ==
  {ArrayLiteral(s) : s \in Literals} \cup
  {Block(SliceFromIter([i \in DOMAIN s |-> Element(s[i])]), <<c>>) :
     s \in Literals, c \in Contracts}

-----------------------------------------------------------------------------
(* Bounds of the model.                                                    *)

Applied(a) == {e.ctrs : e \in Range(Elems(a.array.vec))}

Bounded(a) ==
  /\ \A ctrs \in Applied(a) : Len(ctrs) <= MaxCtrs
  /\ a.array.vec.length <=
       IF a.pending # <<>> \/ Applied(a) \ {<<>>} # {} THEN MaxWrapped ELSE MaxLen

Become(a) == Bounded(a) /\ arr' = a

-----------------------------------------------------------------------------
(* Operations.                                                             *)

Init == arr = EmptyArray

ArrayConcat ==
  \E b \in Others : Become(ConcatOf(arr, b)) \/ Become(ConcatOf(b, arr))

\* array/slice; an index out of bounds is an error and changes nothing.
ArraySlice ==
  \E from, to \in 0..SliceLen(arr.array) :
    /\ from <= to
    /\ Become([Allocated(arr) EXCEPT !.array = SliceSlice(@, from, to)])

ArrayMap ==
  Become(IF arr.inline THEN arr
         ELSE NewArray(SliceFromIter(iter_with_pending_contracts(arr)), <<>>))

\* array/generate and literals build an array from an iterator.
ArrayGen == \E s \in Literals : Become(ArrayLiteral(s))

ContractArrayLazyApp ==
  \E c \in Contracts :
    Become([Allocated(arr) EXCEPT !.pending = push_dedup(@, c)])

Bare == arr.pending = <<>>

Push ==
  /\ Bare
  /\ \E v \in Values :
       Become([Allocated(arr) EXCEPT !.array = SlicePush(@, Element(v))])

Pop ==
  /\ Bare
  /\ Become([Allocated(arr) EXCEPT !.array = SlicePop(@)])

Set ==
  /\ Bare
  /\ \E v \in Values : \E i \in 0..SliceLen(arr.array) - 1 :
       Become([arr EXCEPT !.array = SliceSet(@, i, Element(v))])

IterMut ==
  /\ Bare
  /\ \E v \in Values : Become([arr EXCEPT !.array = SliceOverwrite(@, Element(v))])

Next ==
  \/ ArrayConcat \/ ArraySlice \/ ArrayMap \/ ArrayGen
  \/ ContractArrayLazyApp \/ Push \/ Pop \/ Set \/ IterMut

Spec == Init /\ [][Next]_arr

-----------------------------------------------------------------------------
(* Properties.                                                             *)

RECURSIVE IsPacked(_, _, _)
IsPacked(node, height, rightMost) ==
  IF IsLeaf(node) THEN height = 0 /\ (Len(node.data) = N \/ rightMost)
  ELSE LET n == Len(node.children)
       IN  /\ height > 0 /\ n \in 1..N
           /\ \A i \in 1..n - 1 : IsPacked(node.children[i], height - 1, FALSE)
           /\ IsPacked(node.children[n], height - 1, rightMost)

View(e, pending) == [v |-> e.v, ctrs |-> Range(e.ctrs) \cup Range(pending)]

ArrayView(a) ==
  LET es == SubSeq(Elems(a.array.vec), a.array.start + 1, a.array.end)
  IN  [i \in DOMAIN es |-> View(es[i], a.pending)]

\* Every way of reading an array gives the same elements: an iterator started
\* at any index yields the ones from that index on, in order; array/at yields
\* the element of its index with all its contracts, and an error past the last
\* one; pop returns the last one.
ReadsAgree ==
  LET s    == arr.array
      es   == Elems(s.vec)
      view == ArrayView(arr)
      len  == Len(view)
  IN  /\ \A idx \in 0..Len(es) : Iterated(s.vec, idx, Len(es)) = Drop(es, idx)
      /\ \A n \in 0..len - 1 : View(ArrayAt(arr, n)[1], <<>>) = view[n + 1]
      /\ \A n \in len..len + N : ArrayAt(arr, n) = <<>>
      /\ SlicePopped(s) = IF len = 0 THEN <<>> ELSE <<es[s.end]>>

OtherViews == {ArrayView(a) : a \in Others}
PlainViews == {[v |-> v, ctrs |-> {}] : v \in Values}

Abstract == INSTANCE ArraySpec WITH
  elems    <- ArrayView(arr),
  Operands <- OtherViews,
  NewElems <- PlainViews

\* Every operation on arrays does what it does to a plain sequence whose
\* elements carry their contracts: slicing, concatenation and pending
\* contracts neither lose nor add an element or a contract.
RefinesSequence == Abstract!Spec

\* The literals that TLC starts from: none, one node, several levels.
MCLiterals == {<<>>, <<"x">>, <<"x", "y", "x", "x", "y">>}
=============================================================================
