------------------------------- MODULE Vector -------------------------------
(***************************************************************************)
(* The persistent vector (vector.rs) and its slices (slice.rs).            *)
(***************************************************************************)
EXTENDS Integers, SequencesExt, FiniteSetsExt

-----------------------------------------------------------------------------
(***************************************************************************)
(* The persistent vector of vector/src/vector.rs: a tree with branching    *)
(* factor N, packed to the left, all leaves at the same distance from the  *)
(* root.  Nodes are values here: Rc::make_mut gives a writer a node of its *)
(* own, so sharing between clones cannot be observed.                      *)
(*                                                                         *)
(* An Option is a sequence of length 0 or 1.  Indices start at 0, as in    *)
(* the code; the children of a node are a TLA+ sequence.                   *)
(***************************************************************************)
CONSTANT N     \* branching factor; a power of two in the code

Leaf(data) == [data |-> data]
Interior(children) == [children |-> children]
IsLeaf(node) == "data" \in DOMAIN node

Take(s, n) == SubSeq(s, 1, IF n < Len(s) THEN n ELSE Len(s))
Drop(s, n) == SubSeq(s, n + 1, Len(s))

\* The child of a node at this height that the global index belongs to.
extract_index(idx, height) == (idx \div N ^ height) % N

\* Length zero to N has height zero, N + 1 to N^2 height one, ...
height_for_length(length) ==
  LET m == Max({length - 1, 1}) IN Max({h \in 0..m : N ^ h <= m})

NewVector == [root |-> <<>>, length |-> 0, height |-> 0]

-----------------------------------------------------------------------------
(* Nodes.                                                                  *)

RECURSIVE NodeElems(_)
NodeElems(node) ==
  IF IsLeaf(node) THEN node.data
  ELSE LET upTo[i \in 0..Len(node.children)] ==
             IF i = 0 THEN <<>> ELSE upTo[i - 1] \o NodeElems(node.children[i])
       IN  upTo[Len(node.children)]

RECURSIVE NodeGet(_, _, _)
NodeGet(node, height, idx) ==
  LET bucket == extract_index(idx, height)
  IN  IF IsLeaf(node) THEN Take(Drop(node.data, idx % N), 1)
      ELSE IF bucket < Len(node.children)
           THEN NodeGet(node.children[bucket + 1], height - 1, idx)
           ELSE <<>>

\* A node of this height that holds one element.
RECURSIVE Spine(_, _)
Spine(height, elt) ==
  IF height = 0 THEN Leaf(<<elt>>) ELSE Interior(<<Spine(height - 1, elt)>>)

RECURSIVE NodeSet(_, _, _, _)
NodeSet(node, height, idx, elt) ==
  LET i == extract_index(idx, height) + 1
  IN  IF IsLeaf(node)
      THEN Leaf(IF i <= Len(node.data) THEN [node.data EXCEPT ![i] = elt]
                ELSE Append(node.data, elt))
      ELSE Interior(
             IF i <= Len(node.children)
             THEN [node.children EXCEPT ![i] = NodeSet(@, height - 1, idx, elt)]
             ELSE Append(node.children, Spine(height - 1, elt)))

IsEmptyNode(node) ==
  IF IsLeaf(node) THEN node.data = <<>> ELSE node.children = <<>>

\* The node without its last element; a child left empty goes as well.
RECURSIVE NodePop(_)
NodePop(node) ==
  IF IsLeaf(node) THEN Leaf(Take(node.data, Len(node.data) - 1))
  ELSE LET n    == Len(node.children)
           last == NodePop(node.children[n])
           rest == Take(node.children, n - 1)
       IN  Interior(IF IsEmptyNode(last) THEN rest ELSE Append(rest, last))

\* The element that pop returns.
RECURSIVE NodeLast(_)
NodeLast(node) ==
  IF IsLeaf(node) THEN Last(node.data) ELSE NodeLast(Last(node.children))

RECURSIVE NodeTruncate(_, _, _)
NodeTruncate(node, height, len) ==
  LET full  == len \div N ^ height
      extra == len % N ^ height
      kept  == Take(node.children, full)
  IN  IF IsLeaf(node) THEN Leaf(Take(node.data, len))
      ELSE Interior(
             IF extra = 0 THEN kept
             ELSE Append(kept,
                    NodeTruncate(node.children[full + 1], height - 1, extra)))

-----------------------------------------------------------------------------
(* Vectors.                                                                *)

Elems(v) == IF v.root = <<>> THEN <<>> ELSE NodeElems(v.root[1])

VecIsFull(v) == v.root = <<>> \/ v.length = N ^ (v.height + 1)

VecGet(v, idx) == IF v.root = <<>> THEN <<>> ELSE NodeGet(v.root[1], v.height, idx)

VecSet(v, idx, elt) == [v EXCEPT !.root = <<NodeSet(@[1], v.height, idx, elt)>>]

add_level(v) ==
  IF v.root = <<>> THEN [v EXCEPT !.root = <<Leaf(<<>>)>>]
  ELSE [v EXCEPT !.root = <<Interior(@)>>, !.height = @ + 1]

VecPush(v, elt) ==
  LET w == IF VecIsFull(v) THEN add_level(v) ELSE v
  IN  [VecSet(w, w.length, elt) EXCEPT !.length = @ + 1]

\* The vector without its last element.  A root left with one child is
\* replaced by that child.
VecPop(v) ==
  LET root == NodePop(v.root[1])
      w    == [v EXCEPT !.root = <<root>>, !.length = @ - 1]
  IN  IF v.length = 0 THEN v
      ELSE IF ~IsLeaf(root) /\ Len(root.children) = 1
           THEN [w EXCEPT !.root = root.children, !.height = @ - 1]
           ELSE w

RECURSIVE FirstAt(_, _)
FirstAt(node, levels) ==
  IF levels = 0 THEN node ELSE FirstAt(node.children[1], levels - 1)

VecTruncate(v, len) ==
  LET height == Min({height_for_length(len), v.height})
      root   == FirstAt(v.root[1], v.height - height)
  IN  IF len >= v.length THEN v
      ELSE [root |-> <<NodeTruncate(root, height, len)>>, length |-> len, height |-> height]

\* extend_rec: the children of a node of this height after as many of the
\* elements s as fit below it have been added, and the elements left over.
RECURSIVE ExtendRec(_, _, _)
RECURSIVE ExtendNew(_, _, _)
ExtendRec(children, height, s) ==
  LET n      == Len(children)
      last   == children[n]
      room   == N - Len(last.data)
      below  == ExtendRec(last.children, height - 1, s)
      filled ==
        IF n = 0 THEN [children |-> children, left |-> s]
        ELSE IF height = 1
        THEN [children |-> [children EXCEPT ![n] = Leaf(@.data \o Take(s, room))],
              left     |-> Drop(s, room)]
        ELSE [children |-> [children EXCEPT ![n] = Interior(below.children)],
              left     |-> below.left]
  IN  ExtendNew(filled.children, height, filled.left)
ExtendNew(children, height, s) ==
  LET below == ExtendRec(<<>>, height - 1, s)
  IN  IF Len(children) = N \/ s = <<>> THEN [children |-> children, left |-> s]
      ELSE IF height = 1
      THEN ExtendNew(Append(children, Leaf(Take(s, N))), height, Drop(s, N))
      ELSE ExtendNew(Append(children, Interior(below.children)), height, below.left)

\* One round of the loop of extend; a level is added when elements remain.
RECURSIVE ExtendLoop(_, _)
ExtendLoop(v, s) ==
  LET root  == v.root[1]
      room  == N - Len(root.data)
      round == IF IsLeaf(root)
               THEN [node |-> Leaf(root.data \o Take(s, room)), left |-> Drop(s, room)]
               ELSE LET r == ExtendRec(root.children, v.height, s)
                    IN  [node |-> Interior(r.children), left |-> r.left]
      w     == [v EXCEPT !.root = <<round.node>>, !.length = @ + Len(s) - Len(round.left)]
  IN  IF s = <<>> THEN v
      ELSE IF round.left = <<>> THEN w ELSE ExtendLoop(add_level(w), round.left)

VecExtend(v, s) ==
  ExtendLoop(IF s # <<>> /\ v.root = <<>> THEN add_level(v) ELSE v, s)

VecFromIter(s) == VecExtend(NewVector, s)

-----------------------------------------------------------------------------
(* Iterators.  Iter, IterMut and IntoIter are the same walk; an iterator   *)
(* yields addresses here (paths from the root), so that the walk can be    *)
(* used to read and to write.                                              *)

RECURSIVE NodeAt(_, _)
NodeAt(node, path) ==
  IF path = <<>> THEN node ELSE NodeAt(node.children[Head(path)], Tail(path))

Addresses(node, path) ==
  [i \in 1..Len(IF IsLeaf(node) THEN node.data ELSE node.children) |-> Append(path, i)]

\* Go down `levels` levels from the node at `path`, to its first leaf.
RECURSIVE Descend(_, _, _, _)
Descend(root, path, stack, levels) ==
  LET kids == Addresses(NodeAt(root, path), path)
  IN  IF levels = 0 THEN [stack |-> stack, leaf |-> kids]
      ELSE Descend(root, Head(kids), Append(stack, Tail(kids)), levels - 1)

\* iter_starting_at, iter_mut_starting_at and into_iter_starting_at.
RECURSIVE StartDescend(_, _, _, _, _)
StartDescend(root, path, stack, height, idx) ==
  LET node == NodeAt(root, path)
      kids == Drop(Addresses(node, path), extract_index(idx, height))
  IN  IF IsLeaf(node) THEN [stack |-> stack, leaf |-> kids]
      ELSE StartDescend(root, Head(kids), Append(stack, Tail(kids)), height - 1, idx)

\* An iterator that starts at the right place of the first leaf only.
IterStartingInFirstLeaf(v, idx) ==
  IF idx = v.length THEN [stack |-> <<>>, leaf |-> <<>>]
  ELSE StartDescend(v.root[1], <<>>, <<>>, v.height, idx % N)

IterStartingAt(v, idx) ==
  IF idx = v.length THEN [stack |-> <<>>, leaf |-> <<>>]
  ELSE StartDescend(v.root[1], <<>>, <<>>, v.height, idx)

\* The iterator once an exhausted leaf has been replaced by the next one:
\* exhausted levels are popped, the walk goes down again to the old depth.
NextLeaf(root, it) ==
  LET live == {i \in 1..Len(it.stack) : it.stack[i] # <<>>}
      top  == Max(live)
      iter == it.stack[top]
  IN  IF live = {} THEN it
      ELSE Descend(root, Head(iter), Append(Take(it.stack, top - 1), Tail(iter)),
                   Len(it.stack) - top)

\* The addresses that the iterator yields, at most n of them.
RECURSIVE Yielded(_, _, _)
Yielded(v, it, n) ==
  LET at == IF it.leaf = <<>> /\ it.stack # <<>> THEN NextLeaf(v.root[1], it) ELSE it
  IN  IF n = 0 \/ at.leaf = <<>> THEN <<>>
      ELSE <<Head(at.leaf)>> \o Yielded(v, [at EXCEPT !.leaf = Tail(@)], n - 1)

ElemAt(v, path) == NodeAt(v.root[1], Take(path, Len(path) - 1)).data[path[Len(path)]]

\* What reading through an iterator gives.
Iterated(v, idx, n) ==
  LET ps == Yielded(v, IterStartingAt(v, idx), n)
  IN  [i \in 1..Len(ps) |-> ElemAt(v, ps[i])]

RECURSIVE PathSet(_, _, _)
PathSet(node, path, elt) ==
  IF IsLeaf(node) THEN Leaf([node.data EXCEPT ![path[1]] = elt])
  ELSE Interior([node.children EXCEPT ![path[1]] = PathSet(@, Tail(path), elt)])

\* What writing elt through the n first items of a mutable iterator leaves.
Overwritten(v, idx, n, elt) ==
  LET write(w, path) == [w EXCEPT !.root = <<PathSet(@[1], path, elt)>>]
  IN  FoldLeft(write, v, Yielded(v, IterStartingAt(v, idx), n))

-----------------------------------------------------------------------------
(***************************************************************************)
(* vector/src/slice.rs: a window [start, end) on a persistent vector.      *)
(* Slicing moves the window; the elements outside it stay in the vector    *)
(* until the end of the slice is next modified.                            *)
(***************************************************************************)
DefaultSlice == [vec |-> NewVector, start |-> 0, end |-> 0]

SliceLen(s) == s.end - s.start

SliceGet(s, idx) == VecGet(s.vec, s.start + idx)

SliceSet(s, idx, elt) == [s EXCEPT !.vec = VecSet(@, s.start + idx, elt)]

\* push without dropping what lies after the end of the window.
SlicePushAfterVector(s, elt) == [s EXCEPT !.vec = VecPush(@, elt), !.end = @ + 1]

SlicePush(s, elt) ==
  [s EXCEPT !.vec = VecPush(VecTruncate(@, s.end), elt), !.end = @ + 1]

\* The popped slice, and the element that pop returns.
SlicePop(s) ==
  IF SliceLen(s) = 0 THEN s
  ELSE [s EXCEPT !.vec = VecPop(VecTruncate(@, s.end)), !.end = @ - 1]

SlicePopped(s) ==
  IF SliceLen(s) = 0 THEN <<>> ELSE <<NodeLast(VecTruncate(s.vec, s.end).root[1])>>

SliceSlice(s, from, to) == [s EXCEPT !.start = @ + from, !.end = s.start + to]

SliceExtend(s, elts) ==
  LET v == VecExtend(VecTruncate(s.vec, s.end), elts)
  IN  [s EXCEPT !.vec = v, !.end = v.length]

SliceFromIter(elts) ==
  LET v == VecFromIter(elts) IN [vec |-> v, start |-> 0, end |-> v.length]

SliceIter(s) == Iterated(s.vec, s.start, SliceLen(s))

SliceOverwrite(s, elt) == [s EXCEPT !.vec = Overwritten(@, s.start, SliceLen(s), elt)]
=============================================================================
