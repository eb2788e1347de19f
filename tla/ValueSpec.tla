----------------------------- MODULE ValueSpec ------------------------------
(***************************************************************************)
(* What values promise: a variable holds a tree, and an operation changes  *)
(* the tree of one variable, or moves a subtree to or from another one.    *)
(* Nothing is said of blocks, reference counts, copies or inline values.   *)
(* Only thunks have an identity: their content is in a store, everyone who *)
(* holds a thunk sees it change, and a thunk that cannot be reached may go.*)
(***************************************************************************)
EXTENDS Integers, SequencesExt

CONSTANTS Vars, MaxLen, Numbers, PosIdx, NONE, Ids,
          Atoms,        \* tags of trees with neither number nor subtrees
          ScalarTags, WrapperTags, ContainerTags

VARIABLE values   \* tree: the tree of each variable; held: content taken out
                  \* of a value; store: the content of each thunk

Node(tag, pos, n, kids) == [tag |-> tag, pos |-> pos, n |-> n, kids |-> kids]
NoTree == Node("None", NONE, 0, << >>)
ThunkOf(i) == [tag |-> "Thunk", id |-> i, kids |-> << >>]

RECURSIVE Thunks(_), Closure(_, _)
Thunks(t) == IF t.tag = "Thunk" THEN {t.id}
             ELSE UNION {Thunks(t.kids[i]) : i \in DOMAIN t.kids}
Closure(st, S) ==
  LET T == S \cup UNION {Thunks(st[i]) : i \in S} IN IF T = S THEN S ELSE Closure(st, T)

\* The thunks that can be reached.
Live(tr, h, st) == Closure(st, Thunks(h) \cup UNION {Thunks(tr[x]) : x \in Vars})

\* An operation relates the values v before it to the values w after it.
Become(w, tr, h, st) ==
  /\ w.held = h /\ w.tree = tr
  /\ \A i \in Ids : w.store[i] = st[i] \/ (w.store[i] = NoTree /\ i \notin Live(tr, h, st))

With(v, x, t) == [v.tree EXCEPT ![x] = t]
Bound(v, x) == v.tree[x] # NoTree

Init == values = [tree |-> [x \in Vars |-> NoTree], held |-> NoTree, store |-> [i \in Ids |-> NoTree]]

Bind(v, w, x) ==
  /\ ~Bound(v, x)
  /\ \E tag \in Atoms \cup ScalarTags \cup ContainerTags, p \in PosIdx, n \in Numbers :
       /\ tag \notin ScalarTags => n = 0
       /\ Become(w, With(v, x, Node(tag, p, n, << >>)), v.held, v.store)

Wrap(v, w, x) ==
  /\ Bound(v, x)
  /\ \E tag \in WrapperTags, p \in PosIdx :
       Become(w, With(v, x, Node(tag, p, 0, <<v.tree[x]>>)), v.held, v.store)

Delay(v, w, x) ==
  /\ Bound(v, x)
  /\ \E i \in Ids, p \in PosIdx :
       /\ v.store[i] = NoTree
       /\ Become(w, With(v, x, ThunkOf(i)), v.held, [v.store EXCEPT ![i] = Node("Content", p, 0, <<v.tree[x]>>)])

Copy(v, w, x, y) == Bound(v, x) /\ ~Bound(v, y) /\ Become(w, With(v, y, v.tree[x]), v.held, v.store)
Forget(v, w, x) == Bound(v, x) /\ Become(w, With(v, x, NoTree), v.held, v.store)

\* A tree with one change, and what the change makes of the tree s of another
\* variable.
Changes(t, s) ==
  {<<[t EXCEPT !.n = n], s>> : n \in IF t.tag \in ScalarTags \cup {"Record"} THEN Numbers ELSE {}}
  \cup (IF t.tag \in ContainerTags /\ Len(t.kids) < MaxLen /\ s # NoTree
        THEN {<<[t EXCEPT !.kids = Append(@, s)], NoTree>>} ELSE {})
  \cup (IF t.tag \in ContainerTags /\ t.kids # << >> /\ s = NoTree
        THEN {<<[t EXCEPT !.kids = Front(@)], Last(t.kids)>>} ELSE {})
  \cup (IF t.tag \in WrapperTags \cup {"Content"} /\ s # NoTree
        THEN {<<[t EXCEPT !.kids = <<s>>], t.kids[1]>>} ELSE {})

Change(v, w, x, y) ==
  IF v.tree[x].tag = "Thunk"
  THEN \E c \in Changes(v.store[v.tree[x].id], v.tree[y]) :
         Become(w, With(v, y, c[2]), v.held, [v.store EXCEPT ![v.tree[x].id] = c[1]])
  ELSE \E c \in Changes(v.tree[x], v.tree[y]) : Become(w, [With(v, x, c[1]) EXCEPT ![y] = c[2]], v.held, v.store)

ChangeHeld(v, w, y) ==
  \E c \in Changes(v.held, v.tree[y]) : Become(w, With(v, y, c[2]), c[1], v.store)

\* A thunk that others hold keeps its position: the variable gets a copy.
Place(v, w, x, p) ==
  /\ Bound(v, x)
  /\ IF v.tree[x].tag # "Thunk" THEN Become(w, With(v, x, [v.tree[x] EXCEPT !.pos = p]), v.held, v.store)
     ELSE LET i == v.tree[x].id
              moved == [v.store[i] EXCEPT !.pos = p]
          IN  \/ /\ i \notin Live(With(v, x, NoTree), v.held, v.store)
                 /\ Become(w, v.tree, v.held, [v.store EXCEPT ![i] = moved])
              \/ \E j \in Ids : /\ v.store[j] = NoTree
                                /\ Become(w, With(v, x, ThunkOf(j)), v.held, [v.store EXCEPT ![j] = moved])

Take(v, w, x) ==
  /\ Bound(v, x) /\ v.tree[x].tag \notin Atoms \cup {"Thunk"} /\ v.held = NoTree
  /\ Become(w, With(v, x, NoTree), v.tree[x], v.store)
Put(v, w, x) == ~Bound(v, x) /\ v.held # NoTree /\ Become(w, With(v, x, v.held), NoTree, v.store)

\* A record that is put without a position is closed if it is empty.
PutPosless(v, w, x) ==
  /\ ~Bound(v, x) /\ v.held.tag = "Record"
  /\ Become(w, With(v, x, [v.held EXCEPT !.pos = NONE, !.n = IF v.held.kids = << >> THEN 0 ELSE @]),
            NoTree, v.store)
Lose(v, w) == Become(w, v.tree, NoTree, v.store)

Step(v, w) ==
  \/ \E x \in Vars : \/ Bind(v, w, x) \/ Wrap(v, w, x) \/ Delay(v, w, x) \/ Forget(v, w, x)
                     \/ Take(v, w, x) \/ Put(v, w, x) \/ PutPosless(v, w, x) \/ ChangeHeld(v, w, x)
  \/ \E x, y \in Vars : x # y /\ (Copy(v, w, x, y) \/ Change(v, w, x, y))
  \/ \E x \in Vars, p \in PosIdx : Place(v, w, x, p)
  \/ Lose(v, w)
  \/ Become(w, v.tree, v.held, v.store)
Next == \E v \in {values}, w \in {values'} : Step(v, w)

Spec == Init /\ [][Next]_values
=============================================================================
