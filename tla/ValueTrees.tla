----------------------------- MODULE ValueTrees -----------------------------
(***************************************************************************)
(* The memory of values implements trees: what each word of ValueHeap      *)
(* stands for, and the specification that the operations implement.        *)
(***************************************************************************)
EXTENDS ValueHeap, SequencesExt, TLC

Data(a) == [i \in 1 .. blocks[a].len |-> cell[Slot(a, i)]]
IsDropped(a) == a \in Range(drops) \/ blocks[a] = Free

RECURSIVE TreeOf(_)
Trees(ws) == [i \in DOMAIN ws |-> TreeOf(ws[i])]
TreeOf(w) ==
  IF w = None THEN [tag |-> "None", pos |-> NONE, n |-> 0, kids |-> << >>]
  ELSE IF content_ref(w).tag = "Thunk" THEN [tag |-> "Thunk", id |-> w.addr, kids |-> << >>]
  ELSE [tag |-> content_ref(w).tag, pos |-> pos_idx(w), n |-> content_ref(w).n,
        kids |-> IF IsPointer(w) THEN Trees(Data(w.addr)) ELSE << >>]

ContentOf(a, tag) ==
  IF IsDropped(a) THEN TreeOf(None)
  ELSE [tag |-> tag, pos |-> blocks[a].pos, n |-> blocks[a].n, kids |-> Trees(Data(a))]

Values == INSTANCE ValueSpec WITH
  Ids <- Addr,
  Atoms <- Inlines \ {"EmptyArray", "EmptyRecord"},
  values <- [tree |-> [x \in Vars |-> TreeOf(cell[x])],
             held |-> ContentOf(Own, TagOf(Own)),
             store |-> [a \in Addr |-> IF TagOf(a) = "Thunk" THEN ContentOf(a, "Content")
                                      ELSE TreeOf(None)]]

\* Values are trees: whatever is shared, an operation on one variable is seen
\* by no other variable but through a thunk (content_make_mut and with_pos_idx
\* copy what is shared, lenses copy or move), a copy is the same tree, an empty
\* container may be inline or not, and a thunk that can be reached is kept.
ImplementsTrees == Values!Spec

\* Variables are interchangeable, and so are addresses.
Symmetric == Permutations(Vars) \cup Permutations(Addr)
=============================================================================
