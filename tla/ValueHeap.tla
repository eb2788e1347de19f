----------------------------- MODULE ValueHeap ------------------------------
(***************************************************************************)
(* The memory of Nickel values (core/src/eval/value/mod.rs and lens.rs).   *)
(*                                                                         *)
(* A NickelValue is a word: an inline value, or a pointer to a block with  *)
(* a tag, a reference count, a position and data.  The word is not a Rust  *)
(* reference: the code counts references, copies shared blocks before it   *)
(* changes them, moves the content out of blocks and frees them by hand.   *)
(*                                                                         *)
(* A cell is a place that holds a word: a variable of the program, or a    *)
(* slot in the data of a block.  Data is a number n (the number itself,    *)
(* the open flag of a record) and the words it owns; how the elements of   *)
(* an array are laid out is the matter of Arrays.                          *)
(* Own is content that a lens has moved out of its block and that the      *)
(* program holds directly.                                                 *)
(***************************************************************************)
EXTENDS Integers, Sequences, FiniteSets

CONSTANTS Vars,         \* variables of the program that hold values
          Addr,         \* addresses of blocks
          Own,
          MaxLen,       \* bound on the words in the data of a block
          Numbers,      \* what n may be
          PosIdx,       \* position indexes
          NONE,         \* the index of no position
          Inlines,      \* inline values
          ScalarTags,   \* tags of data without words
          WrapperTags,  \* tags of data with one word
          ContainerTags,
          MAX_REF_COUNT

DataTag == ScalarTags \cup WrapperTags \cup ContainerTags \cup {"Thunk"}

EmptyOf(tag) == IF tag = "Array" THEN "EmptyArray" ELSE "EmptyRecord"

Slots == 1 .. MaxLen
Blocks == Addr \cup {Own}
Slot(a, i) == [at |-> a, slot |-> i]
SlotsOf(a) == {Slot(a, i) : i \in Slots}
Cells == Vars \cup UNION {SlotsOf(a) : a \in Blocks}

\* No cell may be both a variable and in a block, a reference count cannot
\* be larger than the number of words in memory, and the inline values of empty
\* containers are those of the containers there are.
ASSUME HeapAssumption ==
  /\ IsFiniteSet(Vars) /\ IsFiniteSet(Addr) /\ Own \notin Addr
  /\ \A a \in Blocks : Vars \cap SlotsOf(a) = {}
  /\ MaxLen \in Nat \ {0} /\ MAX_REF_COUNT \in Nat /\ Cardinality(Cells) <= MAX_REF_COUNT
  /\ Numbers \subseteq Nat /\ 0 \in Numbers /\ NONE \in PosIdx
  /\ ContainerTags \subseteq {"Array", "Record"}
  /\ Inlines \cap {"EmptyArray", "EmptyRecord"} = {EmptyOf(t) : t \in ContainerTags}
  /\ ScalarTags \subseteq STRING /\ WrapperTags \subseteq STRING
  /\ (ScalarTags \cup WrapperTags) \cap {"Array", "Record", "Thunk", "Free"} = {}
  /\ ScalarTags \cap WrapperTags = {}

VARIABLES blocks,  \* the blocks in memory, and the content that is held
          cell,    \* the word in each cell
          drops    \* the blocks whose content is being dropped, innermost first

vars == <<blocks, cell, drops>>

\* Words.  None is a cell that holds nothing: a variable that is not bound
\* or that was moved from.
None == [tag |-> "None"]
Inline(v, p) == [tag |-> "Inline", inline |-> v, pos |-> p]
Pointer(a) == [tag |-> "Pointer", addr |-> a]

Word == {None} \cup {Inline(v, p) : v \in Inlines, p \in PosIdx} \cup {Pointer(a) : a \in Addr}

\* ValueBlockHeader and the data without its words, which are in cells.
Block(tag, count, p, n, len) == [tag |-> tag, count |-> count, pos |-> p, n |-> n, len |-> len]
Free == Block("Free", 0, NONE, 0, 0)
Header == [tag : DataTag \cup {"Free"}, count : Nat, pos : PosIdx, n : Numbers, len : 0 .. MaxLen]

IsPointer(w) == w.tag = "Pointer"
TagOf(a) == blocks[a].tag

\* content_ref: what a word shows of its data; an inline container shows an
\* empty one (Container::Empty).
ContainerOf(w) == IF w.inline = "EmptyArray" THEN "Array" ELSE "Record"
content_ref(w) ==
  IF IsPointer(w) THEN [tag |-> TagOf(w.addr), n |-> blocks[w.addr].n, len |-> blocks[w.addr].len]
  ELSE [tag |-> IF w.inline \in {"EmptyArray", "EmptyRecord"} THEN ContainerOf(w) ELSE w.inline,
        n |-> 0, len |-> 0]
pos_idx(w) == IF IsPointer(w) THEN blocks[w.addr].pos ELSE w.pos

-----------------------------------------------------------------------------
(* Reference counts.                                                       *)

inc_ref_count(bs, w) == IF IsPointer(w) THEN [bs EXCEPT ![w.addr].count = @ + 1] ELSE bs
dec_ref_count(bs, w) == IF IsPointer(w) THEN [bs EXCEPT ![w.addr].count = @ - 1] ELSE bs

\* Mutant: the last word of a block does not call drop_slow.
DecrementOnly(w) == blocks' = dec_ref_count(blocks, w) /\ UNCHANGED drops

\* Dropping a word: the last one of a block starts the drop of its data.
DropWord(w) ==
  LET bs == dec_ref_count(blocks, w)
  IN  /\ blocks' = bs
      /\ drops' = IF IsPointer(w) /\ bs[w.addr].count = 0 THEN <<w.addr>> \o drops ELSE drops

\* The words of a copied to b, which holds none: each is one more reference,
\* and the variable x gives up its reference to a for the word w.
Copied(c, a, b, x, w) ==
  [l \in Cells |-> IF l = x THEN w ELSE IF l \in SlotsOf(b) THEN c[Slot(a, l.slot)] ELSE c[l]]
\* Mutant: the copied words are not cloned.
CopiedBitwise(bs, c, a, d) ==
  IF bs[d] = Free THEN Free ELSE [bs[d] EXCEPT !.count = @ - (IF d = a THEN 1 ELSE 0)]
Recounted(bs, c, a, d) ==
  IF bs[d] = Free THEN Free
  ELSE [bs[d] EXCEPT !.count = @ + Cardinality({l \in SlotsOf(a) : c[l] = Pointer(d)})
                                 - (IF d = a THEN 1 ELSE 0)]

\* The words of a moved to b: no count changes.
Moved(c, a, b, x, w) ==
  [l \in Cells |-> IF l = x THEN w
                   ELSE IF l \in SlotsOf(b) THEN c[Slot(a, l.slot)]
                   ELSE IF l \in SlotsOf(a) THEN None ELSE c[l]]

\* encode: a new block is referenced once.
encode(bs, a, tag, p, n, len) == [bs EXCEPT ![a] = Block(tag, 1, p, n, len)]

\* make_unique and content_make_mut: the variable x is given its own copy b of
\* the block a.
strong_clone(x, a, b) ==
  [blocks |-> [d \in Blocks |-> IF d = b THEN [blocks[a] EXCEPT !.count = 1]
                                ELSE Recounted(blocks, cell, a, d)],
   cell |-> Copied(cell, a, b, x, Pointer(b)),
   at |-> b]
InPlace(a) == [blocks |-> blocks, cell |-> cell, at |-> a]

-----------------------------------------------------------------------------
(* Creation, clone and drop of values.                                     *)

Idle == drops = << >>
IsFree(a) == a \in Addr /\ blocks[a] = Free

Init ==
  /\ blocks = [a \in Blocks |-> Free]
  /\ cell = [l \in Cells |-> None]
  /\ drops = << >>

inline(x, v, p) ==
  /\ Idle /\ cell[x] = None
  /\ cell' = [cell EXCEPT ![x] = Inline(v, p)]
  /\ UNCHANGED <<blocks, drops>>

\* number, string, label, foreign_id, sealing_key, enum_tag, and the empty
\* containers that are not inlined: empty_array_block and empty_record_block.
NewBlock(x, a, tag, p, n) ==
  /\ Idle /\ cell[x] = None /\ IsFree(a)
  /\ tag \in ContainerTags => n = 0
  /\ blocks' = encode(blocks, a, tag, p, n, 0)
  /\ cell' = [cell EXCEPT ![x] = Pointer(a)]
  /\ UNCHANGED drops

\* enum_variant, custom_contract, typ, thunk: the value of x becomes the only
\* word of a new block.
WrapBlock(x, a, tag, p) ==
  /\ Idle /\ cell[x] # None /\ IsFree(a)
  /\ blocks' = encode(blocks, a, tag, p, 0, 1)
  /\ cell' = [cell EXCEPT ![x] = Pointer(a), ![Slot(a, 1)] = cell[x]]
  /\ UNCHANGED drops

clone(x, y) ==
  /\ Idle /\ cell[x] # None /\ cell[y] = None
  /\ blocks' = inc_ref_count(blocks, cell[x])
  /\ cell' = [cell EXCEPT ![y] = cell[x]]
  /\ UNCHANGED drops

drop(x) ==
  /\ Idle /\ cell[x] # None
  /\ DropWord(cell[x])
  /\ cell' = [cell EXCEPT ![x] = None]

\* drop_slow: the words of the data are dropped in order, each to the end
\* before the next, then the block is freed.  Own is not in a block: only its
\* words are dropped.
DropNext(a, i) ==
  /\ drops # << >> /\ a = Head(drops)
  /\ cell[Slot(a, i)] # None /\ \A j \in Slots : j < i => cell[Slot(a, j)] = None
  /\ DropWord(cell[Slot(a, i)])
  /\ cell' = [cell EXCEPT ![Slot(a, i)] = None]

dealloc(a) ==
  /\ drops # << >> /\ a = Head(drops)
  /\ \A i \in Slots : cell[Slot(a, i)] = None
  /\ blocks' = [blocks EXCEPT ![a] = Free]
  /\ drops' = Tail(drops)
  /\ UNCHANGED cell

-----------------------------------------------------------------------------
(* Mutation.                                                               *)

\* Mutant: shared containers are changed in place unless they are empty.
only_empty_copied(a) ==
  blocks[a].count = 1 \/ TagOf(a) = "Thunk" \/ (TagOf(a) \in ContainerTags /\ blocks[a].len > 0)

\* content_mut: a reference into the block if it is not shared, or a thunk.
content_mut(a) == blocks[a].count = 1 \/ TagOf(a) = "Thunk"

\* content_make_mut: a copy on write, but for thunks.
content_make_mut(x, b) ==
  IF content_mut(cell[x].addr) THEN InPlace(cell[x].addr)
  ELSE strong_clone(x, cell[x].addr, b)

\* What the holder of a mutable reference to the data does with it.
SetNumber(m, n) ==
  /\ m.blocks[m.at].tag \in ScalarTags \cup {"Record"}
  /\ blocks' = [m.blocks EXCEPT ![m.at].n = n]
  /\ cell' = m.cell

Push(m, y) ==
  LET len == m.blocks[m.at].len
  IN  /\ m.blocks[m.at].tag \in ContainerTags /\ len < MaxLen /\ m.cell[y] # None
      /\ blocks' = [m.blocks EXCEPT ![m.at].len = @ + 1]
      /\ cell' = [m.cell EXCEPT ![Slot(m.at, len + 1)] = m.cell[y], ![y] = None]

Pop(m, y) ==
  LET len == m.blocks[m.at].len
  IN  /\ m.blocks[m.at].tag \in ContainerTags /\ len > 0 /\ m.cell[y] = None
      /\ blocks' = [m.blocks EXCEPT ![m.at].len = @ - 1]
      /\ cell' = [m.cell EXCEPT ![Slot(m.at, len)] = None, ![y] = m.cell[Slot(m.at, len)]]

Swap(m, y) ==
  /\ m.blocks[m.at].tag \in WrapperTags \cup {"Thunk"} /\ m.cell[y] # None
  /\ blocks' = m.blocks
  /\ cell' = [m.cell EXCEPT ![Slot(m.at, 1)] = m.cell[y], ![y] = m.cell[Slot(m.at, 1)]]

Edit(m, x) ==
  /\ \/ \E n \in Numbers : SetNumber(m, n)
     \/ \E y \in Vars \ {x} : Push(m, y) \/ Pop(m, y) \/ Swap(m, y)
  /\ UNCHANGED drops

\* A block b is needed for the copy only if there is one to make.
Mutate(x, b) ==
  /\ Idle /\ IsPointer(cell[x])
  /\ IF content_mut(cell[x].addr) THEN b = cell[x].addr ELSE IsFree(b)
  /\ Edit(content_make_mut(x, b), x)

\* with_pos_idx: make_unique copies any shared block, and sets the position.
with_pos_idx(x, b, p) ==
  LET a == cell[x].addr
      m == IF blocks[a].count = 1 THEN InPlace(a) ELSE strong_clone(x, a, b)
  IN  /\ Idle /\ IsPointer(cell[x])
      /\ IF blocks[a].count = 1 THEN b = a ELSE IsFree(b)
      /\ blocks' = [m.blocks EXCEPT ![m.at].pos = p]
      /\ cell' = m.cell
      /\ UNCHANGED drops

with_inline_pos_idx(x, p) ==
  /\ Idle /\ cell[x].tag = "Inline"
  /\ cell' = [cell EXCEPT ![x].pos = p]
  /\ UNCHANGED <<blocks, drops>>

-----------------------------------------------------------------------------
(* Lenses: content and take, then a new value from the content.            *)

\* content: the lens that a value is given.
Lens(w) ==
  IF IsPointer(w) THEN IF TagOf(w.addr) = "Thunk" THEN "thunk_lens" ELSE "content_lens"
  ELSE IF w # None /\ w.inline \in {"EmptyArray", "EmptyRecord"} THEN "container_lens" ELSE "inline"

\* with_content: the data of a block with one reference is moved out and the
\* block freed without a drop; shared data is copied, and the reference
\* dropped.
take(x) ==
  LET a == cell[x].addr
      b == blocks[a]
      held == Block(b.tag, 0, b.pos, b.n, b.len)
  IN  /\ Idle /\ Lens(cell[x]) = "content_lens" /\ blocks[Own] = Free
      /\ IF b.count = 1
         THEN /\ blocks' = [blocks EXCEPT ![a] = Free, ![Own] = held]
              /\ cell' = Moved(cell, a, Own, x, None)
         ELSE /\ blocks' = [d \in Blocks |-> IF d = Own THEN held ELSE Recounted(blocks, cell, a, d)]
              /\ cell' = Copied(cell, a, Own, x, None)
      /\ UNCHANGED drops

\* The lens of an inline container gives Container::Empty, for which a closed
\* empty container is allocated (unwrap_or_alloc).
unwrap_or_alloc(x) ==
  /\ Idle /\ Lens(cell[x]) = "container_lens" /\ blocks[Own] = Free
  /\ blocks' = [blocks EXCEPT ![Own] = Block(ContainerOf(cell[x]), 0, cell[x].pos, 0, 0)]
  /\ cell' = [cell EXCEPT ![x] = None]
  /\ UNCHANGED drops

EditOwn ==
  /\ Idle /\ blocks[Own] # Free
  /\ \E x \in Vars : Edit(InPlace(Own), x)

\* array and record inline a container that is empty and closed.
Inlined(b) == b.tag \in ContainerTags /\ b.len = 0 /\ (b.tag = "Record" => b.n = 0)

PutInline(x, p) ==
  /\ blocks' = [blocks EXCEPT ![Own] = Free]
  /\ cell' = [cell EXCEPT ![x] = Inline(EmptyOf(TagOf(Own)), p)]
PutBlock(x, a, p) ==
  LET b == blocks[Own]
  IN  /\ IsFree(a)
      /\ blocks' = [encode(blocks, a, b.tag, p, b.n, b.len) EXCEPT ![Own] = Free]
      /\ cell' = Moved(cell, Own, a, x, Pointer(a))

\* A value from the content that is held: array, record, enum_variant...
FromContent(x, a) ==
  /\ Idle /\ cell[x] = None /\ blocks[Own] # Free
  /\ IF Inlined(blocks[Own]) THEN PutInline(x, blocks[Own].pos) ELSE PutBlock(x, a, blocks[Own].pos)
  /\ UNCHANGED drops

\* record_posless inlines any record without fields, open or not.
record_posless(x, a) ==
  /\ Idle /\ cell[x] = None /\ TagOf(Own) = "Record"
  /\ IF blocks[Own].len = 0 THEN PutInline(x, NONE) ELSE PutBlock(x, a, NONE)
  /\ UNCHANGED drops

\* Content that goes out of scope.
DropOwn ==
  /\ Idle /\ blocks[Own] # Free
  /\ drops' = <<Own>>
  /\ UNCHANGED <<blocks, cell>>

Next ==
  \/ \E x \in Vars, v \in Inlines, p \in PosIdx : inline(x, v, p)
  \/ \E x \in Vars, a \in Addr, tag \in ScalarTags \cup ContainerTags, p \in PosIdx, n \in Numbers :
       NewBlock(x, a, tag, p, n)
  \/ \E x \in Vars, a \in Addr, tag \in WrapperTags \cup {"Thunk"}, p \in PosIdx :
       WrapBlock(x, a, tag, p)
  \/ \E x, y \in Vars : clone(x, y)
  \/ \E x \in Vars : drop(x)
  \/ \E a \in Blocks, i \in Slots : DropNext(a, i)
  \/ \E a \in Blocks : dealloc(a)
  \/ \E x \in Vars, b \in Addr : Mutate(x, b)
  \/ \E x \in Vars, b \in Addr, p \in PosIdx : with_pos_idx(x, b, p)
  \/ \E x \in Vars, p \in PosIdx : with_inline_pos_idx(x, p)
  \/ \E x \in Vars : take(x)
  \/ \E x \in Vars : unwrap_or_alloc(x)
  \/ EditOwn
  \/ \E x \in Vars, a \in Addr : FromContent(x, a)
  \/ \E x \in Vars, a \in Addr : record_posless(x, a)
  \/ DropOwn

Spec == Init /\ [][Next]_vars

-----------------------------------------------------------------------------
(* Properties.                                                             *)

TypeOK ==
  /\ blocks \in [Blocks -> Header]
  /\ cell \in [Cells -> Word]
  /\ drops \in Seq(Blocks)

PointersTo(a) == {l \in Cells : cell[l] = Pointer(a)}

\* The reference count in the header of a block is the number of words that
\* point to it, whatever was cloned, moved, copied on write, taken by a lens
\* or dropped, and no word points to freed memory: no block is used after it
\* is freed, nor freed twice, and a count of one means that nobody else can
\* see a mutation (the unsafe code of ValueBlockRc and ValueLens).
RefCountsExact ==
  /\ \A l \in Cells : IsPointer(cell[l]) => blocks[cell[l].addr] # Free
  /\ \A a \in Addr : blocks[a] # Free => blocks[a].count = Cardinality(PointersTo(a))

\* The blocks that the data of a block points to, and those that can be
\* reached from the blocks of S: the members of every set that contains S and
\* is closed under Successors.
Successors(a) == {cell[Slot(a, i)].addr : i \in {j \in Slots : IsPointer(cell[Slot(a, j)])}}
Closed(T) == \A a \in T : Successors(a) \subseteq T
From(S) == {a \in Addr : \A T \in SUBSET Addr : S \subseteq T /\ Closed(T) => a \in T}
Roots == {cell[x].addr : x \in {y \in Vars : IsPointer(cell[y])}} \cup Successors(Own)

\* When no drop is going on, a block is in memory only if the program can
\* reach it, or if it hangs on a cycle, and every cycle goes through a thunk:
\* drop_slow frees all else, and a lens frees the block it empties.
NothingLeaks ==
  Idle => \A a \in Addr : blocks[a] # Free =>
            \/ a \in From(Roots)
            \/ \E b \in Addr : TagOf(b) = "Thunk" /\ b \in From(Successors(b)) /\ a \in From({b})
=============================================================================
