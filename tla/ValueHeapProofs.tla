-------------------------- MODULE ValueHeapProofs ---------------------------
(***************************************************************************)
(* That the reference counts of ValueHeap are exact, for any number of     *)
(* variables, blocks and words in a block.                                 *)
(*                                                                         *)
(* RefCountsExact is not inductive: a block that is allocated again must   *)
(* hold no forgotten word, and a block that is being dropped must be one   *)
(* that no word points to.  Exact says so of any pair of blocks and cells, *)
(* for mutation works on the copy that content_make_mut made.              *)
(***************************************************************************)
EXTENDS ValueHeap, FiniteSetTheorems, TLAPS

\* Most leaves are first-order reasoning.  Those with arithmetic, sequences or
\* records name SMT.
USE Zenon

Refs(c, a) == {l \in Cells : c[l] = Pointer(a)}

Typed(bs, c) == bs \in [Blocks -> Header] /\ c \in [Cells -> Word]
Counted(bs, c) == \A a \in Addr : bs[a].count = Cardinality(Refs(c, a))
Tidy(bs, c) == \A a \in Blocks, i \in Slots : i > bs[a].len => c[Slot(a, i)] = None
\* Wrappers and thunks always hold one word.
Wraps(h) == h.tag \in WrapperTags \cup {"Thunk"} => h.len = 1
Wrapped(bs) == \A a \in Blocks : Wraps(bs[a])

Exact(bs, c) == Typed(bs, c) /\ Counted(bs, c) /\ Tidy(bs, c) /\ Wrapped(bs)

Dropping(bs, ds) ==
  /\ ds \in Seq(Blocks)
  /\ \A k \in 1 .. Len(ds) : ds[k] \in Addr => bs[ds[k]].count = 0

IInv == Exact(blocks, cell) /\ Dropping(blocks, drops)

\* The block b holds no words.
Vacant(c, b) == \A i \in Slots : c[Slot(b, i)] = None

\* The words of the block a that point to d.
Inner(c, a, d) == {l \in SlotsOf(a) : c[l] = Pointer(d)}

\* The cells c with the word w in l.
Put(c, l, w) == [c EXCEPT ![l] = w]

\* One for a word that points to a.
One(w, a) == IF w = Pointer(a) THEN 1 ELSE 0

\* The references to a block d once x holds w, and k more are made.
Shifted(c, x, w, d, k) == Cardinality(Refs(c, d)) + k + One(w, d) - One(c[x], d)

-----------------------------------------------------------------------------
(* Cells and words.                                                        *)

\* The cells of a heap are finitely many, which the sum of all references
\* needs (the size of the memory of the program).
LEMMA CellsFinite == IsFiniteSet(Cells)
<1>1. IsFiniteSet(Blocks)
  <2>1. IsFiniteSet(Addr)
    BY HeapAssumption
  <2> QED BY <2>1, FS_AddElement DEF Blocks
<1>2. IsFiniteSet(Slots)
  BY SMTT(30), HeapAssumption, FS_Interval DEF Slots
<1>3. ASSUME NEW a \in Blocks PROVE IsFiniteSet(SlotsOf(a))
  <2> DEFINE f == [i \in Slots |-> Slot(a, i)]
  <2>1. f \in Surjection(Slots, SlotsOf(a))
    BY DEF Surjection, SlotsOf
  <2> QED BY <2>1, <1>2, FS_Surjection
<1>4. IsFiniteSet({SlotsOf(a) : a \in Blocks})
  <2> DEFINE g == [a \in Blocks |-> SlotsOf(a)]
  <2>1. g \in Surjection(Blocks, {SlotsOf(a) : a \in Blocks})
    BY DEF Surjection
  <2> QED BY <2>1, <1>1, FS_Surjection
<1>5. IsFiniteSet(UNION {SlotsOf(a) : a \in Blocks})
  BY <1>3, <1>4, FS_UNION
<1>6. IsFiniteSet(Vars)
  BY HeapAssumption
<1> QED BY <1>5, <1>6, FS_Union DEF Cells

LEMMA RefsFinite ==
  ASSUME NEW c, NEW a
  PROVE  IsFiniteSet(Refs(c, a)) /\ Cardinality(Refs(c, a)) \in Nat
<1>1. Refs(c, a) \in SUBSET Cells
  BY DEF Refs
<1>2. IsFiniteSet(Refs(c, a))
  BY <1>1, CellsFinite, FS_Subset
<1> QED BY <1>2, FS_CardinalityType

\* A slot is a cell of its block only, and no variable.
LEMMA SlotCells ==
  /\ Vars \subseteq Cells
  /\ \A a \in Blocks, i \in Slots : Slot(a, i) \in Cells /\ Slot(a, i) \notin Vars
                                    /\ Slot(a, i) \in SlotsOf(a) /\ Slot(a, i).slot = i
  /\ \A a, b \in Blocks, i, j \in Slots : Slot(a, i) = Slot(b, j) => a = b /\ i = j
  /\ \A a \in Blocks : \A l \in SlotsOf(a) : l.slot \in Slots /\ l = Slot(a, l.slot)
  /\ \A a, b \in Blocks : a # b => SlotsOf(a) \cap SlotsOf(b) = {}
  /\ \A a \in Blocks : SlotsOf(a) \subseteq Cells /\ SlotsOf(a) \cap Vars = {}
<1>1. \A a, i : Slot(a, i).at = a /\ Slot(a, i).slot = i
  BY DEF Slot
<1>2. \A a \in Blocks : Vars \cap SlotsOf(a) = {}
  BY HeapAssumption
<1>3. \A a : \A l \in SlotsOf(a) : \E i \in Slots : l = Slot(a, i)
  BY DEF SlotsOf
<1>4. \A a : \A i \in Slots : Slot(a, i) \in SlotsOf(a)
  BY DEF SlotsOf
<1> HIDE DEF Slot, SlotsOf
<1>5. \A a \in Blocks : \A l \in SlotsOf(a) : l \in Cells
  BY DEF Cells
<1>6. Vars \subseteq Cells
  BY DEF Cells
<1> QED BY SMTT(30), <1>1, <1>2, <1>3, <1>4, <1>5, <1>6

\* Pointers differ from the other words, and from each other.
LEMMA Words ==
  /\ None \in Word /\ ~IsPointer(None)
  /\ \A a \in Addr : Pointer(a) \in Word
  /\ \A a : IsPointer(Pointer(a)) /\ Pointer(a).addr = a /\ Pointer(a) # None
  /\ \A a, b : Pointer(a) = Pointer(b) => a = b
  /\ \A v \in Inlines, p \in PosIdx : Inline(v, p) \in Word
  /\ \A v, p, a : ~IsPointer(Inline(v, p)) /\ Inline(v, p) # Pointer(a) /\ Inline(v, p) # None
                  /\ Inline(v, p).inline = v /\ Inline(v, p).pos = p /\ Inline(v, p).tag = "Inline"
  /\ \A w \in Word : IsPointer(w) => w.addr \in Addr /\ w = Pointer(w.addr)
  /\ \A w \in Word : ~IsPointer(w) /\ w # None =>
       w.inline \in Inlines /\ w.pos \in PosIdx /\ w = Inline(w.inline, w.pos)
  /\ \A w \in Word : w.tag = "Inline" => ~IsPointer(w) /\ w # None
<1>1. \A a : Pointer(a).tag = "Pointer" /\ Pointer(a).addr = a
  BY DEF Pointer
<1>2. \A v, p : Inline(v, p).tag = "Inline" /\ Inline(v, p).inline = v /\ Inline(v, p).pos = p
  BY DEF Inline
<1>3. None.tag = "None"
  BY DEF None
<1> HIDE DEF Pointer, Inline, None
<1>4. \A w \in Word : \/ w = None
                      \/ \E v \in Inlines, p \in PosIdx : w = Inline(v, p)
                      \/ \E a \in Addr : w = Pointer(a)
  BY SMTT(30) DEF Word
<1>5. None \in Word /\ (\A a \in Addr : Pointer(a) \in Word)
      /\ (\A v \in Inlines, p \in PosIdx : Inline(v, p) \in Word)
  BY SMTT(30) DEF Word
<1> QED BY SMTT(30), <1>1, <1>2, <1>3, <1>4, <1>5 DEF IsPointer

-----------------------------------------------------------------------------
(* How many words point to a block, when words are written, moved, copied. *)

LEMMA OneMore ==
  ASSUME NEW S, NEW T, NEW l, IsFiniteSet(S), l \notin S, T = S \cup {l}
  PROVE  Cardinality(T) = Cardinality(S) + 1
BY FS_AddElement

LEMMA OneLess ==
  ASSUME NEW S, NEW T, NEW l, IsFiniteSet(S), l \in S, T = S \ {l}
  PROVE  Cardinality(T) = Cardinality(S) - 1
BY FS_RemoveElement

LEMMA Disjoint ==
  ASSUME NEW S, NEW T, NEW U, IsFiniteSet(S), IsFiniteSet(T), S \cap T = {}, U = S \cup T
  PROVE  Cardinality(U) = Cardinality(S) + Cardinality(T)
<1>1. Cardinality(S \cup T) = Cardinality(S) + Cardinality(T) - Cardinality(S \cap T)
  BY FS_Union
<1>2. Cardinality(S \cap T) = 0
  BY FS_EmptySet
<1>3. Cardinality(S) \in Nat /\ Cardinality(T) \in Nat
  BY FS_CardinalityType
<1> QED BY SMTT(30), <1>1, <1>2, <1>3

LEMMA OneCell ==
  ASSUME NEW c \in [Cells -> Word], NEW l \in Cells, NEW w, NEW a
  PROVE  Cardinality(Refs(Put(c, l, w), a)) = Cardinality(Refs(c, a)) + One(w, a) - One(c[l], a)
<1>0. IsFiniteSet(Refs(c, a)) /\ Cardinality(Refs(c, a)) \in Nat
  BY RefsFinite
<1>1. CASE w = Pointer(a) /\ c[l] # Pointer(a)
  <2>1. Refs(Put(c, l, w), a) = Refs(c, a) \cup {l} /\ l \notin Refs(c, a)
    BY <1>1 DEF Refs, Put
  <2>2. Cardinality(Refs(Put(c, l, w), a)) = Cardinality(Refs(c, a)) + 1
    BY <2>1, <1>0, OneMore
  <2> QED BY SMTT(30), <2>2, <1>0, <1>1 DEF One
<1>2. CASE w # Pointer(a) /\ c[l] = Pointer(a)
  <2>1. Refs(Put(c, l, w), a) = Refs(c, a) \ {l} /\ l \in Refs(c, a)
    BY <1>2 DEF Refs, Put
  <2>2. Cardinality(Refs(Put(c, l, w), a)) = Cardinality(Refs(c, a)) - 1
    BY <2>1, <1>0, OneLess
  <2> QED BY SMTT(30), <2>2, <1>0, <1>2 DEF One
<1>3. CASE (w = Pointer(a)) <=> (c[l] = Pointer(a))
  <2>1. Refs(Put(c, l, w), a) = Refs(c, a)
    BY <1>3 DEF Refs, Put
  <2> QED BY SMTT(30), <2>1, <1>0, <1>3 DEF One
<1> QED BY <1>1, <1>2, <1>3

\* Two cells that are written one after the other.
LEMMA TwoCells ==
  ASSUME NEW c \in [Cells -> Word], NEW l \in Cells, NEW m \in Cells, l # m,
         NEW v \in Word, NEW w \in Word, NEW a
  PROVE  /\ Put(Put(c, l, v), m, w) \in [Cells -> Word]
         /\ Cardinality(Refs(Put(Put(c, l, v), m, w), a))
              = Cardinality(Refs(c, a)) + One(v, a) + One(w, a) - One(c[l], a) - One(c[m], a)
<1> DEFINE d == Put(c, l, v)
<1>1. d \in [Cells -> Word] /\ d[m] = c[m] /\ Put(d, m, w) \in [Cells -> Word]
  BY DEF Put
<1>2. Cardinality(Refs(d, a)) = Cardinality(Refs(c, a)) + One(v, a) - One(c[l], a)
  BY SMTT(30), OneCell
<1>3. Cardinality(Refs(Put(d, m, w), a)) = Cardinality(Refs(d, a)) + One(w, a) - One(d[m], a)
  <2> HIDE DEF d
  <2> QED BY SMTT(30), <1>1, OneCell
<1>4. Cardinality(Refs(c, a)) \in Nat
  BY RefsFinite
<1> QED BY SMTT(30), <1>1, <1>2, <1>3, <1>4 DEF One

\* Sets of the slots of two blocks that hold the same words are as large.
LEMMA SameSlots ==
  ASSUME NEW a \in Blocks, NEW b \in Blocks, NEW S \in SUBSET SlotsOf(a),
         NEW T \in SUBSET SlotsOf(b),
         \A i \in Slots : Slot(a, i) \in S <=> Slot(b, i) \in T
  PROVE  IsFiniteSet(S) /\ IsFiniteSet(T) /\ Cardinality(S) = Cardinality(T)
<1>1. IsFiniteSet(S)
  BY SlotCells, CellsFinite, FS_Subset
<1> DEFINE f == [l \in S |-> Slot(b, l.slot)]
<1>2. \A l \in S : l.slot \in Slots /\ l = Slot(a, l.slot) /\ f[l] = Slot(b, l.slot) /\ f[l] \in T
  BY SMTT(30), SlotCells
<1>3. f \in [S -> T]
  BY <1>2
<1>4. ASSUME NEW l \in S, NEW m \in S, f[l] = f[m] PROVE l = m
  BY SMTT(30), <1>2, <1>4, SlotCells
<1>5. ASSUME NEW t \in T PROVE \E l \in S : f[l] = t
  <2>1. t.slot \in Slots /\ t = Slot(b, t.slot)
    BY SlotCells
  <2>2. Slot(a, t.slot) \in S /\ Slot(a, t.slot).slot = t.slot
    BY SMTT(30), <2>1, SlotCells
  <2> QED BY <2>1, <2>2
<1>6. f \in Bijection(S, T)
  BY <1>3, <1>4, <1>5 DEF Bijection, Injection, Surjection, IsInjective
<1> HIDE DEF f
<1>7. ExistsBijection(S, T)
  BY <1>6 DEF ExistsBijection
<1> QED BY <1>1, <1>7, FS_Bijection

\* Moved keeps the number of words that point to a block, but for the word in
\* the variable x that it replaces.
LEMMA MovedRefs ==
  ASSUME NEW c \in [Cells -> Word], NEW a \in Blocks, NEW b \in Blocks, a # b,
         Vacant(c, b),
         NEW x \in Vars, NEW w \in Word, NEW d \in Blocks
  PROVE  /\ Moved(c, a, b, x, w) \in [Cells -> Word]
         /\ Cardinality(Refs(Moved(c, a, b, x, w), d)) = Shifted(c, x, w, d, 0)
<1> DEFINE m == [l \in Cells |-> IF l \in SlotsOf(b) THEN c[Slot(a, l.slot)]
                                ELSE IF l \in SlotsOf(a) THEN None ELSE c[l]]
           S == {l \in SlotsOf(a) : c[l] = Pointer(d)}
           T == {l \in SlotsOf(b) : c[Slot(a, l.slot)] = Pointer(d)}
           R == {l \in Cells \ (SlotsOf(a) \cup SlotsOf(b)) : c[l] = Pointer(d)}
<1>1. m \in [Cells -> Word] /\ m[x] = c[x]
  <2>1. \A l \in Cells : l \in SlotsOf(b) => Slot(a, l.slot) \in Cells
    BY SlotCells
  <2> QED BY <2>1, SlotCells, Words
<1>2. Refs(c, d) = R \cup S
  <2>1. \A l \in SlotsOf(b) : c[l] # Pointer(d)
    BY SMTT(30), SlotCells, Words DEF Vacant
  <2> QED BY <2>1, SlotCells DEF Refs
<1>3. Refs(m, d) = R \cup T
  <2>1. None # Pointer(d)
    BY Words
  <2> QED BY <2>1, SlotCells DEF Refs
<1>4. IsFiniteSet(S) /\ IsFiniteSet(T) /\ Cardinality(S) = Cardinality(T)
  <2>1. \A i \in Slots : Slot(a, i) \in S <=> Slot(b, i) \in T
    BY SlotCells
  <2>2. S \in SUBSET SlotsOf(a) /\ T \in SUBSET SlotsOf(b)
    OBVIOUS
  <2> HIDE DEF S, T
  <2> QED BY SMTT(30), <2>1, <2>2, SameSlots
<1>5. R \cap S = {} /\ R \cap T = {}
  OBVIOUS
<1>6. IsFiniteSet(R)
  BY CellsFinite, FS_Subset
<1> HIDE DEF R, S, T
<1>7. Cardinality(Refs(c, d)) = Cardinality(R) + Cardinality(S)
  BY <1>2, <1>4, <1>5, <1>6, Disjoint
<1>8. Cardinality(Refs(m, d)) = Cardinality(R) + Cardinality(T)
  <2> HIDE DEF m
  <2> QED BY <1>3, <1>4, <1>5, <1>6, Disjoint
<1>9. Moved(c, a, b, x, w) = Put(m, x, w)
  BY SlotCells DEF Moved, Put
<1> HIDE DEF m
<1>10. Cardinality(Refs(Moved(c, a, b, x, w), d)) = Cardinality(Refs(m, d)) + One(w, d) - One(m[x], d)
  BY SMTT(30), <1>1, <1>9, OneCell, SlotCells
<1>11. Moved(c, a, b, x, w) \in [Cells -> Word]
  BY <1>1, <1>9 DEF Put
<1>12. Cardinality(Refs(c, d)) \in Nat
  BY RefsFinite
<1> QED BY SMTT(30), <1>1, <1>2, <1>3, <1>4, <1>7, <1>8, <1>9, <1>10, <1>11, <1>12 DEF Shifted, One

\* Copied adds a reference for each word of a that points to the block.
LEMMA CopiedRefs ==
  ASSUME NEW c \in [Cells -> Word], NEW a \in Blocks, NEW b \in Blocks, a # b,
         Vacant(c, b),
         NEW x \in Vars, NEW w \in Word, NEW d \in Blocks
  PROVE  /\ Copied(c, a, b, x, w) \in [Cells -> Word]
         /\ Cardinality(Inner(c, a, d)) \in Nat
         /\ Cardinality(Refs(Copied(c, a, b, x, w), d))
              = Shifted(c, x, w, d, Cardinality(Inner(c, a, d)))
<1> DEFINE m == [l \in Cells |-> IF l \in SlotsOf(b) THEN c[Slot(a, l.slot)] ELSE c[l]]
           S == {l \in SlotsOf(a) : c[l] = Pointer(d)}
           T == {l \in SlotsOf(b) : c[Slot(a, l.slot)] = Pointer(d)}
<1>1. m \in [Cells -> Word] /\ m[x] = c[x]
  <2>1. \A l \in Cells : l \in SlotsOf(b) => Slot(a, l.slot) \in Cells
    BY SlotCells
  <2> QED BY <2>1, SlotCells, Words
<1>2. Refs(m, d) = Refs(c, d) \cup T /\ Refs(c, d) \cap T = {}
  <2>1. \A l \in SlotsOf(b) : c[l] # Pointer(d)
    BY SMTT(30), SlotCells, Words DEF Vacant
  <2> QED BY SMTT(30), <2>1, SlotCells DEF Refs
<1>3. IsFiniteSet(S) /\ IsFiniteSet(T) /\ Cardinality(S) = Cardinality(T)
  <2>1. \A i \in Slots : Slot(a, i) \in S <=> Slot(b, i) \in T
    BY SlotCells
  <2>2. S \in SUBSET SlotsOf(a) /\ T \in SUBSET SlotsOf(b)
    OBVIOUS
  <2> HIDE DEF S, T
  <2> QED BY SMTT(30), <2>1, <2>2, SameSlots
<1>4. IsFiniteSet(Refs(c, d)) /\ Cardinality(Refs(c, d)) \in Nat
  BY RefsFinite
<1> HIDE DEF T
<1>5. Cardinality(Refs(m, d)) = Cardinality(Refs(c, d)) + Cardinality(T)
  <2> HIDE DEF m
  <2> QED BY <1>2, <1>3, <1>4, Disjoint
<1>6. Copied(c, a, b, x, w) = Put(m, x, w)
  BY SlotCells DEF Copied, Put
<1> HIDE DEF m
<1>7. Cardinality(Refs(Copied(c, a, b, x, w), d)) = Cardinality(Refs(m, d)) + One(w, d) - One(m[x], d)
  BY SMTT(30), <1>1, <1>6, OneCell, SlotCells
<1>8. Copied(c, a, b, x, w) \in [Cells -> Word]
  BY <1>1, <1>6 DEF Put
<1>9. Cardinality(S) \in Nat
  BY <1>3, FS_CardinalityType
<1> QED BY <1>1, <1>3, <1>5, <1>6, <1>7, <1>8, <1>9 DEF Inner, Shifted

-----------------------------------------------------------------------------
(* Blocks and their cells: what the parts of the actions keep exact.       *)

LEMMA Pointed ==
  ASSUME NEW bs, NEW c, Exact(bs, c)
  PROVE  /\ \A l \in Cells : IsPointer(c[l]) =>
              c[l].addr \in Addr /\ c[l] = Pointer(c[l].addr) /\ bs[c[l].addr].count >= 1
         /\ \A a \in Addr : bs[a].count = 0 => \A l \in Cells : c[l] # Pointer(a)
         /\ \A a \in Blocks : bs[a].len = 0 => Vacant(c, a)
         /\ \A a \in Blocks : bs[a].count \in Nat /\ bs[a].len \in 0 .. MaxLen
         /\ \A l \in Cells : c[l] \in Word
<1>0. c \in [Cells -> Word] /\ bs \in [Blocks -> Header]
  BY DEF Exact, Typed
<1>1. ASSUME NEW l \in Cells, IsPointer(c[l])
      PROVE  c[l].addr \in Addr /\ c[l] = Pointer(c[l].addr)
  BY <1>0, <1>1, Words
<1>2. ASSUME NEW a \in Addr, bs[a].count = 0, NEW l \in Cells PROVE c[l] # Pointer(a)
  <2>1. Cardinality(Refs(c, a)) = 0
    BY <1>2 DEF Exact, Counted
  <2>2. Refs(c, a) = {}
    BY <2>1, RefsFinite, FS_EmptySet
  <2> QED BY <2>2 DEF Refs
<1>3. \A a \in Blocks : bs[a].count \in Nat /\ bs[a].len \in 0 .. MaxLen
  BY <1>0 DEF Header
<1>4. \A a \in Blocks : bs[a].len = 0 => Vacant(c, a)
  BY SMTT(30) DEF Exact, Tidy, Slots, Vacant
<1>5. Addr \subseteq Blocks
  BY DEF Blocks
<1> QED BY SMTT(30), <1>0, <1>1, <1>2, <1>3, <1>4, <1>5

LEMMA FreeHeader == Free \in Header /\ Free.count = 0 /\ Free.len = 0 /\ Wraps(Free)
BY SMTT(30), HeapAssumption DEF Free, Block, Header, DataTag, Wraps

\* The parts of a header are set one at a time.
LEMMA SetHeader ==
  ASSUME NEW h \in Header
  PROVE  /\ h.count \in Nat /\ h.len \in 0 .. MaxLen /\ h.pos \in PosIdx /\ h.n \in Numbers
         /\ \A k \in Nat : [h EXCEPT !.count = k] \in Header /\ [h EXCEPT !.count = k].count = k
              /\ [h EXCEPT !.count = k].len = h.len /\ [h EXCEPT !.count = k].tag = h.tag
         /\ \A k \in 0 .. MaxLen : [h EXCEPT !.len = k] \in Header /\ [h EXCEPT !.len = k].len = k
              /\ [h EXCEPT !.len = k].count = h.count /\ [h EXCEPT !.len = k].tag = h.tag
         /\ \A k \in Numbers : [h EXCEPT !.n = k] \in Header /\ [h EXCEPT !.n = k].len = h.len
              /\ [h EXCEPT !.n = k].count = h.count /\ [h EXCEPT !.n = k].tag = h.tag
         /\ \A k \in PosIdx : [h EXCEPT !.pos = k] \in Header /\ [h EXCEPT !.pos = k].len = h.len
              /\ [h EXCEPT !.pos = k].count = h.count /\ [h EXCEPT !.pos = k].tag = h.tag
BY DEF Header

\* A block h in the place of the one at a.
LEMMA SetBlock ==
  ASSUME NEW bs \in [Blocks -> Header], NEW a \in Blocks, NEW h \in Header
  PROVE  /\ [bs EXCEPT ![a] = h] \in [Blocks -> Header]
         /\ [bs EXCEPT ![a] = h][a] = h
         /\ \A d \in Blocks : d # a => [bs EXCEPT ![a] = h][d] = bs[d]
OBVIOUS

\* The move of the words of a to b, where no word is (with_content with one
\* reference, encode of content that is held).
LEMMA MoveExact ==
  ASSUME NEW bs, NEW c, Exact(bs, c), NEW a \in Blocks, NEW b \in Blocks, a # b,
         bs[b].len = 0, NEW x \in Vars, NEW w \in Word,
         NEW new \in [Blocks -> Header], new[b].len = bs[a].len,
         \A d \in Blocks \ {a, b} : new[d].len = bs[d].len,
         \A d \in Addr : new[d].count = bs[d].count + One(w, d) - One(c[x], d),
         Wrapped(new)
  PROVE  Exact(new, Moved(c, a, b, x, w))
<1>0. c \in [Cells -> Word] /\ Vacant(c, b)
  BY Pointed DEF Exact, Typed
<1>1. Typed(new, Moved(c, a, b, x, w))
  BY <1>0, MovedRefs DEF Typed
<1>2. Counted(new, Moved(c, a, b, x, w))
  <2> SUFFICES ASSUME NEW d \in Addr
               PROVE  new[d].count = Cardinality(Refs(Moved(c, a, b, x, w), d))
    BY DEF Counted
  <2>1. bs[d].count = Cardinality(Refs(c, d))
    BY DEF Exact, Counted
  <2>2. Cardinality(Refs(Moved(c, a, b, x, w), d)) = Shifted(c, x, w, d, 0)
    <3>1. d \in Blocks
      BY DEF Blocks
    <3> QED BY SMTT(30), <3>1, <1>0, MovedRefs
  <2>3. Cardinality(Refs(c, d)) \in Nat
    BY RefsFinite
  <2> QED BY SMTT(30), <2>1, <2>2, <2>3 DEF Shifted, One
<1>3. Tidy(new, Moved(c, a, b, x, w))
  <2> SUFFICES ASSUME NEW d \in Blocks, NEW i \in Slots, i > new[d].len
               PROVE  Moved(c, a, b, x, w)[Slot(d, i)] = None
    BY DEF Tidy
  <2>1. Slot(d, i) # x /\ Slot(d, i) \in Cells
    BY SMTT(30), SlotCells
  <2>2. CASE d = b
    <3>1. Moved(c, a, b, x, w)[Slot(d, i)] = c[Slot(a, i)]
      BY <2>1, <2>2, SlotCells DEF Moved
    <3> QED BY <3>1, <2>2 DEF Exact, Tidy
  <2>3. CASE d = a
    BY <2>1, <2>3, SlotCells DEF Moved
  <2>4. CASE d # a /\ d # b
    <3>1. Moved(c, a, b, x, w)[Slot(d, i)] = c[Slot(d, i)]
      BY <2>1, <2>4, SlotCells DEF Moved
    <3> QED BY <3>1, <2>4 DEF Exact, Tidy
  <2> QED BY <2>2, <2>3, <2>4
<1> QED BY <1>1, <1>2, <1>3 DEF Exact

\* The copy of the words of a, which x points to, to b (strong_clone, and
\* with_content of a shared block).
LEMMA CopyExact ==
  ASSUME NEW bs, NEW c, Exact(bs, c), NEW x \in Vars, NEW a \in Addr, c[x] = Pointer(a),
         NEW b \in Blocks, a # b, bs[b].len = 0, bs[b].count = 0,
         NEW w \in Word, NEW h \in Header, h.len = bs[a].len, Wraps(h),
         IF b \in Addr THEN w = Pointer(b) /\ h.count = 1 ELSE w = None
  PROVE  Exact([d \in Blocks |-> IF d = b THEN h ELSE Recounted(bs, c, a, d)], Copied(c, a, b, x, w))
<1> DEFINE new == [d \in Blocks |-> IF d = b THEN h ELSE Recounted(bs, c, a, d)]
           K(d) == Cardinality(Inner(c, a, d))
<1>0. /\ c \in [Cells -> Word] /\ bs \in [Blocks -> Header] /\ a \in Blocks
      /\ Vacant(c, b)
  <2>1. a \in Blocks
    BY DEF Blocks
  <2>2. Vacant(c, b)
    BY Pointed
  <2> QED BY <2>1, <2>2 DEF Exact, Typed
<1>1. Copied(c, a, b, x, w) \in [Cells -> Word]
  BY <1>0, CopiedRefs
<1>2. ASSUME NEW d \in Blocks PROVE K(d) \in Nat
  BY <1>0, CopiedRefs
<1>3. bs[a].count >= 1 /\ bs[a] # Free
  BY SMTT(30), SlotCells, Pointed, Words, FreeHeader
<1> HIDE DEF K
<1>4. ASSUME NEW d \in Blocks, d # b
      PROVE  /\ Recounted(bs, c, a, d) \in Header /\ Recounted(bs, c, a, d).len = bs[d].len
             /\ Recounted(bs, c, a, d).tag = bs[d].tag
             /\ bs[d] = Free => Recounted(bs, c, a, d) = Free
             /\ bs[d] # Free => Recounted(bs, c, a, d).count = bs[d].count + K(d) - One(c[x], d)
  <2>1. CASE bs[d] = Free
    BY <2>1, FreeHeader DEF Recounted
  <2>2. CASE bs[d] # Free
    <3>1. Recounted(bs, c, a, d) = [bs[d] EXCEPT !.count = bs[d].count + K(d) - (IF d = a THEN 1 ELSE 0)]
      BY <2>2, <1>0 DEF Recounted, K, Inner, Header
    <3>2. bs[d] \in Header /\ bs[d].count + K(d) - (IF d = a THEN 1 ELSE 0) \in Nat
      BY SMTT(30), <1>0, <1>2, <1>3 DEF Header
    <3>3. One(c[x], d) = (IF d = a THEN 1 ELSE 0)
      BY Words DEF One
    <3> QED BY <2>2, <3>1, <3>2, <3>3 DEF Header
  <2> QED BY <2>1, <2>2
<1>5. Typed(new, Copied(c, a, b, x, w))
  BY <1>1, <1>4 DEF Typed
<1>6. Counted(new, Copied(c, a, b, x, w))
  <2> SUFFICES ASSUME NEW d \in Addr
               PROVE  new[d].count = Cardinality(Refs(Copied(c, a, b, x, w), d))
    BY DEF Counted
  <2>1. bs[d].count = Cardinality(Refs(c, d)) /\ d \in Blocks /\ bs[d].count \in Nat
    BY Pointed DEF Exact, Counted, Blocks
  <2>2. Cardinality(Refs(Copied(c, a, b, x, w), d)) = Shifted(c, x, w, d, K(d))
    BY SMTT(30), <1>0, <2>1, CopiedRefs DEF K
  <2>3. ASSUME bs[d].count = 0 PROVE K(d) = 0 /\ One(c[x], d) = 0
    <3>1. \A l \in Cells : c[l] # Pointer(d)
      BY SMTT(30), <2>3, Pointed
    <3>2. Inner(c, a, d) = {}
      BY <3>1, <1>0, SlotCells DEF Inner
    <3>3. K(d) = 0
      BY <3>2, FS_EmptySet DEF K
    <3> QED BY <3>1, <3>3, SlotCells DEF One
  <2>4. CASE d = b
    <3>1. new[d].count = 1 /\ One(w, d) = 1
      BY <2>4 DEF One
    <3> QED BY SMTT(30), <3>1, <2>1, <2>2, <2>3, <2>4 DEF Shifted
  <2>5. CASE d # b
    <3>1. One(w, d) = 0
      BY <2>5, Words DEF One
    <3>2. CASE bs[d] = Free
      <4>1. new[d].count = 0 /\ bs[d].count = 0
        BY <3>2, <2>1, <2>5, <1>4, FreeHeader
      <4> QED BY SMTT(30), <4>1, <3>1, <2>1, <2>2, <2>3 DEF Shifted
    <3>3. CASE bs[d] # Free
      <4>1. new[d].count = bs[d].count + K(d) - One(c[x], d)
        BY <3>3, <2>1, <2>5, <1>4
      <4> QED BY SMTT(30), <4>1, <3>1, <2>1, <2>2, <1>2 DEF Shifted, One
    <3> QED BY <3>2, <3>3
  <2> QED BY <2>4, <2>5
<1>7. Tidy(new, Copied(c, a, b, x, w))
  <2> SUFFICES ASSUME NEW d \in Blocks, NEW i \in Slots, i > new[d].len
               PROVE  Copied(c, a, b, x, w)[Slot(d, i)] = None
    BY DEF Tidy
  <2>1. Slot(d, i) # x /\ Slot(d, i) \in Cells
    BY SMTT(30), SlotCells
  <2>2. CASE d = b
    <3>1. Copied(c, a, b, x, w)[Slot(d, i)] = c[Slot(a, i)]
      BY <2>1, <2>2, SlotCells DEF Copied
    <3> QED BY <3>1, <2>2, <1>0 DEF Exact, Tidy
  <2>3. CASE d # b
    <3>1. Copied(c, a, b, x, w)[Slot(d, i)] = c[Slot(d, i)]
      BY <2>1, <2>3, SlotCells DEF Copied
    <3> QED BY <3>1, <2>3, <1>4 DEF Exact, Tidy
  <2> QED BY <2>2, <2>3
<1>8. Wrapped(new)
  BY <1>4 DEF Exact, Wrapped, Wraps
<1> QED BY <1>5, <1>6, <1>7, <1>8 DEF Exact

\* Blocks and cells that are written with the same words in as out.
LEMMA WriteExact ==
  ASSUME NEW bs \in [Blocks -> Header], NEW c \in [Cells -> Word], Wrapped(bs),
         \A d \in Addr : Cardinality(Refs(c, d)) = bs[d].count,
         \A d \in Blocks, i \in Slots : i > bs[d].len => c[Slot(d, i)] = None
  PROVE  Exact(bs, c)
BY DEF Exact, Typed, Counted, Tidy

\* Setting n or the position.
LEMMA SetExact ==
  ASSUME NEW bs, NEW c, Exact(bs, c), NEW a \in Blocks, NEW h \in Header,
         h.count = bs[a].count, h.len = bs[a].len, h.tag = bs[a].tag
  PROVE  Exact([bs EXCEPT ![a] = h], c)
<1> DEFINE new == [bs EXCEPT ![a] = h]
<1>0. bs \in [Blocks -> Header] /\ c \in [Cells -> Word] /\ Wrapped(bs)
  BY DEF Exact, Typed
<1>1. /\ new \in [Blocks -> Header]
      /\ \A d \in Blocks : new[d].count = bs[d].count /\ new[d].len = bs[d].len /\ new[d].tag = bs[d].tag
  BY <1>0
<1> HIDE DEF new
<1>2. Wrapped(new)
  BY <1>0, <1>1 DEF Wrapped, Wraps
<1>3. \A d \in Addr : Cardinality(Refs(c, d)) = new[d].count
  BY <1>1 DEF Exact, Counted, Blocks
<1>4. \A d \in Blocks, i \in Slots : i > new[d].len => c[Slot(d, i)] = None
  BY <1>1 DEF Exact, Tidy
<1>5. Exact(new, c)
  BY <1>0, <1>1, <1>2, <1>3, <1>4, WriteExact
<1> QED BY <1>5 DEF new

\* Push, Pop and Swap exchange the words of a slot s and of a variable y, one
\* of which may hold none.
LEMMA ExchangeExact ==
  ASSUME NEW bs, NEW c, Exact(bs, c), NEW a \in Blocks, NEW k \in Slots, NEW y \in Vars,
         NEW h \in Header, h.count = bs[a].count, h.tag = bs[a].tag, Wraps(h),
         \/ h.len = bs[a].len /\ k <= h.len
         \/ h.len = bs[a].len + 1 /\ k = h.len
         \/ h.len = bs[a].len - 1 /\ k = h.len + 1 /\ c[y] = None
  PROVE  /\ Exact([bs EXCEPT ![a] = h], Put(Put(c, Slot(a, k), c[y]), y, c[Slot(a, k)]))
         /\ Exact([bs EXCEPT ![a] = h], Put(Put(c, y, c[Slot(a, k)]), Slot(a, k), c[y]))
<1> DEFINE new == [bs EXCEPT ![a] = h]
           s == Slot(a, k)
           e == Put(Put(c, s, c[y]), y, c[s])
<1>0. /\ bs \in [Blocks -> Header] /\ c \in [Cells -> Word] /\ Wrapped(bs)
      /\ s \in Cells /\ y \in Cells /\ s # y /\ c[s] \in Word /\ c[y] \in Word
  BY SMTT(30), SlotCells, Pointed DEF Exact, Typed
<1>1. /\ new \in [Blocks -> Header] /\ new[a] = h
      /\ \A d \in Blocks : d # a => new[d] = bs[d]
  BY <1>0
<1> HIDE DEF new
<1>2. Wrapped(new)
  BY <1>0, <1>1 DEF Wrapped
<1>3. Put(Put(c, y, c[s]), s, c[y]) = e /\ e \in [Cells -> Word]
  BY <1>0 DEF Put
<1>4. ASSUME NEW d \in Addr PROVE Cardinality(Refs(e, d)) = new[d].count
  <2>0. d \in Blocks
    BY DEF Blocks
  <2>1. Cardinality(Refs(e, d)) = Cardinality(Refs(c, d)) + One(c[y], d) + One(c[s], d) - One(c[s], d) - One(c[y], d)
    <3> HIDE DEF s
    <3> QED BY SMTT(30), <1>0, TwoCells
  <2>2. Cardinality(Refs(c, d)) = bs[d].count /\ Cardinality(Refs(c, d)) \in Nat
    BY RefsFinite DEF Exact, Counted
  <2>3. new[d].count = bs[d].count
    BY <1>1, <2>0
  <2> QED BY SMTT(30), <2>1, <2>2, <2>3 DEF One
<1>5. ASSUME NEW d \in Blocks, NEW i \in Slots, i > new[d].len PROVE e[Slot(d, i)] = None
  <2>1. Slot(d, i) \in Cells /\ Slot(d, i) # y
    BY SMTT(30), SlotCells
  <2>2. CASE Slot(d, i) = s
    <3>1. d = a /\ i = k
      BY SMTT(30), <2>2, SlotCells
    <3>2. e[s] = c[y]
      BY <1>0 DEF Put
    <3> QED BY SMTT(30), <3>1, <3>2, <2>2, <1>1, <1>5, <1>0, SetHeader DEF Slots
  <2>3. CASE Slot(d, i) # s
    <3>1. e[Slot(d, i)] = c[Slot(d, i)]
      BY <2>1, <2>3, <1>0 DEF Put
    <3>2. d = a => i # k
      BY <2>3
    <3>3. bs[d] \in Header /\ bs[d].len \in 0 .. MaxLen /\ h.len \in 0 .. MaxLen /\ MaxLen \in Nat
      BY <1>0, SetHeader, HeapAssumption
    <3>4. i > bs[d].len
      BY SMTT(30), <3>2, <3>3, <1>1, <1>5 DEF Slots
    <3> QED BY <3>1, <3>4 DEF Exact, Tidy
  <2> QED BY <2>2, <2>3
<1> HIDE DEF e
<1>6. Exact(new, e)
  BY <1>1, <1>2, <1>3, <1>4, <1>5, WriteExact
<1> QED BY <1>3, <1>6 DEF new, e

\* What the holder of a mutable reference does keeps memory exact, in the
\* block itself or in the copy of it.
LEMMA EditExact ==
  ASSUME NEW m, Exact(m.blocks, m.cell), m.at \in Blocks, NEW y \in Vars,
         (\E n \in Numbers : SetNumber(m, n)) \/ Push(m, y) \/ Pop(m, y) \/ Swap(m, y)
  PROVE  Exact(blocks', cell')
<1>1. PICK bs, c, a : bs = m.blocks /\ c = m.cell /\ a = m.at
  OBVIOUS
<1>2. Exact(bs, c) /\ a \in Blocks /\ bs \in [Blocks -> Header] /\ c \in [Cells -> Word]
  BY <1>1 DEF Exact, Typed
<1>3. bs[a] \in Header /\ bs[a].len \in 0 .. MaxLen /\ Wraps(bs[a])
  BY <1>2, SetHeader DEF Exact, Wrapped
<1>4. ASSUME NEW n \in Numbers, SetNumber(m, n) PROVE Exact(blocks', cell')
  <2>1. PICK h : h = [bs[a] EXCEPT !.n = n]
    OBVIOUS
  <2>2. blocks' = [bs EXCEPT ![a] = h] /\ cell' = c
    BY <1>1, <1>4, <2>1 DEF SetNumber
  <2>3. h \in Header /\ h.count = bs[a].count /\ h.len = bs[a].len /\ h.tag = bs[a].tag
    BY <1>3, <2>1, SetHeader
  <2>4. Exact([bs EXCEPT ![a] = h], c)
    BY <1>2, <2>3, SetExact
  <2> QED BY <2>2, <2>4
<1>5. ASSUME NEW k \in Nat, k <= MaxLen, NEW h, h = [bs[a] EXCEPT !.len = k],
             bs[a].tag \in ContainerTags
      PROVE  h \in Header /\ h.count = bs[a].count /\ h.len = k /\ h.tag = bs[a].tag /\ Wraps(h)
  <2>1. h \in Header /\ h.count = bs[a].count /\ h.len = k /\ h.tag = bs[a].tag
    BY SMTT(30), <1>3, <1>5, SetHeader, HeapAssumption
  <2>2. bs[a].tag \notin WrapperTags \cup {"Thunk"}
    BY <1>5, HeapAssumption
  <2> QED BY <2>1, <2>2 DEF Wraps
<1>6. CASE Push(m, y)
  <2>1. PICK h : h = [bs[a] EXCEPT !.len = bs[a].len + 1]
    OBVIOUS
  <2>2. PICK k : k = bs[a].len + 1
    OBVIOUS
  <2>3. blocks' = [bs EXCEPT ![a] = h] /\ cell' = Put(Put(c, Slot(a, k), c[y]), y, None)
        /\ bs[a].tag \in ContainerTags /\ bs[a].len < MaxLen
    <3>1. blocks' = [bs EXCEPT ![a] = h]
      <4>1. blocks' = [m.blocks EXCEPT ![m.at] = [m.blocks[m.at] EXCEPT !.len = m.blocks[m.at].len + 1]]
        BY <1>6 DEF Push
      <4> QED BY <4>1, <1>1, <2>1
    <3>2. cell' = Put(Put(c, Slot(a, k), c[y]), y, None)
      BY <1>1, <1>6, <2>2 DEF Push, Put
    <3>3. bs[a].tag \in ContainerTags /\ bs[a].len < MaxLen
      BY <1>1, <1>6 DEF Push
    <3> QED BY <3>1, <3>2, <3>3
  <2>4. k \in Slots /\ k \in Nat /\ k <= MaxLen
    BY SMTT(30), <1>3, <2>2, <2>3, HeapAssumption DEF Slots
  <2>5. h \in Header /\ h.count = bs[a].count /\ h.len = k /\ h.tag = bs[a].tag /\ Wraps(h)
    BY <1>5, <2>1, <2>2, <2>3, <2>4
  <2>6. c[Slot(a, k)] = None
    BY SMTT(30), <1>2, <1>3, <2>2, <2>4 DEF Exact, Tidy
  <2>7. Exact([bs EXCEPT ![a] = h], Put(Put(c, Slot(a, k), c[y]), y, c[Slot(a, k)]))
    BY <1>2, <2>2, <2>4, <2>5, ExchangeExact
  <2> QED BY <2>3, <2>6, <2>7
<1>7. CASE Pop(m, y)
  <2>1. PICK h : h = [bs[a] EXCEPT !.len = bs[a].len - 1]
    OBVIOUS
  <2>2. PICK k : k = bs[a].len
    OBVIOUS
  <2>3. blocks' = [bs EXCEPT ![a] = h] /\ cell' = Put(Put(c, Slot(a, k), None), y, c[Slot(a, k)])
        /\ bs[a].tag \in ContainerTags /\ bs[a].len > 0 /\ c[y] = None
    <3>1. blocks' = [bs EXCEPT ![a] = h]
      <4>1. blocks' = [m.blocks EXCEPT ![m.at] = [m.blocks[m.at] EXCEPT !.len = m.blocks[m.at].len - 1]]
        BY <1>7 DEF Pop
      <4> QED BY <4>1, <1>1, <2>1
    <3>2. cell' = Put(Put(c, Slot(a, k), None), y, c[Slot(a, k)])
      BY <1>1, <1>7, <2>2 DEF Pop, Put
    <3>3. bs[a].tag \in ContainerTags /\ bs[a].len > 0 /\ c[y] = None
      BY <1>1, <1>7 DEF Pop
    <3> QED BY <3>1, <3>2, <3>3
  <2>4. k \in Slots /\ k - 1 \in Nat /\ k - 1 <= MaxLen
    BY SMTT(30), <1>3, <2>2, <2>3, HeapAssumption DEF Slots
  <2>5. h \in Header /\ h.count = bs[a].count /\ h.len = k - 1 /\ h.tag = bs[a].tag /\ Wraps(h)
    BY <1>5, <2>1, <2>2, <2>3, <2>4
  <2>6. h.len = bs[a].len - 1 /\ k = h.len + 1
    BY SMTT(30), <1>3, <2>2, <2>4, <2>5
  <2>7. Exact([bs EXCEPT ![a] = h], Put(Put(c, Slot(a, k), c[y]), y, c[Slot(a, k)]))
    BY <1>2, <2>3, <2>4, <2>5, <2>6, ExchangeExact
  <2> QED BY <2>3, <2>7
<1>8. CASE Swap(m, y)
  <2>1. blocks' = bs /\ cell' = Put(Put(c, Slot(a, 1), c[y]), y, c[Slot(a, 1)])
        /\ bs[a].tag \in WrapperTags \cup {"Thunk"}
    BY <1>1, <1>8 DEF Swap, Put
  <2>2. 1 \in Slots /\ bs[a].len = 1
    BY SMTT(30), <2>1, <1>3, HeapAssumption DEF Slots, Wraps
  <2>3. PICK h : h = bs[a]
    OBVIOUS
  <2>4. Exact([bs EXCEPT ![a] = h], Put(Put(c, Slot(a, 1), c[y]), y, c[Slot(a, 1)]))
    <3>1. h \in Header /\ h.count = bs[a].count /\ h.tag = bs[a].tag /\ Wraps(h)
          /\ h.len = bs[a].len /\ 1 <= h.len
      BY SMTT(30), <1>3, <2>2, <2>3
    <3> QED BY <1>2, <2>2, <3>1, ExchangeExact
  <2>5. [bs EXCEPT ![a] = h] = bs
    BY <1>2, <2>3
  <2> QED BY <2>1, <2>4, <2>5
<1> QED BY <1>4, <1>6, <1>7, <1>8

-----------------------------------------------------------------------------
(* The actions.                                                            *)

\* When nothing is being dropped, there is nothing to say of drops.
LEMMA IdleKept ==
  ASSUME drops = << >>, drops' = drops
  PROVE  Dropping(blocks', drops')
BY SMTT(30) DEF Dropping

\* A cell x that is written, with the counts of the words that go and come.
LEMMA CellExact ==
  ASSUME NEW bs, NEW c, Exact(bs, c), NEW x \in Cells, NEW w \in Word,
         x \in Vars \/ w = None,
         NEW new \in [Blocks -> Header], Wrapped(new),
         \A d \in Blocks : new[d].len = bs[d].len,
         \A d \in Addr : new[d].count = bs[d].count + One(w, d) - One(c[x], d)
  PROVE  Exact(new, Put(c, x, w))
<1> DEFINE e == Put(c, x, w)
<1>0. c \in [Cells -> Word] /\ e \in [Cells -> Word]
  BY DEF Exact, Typed, Put
<1>1. ASSUME NEW d \in Addr PROVE Cardinality(Refs(e, d)) = new[d].count
  <2>1. Cardinality(Refs(e, d)) = Cardinality(Refs(c, d)) + One(w, d) - One(c[x], d)
    BY SMTT(30), <1>0, OneCell
  <2>2. bs[d].count = Cardinality(Refs(c, d))
    BY DEF Exact, Counted
  <2> QED BY <2>1, <2>2
<1>2. ASSUME NEW d \in Blocks, NEW i \in Slots, i > new[d].len PROVE e[Slot(d, i)] = None
  <2>1. e[Slot(d, i)] = c[Slot(d, i)] \/ e[Slot(d, i)] = None
    BY SMTT(30), <1>0, SlotCells DEF Put
  <2> QED BY <2>1, <1>2 DEF Exact, Tidy
<1> HIDE DEF e
<1>3. Exact(new, e)
  BY <1>0, <1>1, <1>2, WriteExact
<1> QED BY <1>3 DEF e

\* Counting a word in or out (inc_ref_count, dec_ref_count).
LEMMA CountWord ==
  ASSUME NEW bs, NEW c, Exact(bs, c), NEW w \in Word,
         IsPointer(w) => bs[w.addr].count >= 1
  PROVE  /\ inc_ref_count(bs, w) \in [Blocks -> Header] /\ Wrapped(inc_ref_count(bs, w))
         /\ dec_ref_count(bs, w) \in [Blocks -> Header] /\ Wrapped(dec_ref_count(bs, w))
         /\ \A d \in Blocks : inc_ref_count(bs, w)[d].len = bs[d].len /\ dec_ref_count(bs, w)[d].len = bs[d].len
         /\ \A d \in Addr : /\ inc_ref_count(bs, w)[d].count = bs[d].count + One(w, d)
                            /\ dec_ref_count(bs, w)[d].count = bs[d].count - One(w, d)
<1>0. bs \in [Blocks -> Header] /\ Wrapped(bs) /\ Addr \subseteq Blocks
  BY DEF Exact, Typed, Blocks
<1>1. CASE ~IsPointer(w)
  <2>1. inc_ref_count(bs, w) = bs /\ dec_ref_count(bs, w) = bs
    BY <1>1 DEF inc_ref_count, dec_ref_count
  <2>2. \A d \in Addr : One(w, d) = 0
    BY <1>1, Words DEF One
  <2>3. \A d \in Addr : bs[d].count \in Nat
    BY <1>0, SetHeader
  <2> QED BY SMTT(30), <1>0, <2>1, <2>2, <2>3
<1>2. CASE IsPointer(w)
  <2>1. PICK a \in Addr : w = Pointer(a) /\ w.addr = a
    BY <1>2, Words
  <2>2. bs[a].count \in Nat /\ bs[a].count >= 1 /\ bs[a] \in Header /\ a \in Blocks
    BY <1>0, <1>2, <2>1, SetHeader
  <2>3. PICK h : h = [bs[a] EXCEPT !.count = bs[a].count + 1]
    OBVIOUS
  <2>4. PICK g : g = [bs[a] EXCEPT !.count = bs[a].count - 1]
    OBVIOUS
  <2>5. h \in Header /\ h.count = bs[a].count + 1 /\ h.len = bs[a].len /\ h.tag = bs[a].tag
    BY SMTT(30), <2>2, <2>3, SetHeader
  <2>6. g \in Header /\ g.count = bs[a].count - 1 /\ g.len = bs[a].len /\ g.tag = bs[a].tag
    BY SMTT(30), <2>2, <2>4, SetHeader
  <2>7. Wraps(h) /\ Wraps(g)
    BY <1>0, <2>2, <2>5, <2>6 DEF Wrapped, Wraps
  <2>8. inc_ref_count(bs, w) = [bs EXCEPT ![a] = h] /\ dec_ref_count(bs, w) = [bs EXCEPT ![a] = g]
    BY <1>2, <2>1, <2>3, <2>4 DEF inc_ref_count, dec_ref_count
  <2>9. \A d \in Addr : One(w, d) = IF d = a THEN 1 ELSE 0
    BY <2>1, Words DEF One
  <2>10. \A d \in Addr : bs[d].count \in Nat
    BY <1>0, SetHeader
  <2> HIDE DEF Wrapped
  <2>11. Wrapped([bs EXCEPT ![a] = h]) /\ Wrapped([bs EXCEPT ![a] = g])
    BY <1>0, <2>2, <2>5, <2>6, <2>7 DEF Wrapped
  <2> QED BY SMTT(30), <1>0, <2>2, <2>5, <2>6, <2>8, <2>9, <2>10, <2>11
<1> QED BY <1>1, <1>2

LEMMA InlineStep ==
  ASSUME IInv, NEW x \in Vars, NEW v \in Inlines, NEW p \in PosIdx, inline(x, v, p)
  PROVE  IInv'
<1>1. Exact(blocks, cell) /\ cell[x] = None /\ drops = << >> /\ drops' = drops /\ blocks' = blocks
      /\ cell' = Put(cell, x, Inline(v, p)) /\ Inline(v, p) \in Word /\ x \in Cells
  BY Words, SlotCells DEF IInv, inline, Idle, Put
<1>2. blocks \in [Blocks -> Header] /\ Wrapped(blocks) /\ Addr \subseteq Blocks
  BY <1>1 DEF Exact, Typed, Blocks
<1>3. \A d \in Addr : One(Inline(v, p), d) = 0 /\ One(cell[x], d) = 0 /\ blocks[d].count \in Nat
  BY SMTT(30), <1>1, <1>2, Words, SetHeader DEF One
<1>4. Exact(blocks, Put(cell, x, Inline(v, p)))
  BY SMTT(30), <1>1, <1>2, <1>3, CellExact
<1> QED BY <1>1, <1>4, IdleKept DEF IInv

LEMMA CloneStep ==
  ASSUME IInv, NEW x \in Vars, NEW y \in Vars, clone(x, y)
  PROVE  IInv'
<1>1. Exact(blocks, cell) /\ cell[y] = None /\ drops = << >> /\ drops' = drops
      /\ blocks' = inc_ref_count(blocks, cell[x]) /\ cell' = Put(cell, y, cell[x])
  BY DEF IInv, clone, Idle, Put
<1>2. x \in Cells /\ y \in Cells /\ cell[x] \in Word /\ (IsPointer(cell[x]) => blocks[cell[x].addr].count >= 1)
  BY <1>1, SlotCells, Pointed
<1>3. /\ blocks' \in [Blocks -> Header] /\ Wrapped(blocks')
      /\ \A d \in Blocks : blocks'[d].len = blocks[d].len
      /\ \A d \in Addr : blocks'[d].count = blocks[d].count + One(cell[x], d)
  BY <1>1, <1>2, CountWord
<1>4. \A d \in Addr : blocks'[d].count = blocks[d].count + One(cell[x], d) - One(cell[y], d)
  <2>1. \A d \in Addr : blocks[d].count \in Nat
    BY <1>1, Pointed DEF Blocks
  <2> QED BY SMTT(30), <2>1, <1>1, <1>3, Words DEF One
<1>5. Exact(blocks', cell')
  BY <1>1, <1>2, <1>3, <1>4, CellExact
<1> QED BY <1>1, <1>5, IdleKept DEF IInv

\* The drop of the word in the cell l (drop of a variable, and drop_slow).
LEMMA DropCell ==
  ASSUME IInv, NEW l \in Cells, cell[l] # None, DropWord(cell[l]),
         cell' = Put(cell, l, None)
  PROVE  IInv'
<1> DEFINE w == cell[l]
<1>1. Exact(blocks, cell) /\ Dropping(blocks, drops) /\ blocks' = dec_ref_count(blocks, w)
      /\ drops' = IF IsPointer(w) /\ blocks'[w.addr].count = 0 THEN <<w.addr>> \o drops ELSE drops
  BY DEF IInv, DropWord
<1>2. w \in Word /\ (IsPointer(w) => w.addr \in Addr /\ w = Pointer(w.addr) /\ blocks[w.addr].count >= 1)
  BY <1>1, Pointed
<1>3. \A d \in Addr : blocks[d].count \in Nat /\ d \in Blocks
  BY <1>1, Pointed DEF Blocks
<1> HIDE DEF w
<1>4. /\ blocks' \in [Blocks -> Header] /\ Wrapped(blocks')
      /\ \A d \in Blocks : blocks'[d].len = blocks[d].len
      /\ \A d \in Addr : blocks'[d].count = blocks[d].count - One(w, d)
  BY <1>1, <1>2, CountWord
<1>5. \A d \in Addr : blocks'[d].count = blocks[d].count + One(None, d) - One(cell[l], d)
  BY SMTT(30), <1>3, <1>4, Words DEF One, w
<1>6. Exact(blocks', cell')
  BY SMTT(30), <1>1, <1>4, <1>5, CellExact, Words
<1>7. drops \in Seq(Blocks) /\ \A k \in 1 .. Len(drops) : drops[k] \in Addr => blocks[drops[k]].count = 0
  BY <1>1 DEF Dropping
<1>8. \A k \in 1 .. Len(drops) : drops[k] \in Addr => blocks'[drops[k]].count = 0
  <2> SUFFICES ASSUME NEW k \in 1 .. Len(drops), drops[k] \in Addr
               PROVE  blocks'[drops[k]].count = 0
    OBVIOUS
  <2>1. blocks[drops[k]].count = 0
    BY <1>7
  <2>2. w # Pointer(drops[k])
    BY SMTT(30), <1>2, <2>1, Words
  <2> QED BY SMTT(30), <1>4, <2>1, <2>2 DEF One
<1>9. Dropping(blocks', drops')
  <2>1. CASE IsPointer(w) /\ blocks'[w.addr].count = 0
    <3>1. drops' = <<w.addr>> \o drops /\ w.addr \in Blocks
      BY <2>1, <1>1, <1>2, <1>3
    <3>2. drops' \in Seq(Blocks) /\ Len(drops') = Len(drops) + 1 /\ drops'[1] = w.addr
          /\ \A k \in 2 .. Len(drops') : k - 1 \in 1 .. Len(drops) /\ drops'[k] = drops[k - 1]
      BY SMTT(30), <3>1, <1>7
    <3>3. \A k \in 1 .. Len(drops') : k = 1 \/ k \in 2 .. Len(drops')
      BY SMTT(30), <3>2
    <3> QED BY SMTT(30), <3>2, <3>3, <2>1, <1>8 DEF Dropping
  <2>2. CASE ~(IsPointer(w) /\ blocks'[w.addr].count = 0)
    BY <2>2, <1>1, <1>7, <1>8 DEF Dropping
  <2> QED BY <2>1, <2>2
<1> QED BY <1>6, <1>9 DEF IInv

LEMMA DropStep ==
  ASSUME IInv, NEW x \in Vars, drop(x)
  PROVE  IInv'
BY DropCell, SlotCells DEF drop, Put

LEMMA DropNextStep ==
  ASSUME IInv, NEW a \in Blocks, NEW i \in Slots, DropNext(a, i)
  PROVE  IInv'
<1>1. Slot(a, i) \in Cells /\ cell[Slot(a, i)] # None /\ DropWord(cell[Slot(a, i)])
      /\ cell' = Put(cell, Slot(a, i), None)
  BY SlotCells DEF DropNext, Put
<1> QED BY <1>1, DropCell

\* The block that is freed has no words, and no word points to it.
LEMMA DeallocStep ==
  ASSUME IInv, NEW a \in Blocks, dealloc(a)
  PROVE  IInv'
<1>1. Exact(blocks, cell) /\ Dropping(blocks, drops) /\ cell' = cell /\ drops # << >> /\ a = Head(drops)
      /\ blocks' = [blocks EXCEPT ![a] = Free] /\ drops' = Tail(drops)
      /\ \A i \in Slots : cell[Slot(a, i)] = None
  BY DEF IInv, dealloc
<1>2. drops \in Seq(Blocks) /\ \A k \in 1 .. Len(drops) : drops[k] \in Addr => blocks[drops[k]].count = 0
  BY <1>1 DEF Dropping
<1>3. a = drops[1] /\ 1 \in 1 .. Len(drops)
  BY SMTT(30), <1>1, <1>2
<1>4. blocks \in [Blocks -> Header] /\ cell \in [Cells -> Word] /\ Wrapped(blocks) /\ Addr \subseteq Blocks
  BY <1>1 DEF Exact, Typed, Blocks
<1>5. blocks' \in [Blocks -> Header] /\ blocks'[a] = Free /\ \A d \in Blocks : d # a => blocks'[d] = blocks[d]
  BY <1>1, <1>4, FreeHeader
<1>6. \A d \in Addr : blocks'[d].count = blocks[d].count
  BY <1>2, <1>3, <1>4, <1>5, FreeHeader
<1>7. Exact(blocks', cell')
  <2>1. Wrapped(blocks')
    BY <1>4, <1>5, FreeHeader DEF Wrapped
  <2>2. \A d \in Addr : Cardinality(Refs(cell, d)) = blocks'[d].count
    BY <1>1, <1>6 DEF Exact, Counted
  <2>3. \A d \in Blocks, i \in Slots : i > blocks'[d].len => cell[Slot(d, i)] = None
    BY <1>1, <1>5 DEF Exact, Tidy
  <2> QED BY <1>1, <1>4, <1>5, <2>1, <2>2, <2>3, WriteExact
<1>8. Dropping(blocks', drops')
  <2>1. drops' \in Seq(Blocks) /\ \A k \in 1 .. Len(drops') : k + 1 \in 1 .. Len(drops) /\ drops'[k] = drops[k + 1]
    BY SMTT(30), <1>1, <1>2
  <2> QED BY <2>1, <1>2, <1>6 DEF Dropping
<1> QED BY <1>7, <1>8 DEF IInv

\* A block at a, where there is none, that is referenced once.
LEMMA NewHeader ==
  ASSUME NEW bs, NEW c, Exact(bs, c), NEW a \in Addr, bs[a] = Free,
         NEW tag \in DataTag \cup {"Free"}, NEW p \in PosIdx, NEW n \in Numbers, NEW len \in 0 .. MaxLen,
         tag \in WrapperTags \cup {"Thunk"} => len = 1
  PROVE  /\ encode(bs, a, tag, p, n, len) \in [Blocks -> Header]
         /\ Wrapped(encode(bs, a, tag, p, n, len))
         /\ encode(bs, a, tag, p, n, len)[a].len = len
         /\ \A d \in Blocks : d # a => encode(bs, a, tag, p, n, len)[d] = bs[d]
         /\ \A d \in Addr : encode(bs, a, tag, p, n, len)[d].count = bs[d].count + One(Pointer(a), d)
<1> DEFINE h == Block(tag, 1, p, n, len)
<1>1. h \in Header /\ h.count = 1 /\ h.len = len /\ Wraps(h)
  BY DEF Block, Header, Wraps
<1>2. bs \in [Blocks -> Header] /\ Wrapped(bs) /\ Addr \subseteq Blocks
  BY DEF Exact, Typed, Blocks
<1> HIDE DEF h
<1>3. encode(bs, a, tag, p, n, len) = [bs EXCEPT ![a] = h]
  BY DEF encode, h
<1>4. \A d \in Addr : bs[d].count \in Nat /\ One(Pointer(a), d) = IF d = a THEN 1 ELSE 0
  BY <1>2, SetHeader, Words DEF One
<1>5. Wrapped([bs EXCEPT ![a] = h])
  BY <1>1, <1>2 DEF Wrapped
<1> QED BY SMTT(30), <1>1, <1>2, <1>3, <1>4, <1>5, FreeHeader

LEMMA NewBlockStep ==
  ASSUME IInv, NEW x \in Vars, NEW a \in Addr, NEW tag \in ScalarTags \cup ContainerTags,
         NEW p \in PosIdx, NEW n \in Numbers, NewBlock(x, a, tag, p, n)
  PROVE  IInv'
<1>1. Exact(blocks, cell) /\ cell[x] = None /\ drops = << >> /\ drops' = drops /\ blocks[a] = Free
      /\ blocks' = encode(blocks, a, tag, p, n, 0) /\ cell' = Put(cell, x, Pointer(a))
      /\ x \in Cells /\ Pointer(a) \in Word
  BY SlotCells, Words DEF IInv, NewBlock, Idle, IsFree, Put
<1>2. tag \in DataTag /\ tag \notin WrapperTags \cup {"Thunk"} /\ 0 \in 0 .. MaxLen
  BY SMTT(30), HeapAssumption DEF DataTag
<1>3. /\ blocks' \in [Blocks -> Header] /\ Wrapped(blocks') /\ blocks'[a].len = 0
      /\ \A d \in Blocks : d # a => blocks'[d] = blocks[d]
      /\ \A d \in Addr : blocks'[d].count = blocks[d].count + One(Pointer(a), d)
  BY SMTT(30), <1>1, <1>2, NewHeader
<1>4. \A d \in Blocks : blocks'[d].len = blocks[d].len
  BY <1>1, <1>3, FreeHeader
<1>5. \A d \in Addr : blocks'[d].count = blocks[d].count + One(Pointer(a), d) - One(cell[x], d)
  <2>1. \A d \in Addr : blocks[d].count \in Nat
    BY <1>1, Pointed DEF Blocks
  <2> QED BY SMTT(30), <2>1, <1>1, <1>3, Words DEF One
<1>6. Exact(blocks', cell')
  BY <1>1, <1>3, <1>4, <1>5, CellExact
<1> QED BY <1>1, <1>6, IdleKept DEF IInv

LEMMA WrapBlockStep ==
  ASSUME IInv, NEW x \in Vars, NEW a \in Addr, NEW tag \in WrapperTags \cup {"Thunk"},
         NEW p \in PosIdx, WrapBlock(x, a, tag, p)
  PROVE  IInv'
<1> DEFINE s == Slot(a, 1)
<1>0. a \in Blocks /\ 1 \in Slots /\ 0 \in Numbers
  BY SMTT(30), HeapAssumption DEF Blocks, Slots
<1>1. s \in Cells /\ s # x /\ x \in Cells /\ Pointer(a) \in Word
  BY SMTT(30), <1>0, SlotCells, Words
<1>2. Exact(blocks, cell) /\ drops = << >> /\ drops' = drops /\ blocks[a] = Free
      /\ blocks' = encode(blocks, a, tag, p, 0, 1) /\ cell' = Put(Put(cell, x, Pointer(a)), s, cell[x])
  BY DEF IInv, WrapBlock, Idle, IsFree, Put
<1>3. cell[s] = None /\ cell[x] \in Word /\ cell \in [Cells -> Word]
  BY SMTT(30), <1>0, <1>1, <1>2, Pointed, FreeHeader DEF Exact, Typed, Vacant
<1>4. tag \in DataTag /\ 1 \in 0 .. MaxLen
  BY SMTT(30), HeapAssumption DEF DataTag
<1>5. /\ blocks' \in [Blocks -> Header] /\ Wrapped(blocks') /\ blocks'[a].len = 1
      /\ \A d \in Blocks : d # a => blocks'[d] = blocks[d]
      /\ \A d \in Addr : blocks'[d].count = blocks[d].count + One(Pointer(a), d)
  BY SMTT(30), <1>0, <1>2, <1>4, NewHeader
<1>6. cell' \in [Cells -> Word]
  BY <1>1, <1>2, <1>3 DEF Put
<1>7. ASSUME NEW d \in Addr PROVE Cardinality(Refs(cell', d)) = blocks'[d].count
  <2>1. Cardinality(Refs(cell', d))
          = Cardinality(Refs(cell, d)) + One(Pointer(a), d) + One(cell[x], d) - One(cell[x], d) - One(cell[s], d)
    <3> HIDE DEF s
    <3> QED BY SMTT(30), <1>1, <1>2, <1>3, TwoCells
  <2>2. Cardinality(Refs(cell, d)) = blocks[d].count /\ Cardinality(Refs(cell, d)) \in Nat
    BY <1>2, RefsFinite DEF Exact, Counted
  <2>3. One(cell[s], d) = 0
    BY <1>3, Words DEF One
  <2> QED BY SMTT(30), <2>1, <2>2, <2>3, <1>5 DEF One
<1>8. ASSUME NEW d \in Blocks, NEW i \in Slots, i > blocks'[d].len PROVE cell'[Slot(d, i)] = None
  <2>1. Slot(d, i) \in Cells /\ Slot(d, i) # x
    BY SMTT(30), SlotCells
  <2>2. Slot(d, i) # s
    BY SMTT(30), <1>0, <1>5, <1>8, SlotCells
  <2>3. cell'[Slot(d, i)] = cell[Slot(d, i)]
    BY <2>1, <2>2, <1>1, <1>2, <1>3 DEF Put
  <2>4. i > blocks[d].len
    BY SMTT(30), <1>2, <1>5, <1>8, FreeHeader DEF Slots
  <2> QED BY <2>3, <2>4, <1>2 DEF Exact, Tidy
<1>9. Exact(blocks', cell')
  BY <1>5, <1>6, <1>7, <1>8, WriteExact
<1> QED BY <1>2, <1>9, IdleKept DEF IInv

\* The copy that make_unique and content_make_mut give the variable x.
LEMMA StrongCloneExact ==
  ASSUME Exact(blocks, cell), NEW x \in Vars, NEW a \in Addr, cell[x] = Pointer(a),
         NEW b \in Addr, blocks[b] = Free
  PROVE  /\ Exact(strong_clone(x, a, b).blocks, strong_clone(x, a, b).cell)
         /\ strong_clone(x, a, b).at = b
<1>0. a \in Blocks /\ b \in Blocks /\ x \in Cells /\ blocks \in [Blocks -> Header] /\ Pointer(b) \in Word
  BY SlotCells, Words DEF Blocks, Exact, Typed
<1>1. a # b
  BY SMTT(30), <1>0, Pointed, Words, FreeHeader
<1>2. PICK h : h = [blocks[a] EXCEPT !.count = 1]
  OBVIOUS
<1>3. h \in Header /\ h.count = 1 /\ h.len = blocks[a].len /\ h.tag = blocks[a].tag
  BY SMTT(30), <1>0, <1>2, SetHeader
<1>4. Wraps(h) /\ blocks[b].len = 0 /\ blocks[b].count = 0
  BY <1>0, <1>3, FreeHeader DEF Exact, Wrapped, Wraps
<1>5. Exact([d \in Blocks |-> IF d = b THEN h ELSE Recounted(blocks, cell, a, d)], Copied(cell, a, b, x, Pointer(b)))
  BY <1>0, <1>1, <1>3, <1>4, CopyExact
<1> QED BY <1>2, <1>5 DEF strong_clone

LEMMA MutateStep ==
  ASSUME IInv, NEW x \in Vars, NEW b \in Addr, Mutate(x, b)
  PROVE  IInv'
<1>1. PICK a : a = cell[x].addr
  OBVIOUS
<1>2. Exact(blocks, cell) /\ drops = << >> /\ IsPointer(cell[x]) /\ x \in Cells
  BY SlotCells DEF IInv, Mutate, Idle
<1>3. a \in Addr /\ a \in Blocks /\ b \in Blocks /\ cell[x] = Pointer(a)
  BY <1>1, <1>2, Pointed DEF Blocks
<1>4. PICK m : m = content_make_mut(x, b)
  OBVIOUS
<1>5. Exact(m.blocks, m.cell) /\ m.at \in Blocks
  <2>1. CASE content_mut(a)
    BY <1>1, <1>2, <1>3, <1>4, <2>1 DEF content_make_mut, InPlace
  <2>2. CASE ~content_mut(a)
    <3>1. blocks[b] = Free /\ m = strong_clone(x, a, b)
      BY <1>1, <1>4, <2>2 DEF Mutate, IsFree, content_make_mut
    <3> QED BY <3>1, <1>2, <1>3, StrongCloneExact
  <2> QED BY <2>1, <2>2
<1>6. Edit(m, x)
  BY <1>4 DEF Mutate
<1>7. PICK y \in Vars : (\E n \in Numbers : SetNumber(m, n)) \/ Push(m, y) \/ Pop(m, y) \/ Swap(m, y)
  BY <1>6 DEF Edit
<1>8. Exact(blocks', cell')
  BY <1>5, <1>7, EditExact
<1>9. drops' = drops
  BY <1>6 DEF Edit
<1> QED BY <1>2, <1>8, <1>9, IdleKept DEF IInv

LEMMA PositionStep ==
  ASSUME IInv, NEW x \in Vars, NEW b \in Addr, NEW p \in PosIdx, with_pos_idx(x, b, p)
  PROVE  IInv'
<1>1. PICK a : a = cell[x].addr
  OBVIOUS
<1>2. Exact(blocks, cell) /\ drops = << >> /\ drops' = drops /\ IsPointer(cell[x]) /\ x \in Cells
  BY SlotCells DEF IInv, with_pos_idx, Idle
<1>3. a \in Addr /\ a \in Blocks /\ b \in Blocks /\ cell[x] = Pointer(a)
  BY <1>1, <1>2, Pointed DEF Blocks
<1>4. PICK m : m = IF blocks[a].count = 1 THEN InPlace(a) ELSE strong_clone(x, a, b)
  OBVIOUS
<1>5. Exact(m.blocks, m.cell) /\ m.at \in Blocks
  <2>1. CASE blocks[a].count = 1
    BY <1>2, <1>3, <1>4, <2>1 DEF InPlace
  <2>2. CASE blocks[a].count # 1
    <3>1. blocks[b] = Free /\ m = strong_clone(x, a, b)
      BY <1>1, <1>4, <2>2 DEF with_pos_idx, IsFree
    <3> QED BY <3>1, <1>2, <1>3, StrongCloneExact
  <2> QED BY <2>1, <2>2
<1>6. PICK h : h = [m.blocks[m.at] EXCEPT !.pos = p]
  OBVIOUS
<1>7. blocks' = [m.blocks EXCEPT ![m.at] = h] /\ cell' = m.cell
  BY <1>1, <1>4, <1>6 DEF with_pos_idx
<1>8. h \in Header /\ h.count = m.blocks[m.at].count /\ h.len = m.blocks[m.at].len
      /\ h.tag = m.blocks[m.at].tag
  BY <1>5, <1>6, SetHeader DEF Exact, Typed
<1>9. Exact([m.blocks EXCEPT ![m.at] = h], m.cell)
  BY <1>5, <1>8, SetExact
<1> QED BY <1>2, <1>7, <1>9, IdleKept DEF IInv

LEMMA InlinePositionStep ==
  ASSUME IInv, NEW x \in Vars, NEW p \in PosIdx, with_inline_pos_idx(x, p)
  PROVE  IInv'
<1>1. Exact(blocks, cell) /\ drops = << >> /\ drops' = drops /\ blocks' = blocks
      /\ cell[x].tag = "Inline" /\ cell' = [cell EXCEPT ![x].pos = p] /\ x \in Cells
  BY SlotCells DEF IInv, with_inline_pos_idx, Idle
<1>2. cell[x] \in Word
  BY <1>1, Pointed
<1>3. PICK v \in Inlines, q \in PosIdx : cell[x] = Inline(v, q)
  BY SMTT(30), <1>1, <1>2, Words
<1>4. cell' = Put(cell, x, Inline(v, p)) /\ Inline(v, p) \in Word
  <2>1. [cell[x] EXCEPT !.pos = p] = Inline(v, p)
    BY SMTT(30), <1>3 DEF Inline
  <2> QED BY <2>1, <1>1, Words DEF Put
<1>5. blocks \in [Blocks -> Header] /\ Wrapped(blocks) /\ Addr \subseteq Blocks
  BY <1>1 DEF Exact, Typed, Blocks
<1>6. \A d \in Addr : One(Inline(v, p), d) = 0 /\ One(cell[x], d) = 0 /\ blocks[d].count \in Nat
  BY SMTT(30), <1>3, <1>5, Words, SetHeader DEF One
<1>7. Exact(blocks, Put(cell, x, Inline(v, p)))
  BY SMTT(30), <1>1, <1>4, <1>5, <1>6, CellExact
<1> QED BY <1>1, <1>4, <1>7, IdleKept DEF IInv

LEMMA OwnBlock == Own \in Blocks /\ Own \notin Addr /\ Addr \subseteq Blocks
BY HeapAssumption DEF Blocks

\* The lens of a block: its only reference is moved out, or the data copied.
LEMMA TakeStep ==
  ASSUME IInv, NEW x \in Vars, take(x)
  PROVE  IInv'
<1>1. PICK a : a = cell[x].addr
  OBVIOUS
<1>2. Exact(blocks, cell) /\ drops = << >> /\ drops' = drops /\ x \in Cells /\ blocks[Own] = Free
  BY SlotCells DEF IInv, take, Idle
<1>3. IsPointer(cell[x])
  BY DEF take, Lens
<1>4. a \in Addr /\ a \in Blocks /\ cell[x] = Pointer(a) /\ a # Own /\ Own \in Blocks /\ Own \notin Addr
  BY <1>1, <1>2, <1>3, Pointed, OwnBlock
<1>5. blocks \in [Blocks -> Header] /\ Wrapped(blocks) /\ None \in Word
  BY <1>2, Words DEF Exact, Typed
<1>6. PICK h : h = Block(blocks[a].tag, 0, blocks[a].pos, blocks[a].n, blocks[a].len)
  OBVIOUS
<1>7. h \in Header /\ h.len = blocks[a].len /\ h.count = 0 /\ Wraps(h)
  <2>1. blocks[a] \in Header /\ Wraps(blocks[a])
    BY <1>4, <1>5 DEF Wrapped
  <2> QED BY <2>1, <1>6 DEF Block, Header, Wraps
<1>8. CASE blocks[a].count = 1
  <2>1. blocks' = [blocks EXCEPT ![a] = Free, ![Own] = h] /\ cell' = Moved(cell, a, Own, x, None)
    BY <1>1, <1>6, <1>8 DEF take
  <2>2. /\ blocks' \in [Blocks -> Header] /\ blocks'[a] = Free /\ blocks'[Own] = h
        /\ \A d \in Blocks \ {a, Own} : blocks'[d] = blocks[d]
    BY <2>1, <1>4, <1>5, <1>7, FreeHeader
  <2>3. Wrapped(blocks')
    BY <2>2, <1>5, <1>7, FreeHeader DEF Wrapped
  <2>4. \A d \in Addr : blocks'[d].count = blocks[d].count + One(None, d) - One(cell[x], d)
    <3>1. \A d \in Addr : blocks[d].count \in Nat /\ d \in Blocks /\ d # Own
      BY <1>2, <1>4, Pointed, OwnBlock
    <3>2. \A d \in Addr : One(None, d) = 0 /\ One(cell[x], d) = IF d = a THEN 1 ELSE 0
      BY <1>4, Words DEF One
    <3> QED BY SMTT(30), <3>1, <3>2, <2>2, <1>8, FreeHeader
  <2>5. blocks[Own].len = 0 /\ blocks'[Own].len = blocks[a].len
        /\ \A d \in Blocks \ {a, Own} : blocks'[d].len = blocks[d].len
    BY <1>2, <1>7, <2>2, FreeHeader
  <2>6. Exact(blocks', Moved(cell, a, Own, x, None))
    BY <1>2, <1>4, <1>5, <2>2, <2>3, <2>4, <2>5, MoveExact
  <2> QED BY <1>2, <2>1, <2>6, IdleKept DEF IInv
<1>9. CASE blocks[a].count # 1
  <2>1. blocks' = [d \in Blocks |-> IF d = Own THEN h ELSE Recounted(blocks, cell, a, d)]
        /\ cell' = Copied(cell, a, Own, x, None)
    BY <1>1, <1>6, <1>9 DEF take
  <2>2. blocks[Own].len = 0 /\ blocks[Own].count = 0
    BY <1>2, FreeHeader
  <2>3. Exact([d \in Blocks |-> IF d = Own THEN h ELSE Recounted(blocks, cell, a, d)],
              Copied(cell, a, Own, x, None))
    BY <1>2, <1>4, <1>5, <1>7, <2>2, CopyExact
  <2> QED BY <1>2, <2>1, <2>3, IdleKept DEF IInv
<1> QED BY <1>8, <1>9

LEMMA UnwrapStep ==
  ASSUME IInv, NEW x \in Vars, unwrap_or_alloc(x)
  PROVE  IInv'
<1>1. Exact(blocks, cell) /\ drops = << >> /\ drops' = drops /\ x \in Cells /\ blocks[Own] = Free
      /\ blocks' = [blocks EXCEPT ![Own] = Block(ContainerOf(cell[x]), 0, cell[x].pos, 0, 0)]
      /\ cell' = Put(cell, x, None)
  BY SlotCells DEF IInv, unwrap_or_alloc, Idle, Put
<1>2. ~IsPointer(cell[x]) /\ cell[x] # None /\ cell[x].inline \in {"EmptyArray", "EmptyRecord"}
  BY DEF unwrap_or_alloc, Lens
<1>3. cell[x] \in Word /\ cell[x].inline \in Inlines /\ cell[x].pos \in PosIdx /\ None \in Word
  BY <1>1, <1>2, Pointed, Words
<1>4. ContainerOf(cell[x]) \in ContainerTags
  <2>1. PICK t \in ContainerTags : cell[x].inline = EmptyOf(t)
    BY <1>2, <1>3, HeapAssumption
  <2>2. t \in {"Array", "Record"}
    BY <2>1, HeapAssumption
  <2> QED BY <2>1, <2>2 DEF ContainerOf, EmptyOf
<1>5. PICK h : h = Block(ContainerOf(cell[x]), 0, cell[x].pos, 0, 0)
  OBVIOUS
<1>6. h \in Header /\ h.count = 0 /\ h.len = 0 /\ Wraps(h)
  <2>1. PICK t \in ContainerTags : t = ContainerOf(cell[x])
    BY <1>4
  <2>2. t \notin WrapperTags \cup {"Thunk"} /\ t \in DataTag
    BY HeapAssumption DEF DataTag
  <2>3. 0 \in Numbers /\ 0 \in 0 .. MaxLen
    BY SMTT(30), HeapAssumption
  <2> QED BY <2>1, <2>2, <2>3, <1>3, <1>5 DEF Block, Header, Wraps
<1>7. blocks \in [Blocks -> Header] /\ Wrapped(blocks)
  BY <1>1 DEF Exact, Typed
<1>8. /\ blocks' \in [Blocks -> Header] /\ blocks'[Own] = h
      /\ \A d \in Blocks : d # Own => blocks'[d] = blocks[d]
  BY <1>1, <1>5, <1>6, <1>7, OwnBlock
<1>9. Wrapped(blocks') /\ \A d \in Blocks : blocks'[d].len = blocks[d].len
  BY <1>1, <1>6, <1>7, <1>8, FreeHeader DEF Wrapped
<1>10. \A d \in Addr : blocks'[d].count = blocks[d].count + One(None, d) - One(cell[x], d)
  <2>1. \A d \in Addr : blocks[d].count \in Nat /\ blocks'[d] = blocks[d]
    BY <1>1, <1>8, Pointed, OwnBlock
  <2>2. \A d \in Addr : One(None, d) = 0 /\ One(cell[x], d) = 0
    BY SMTT(30), <1>2, Words DEF One
  <2> QED BY SMTT(30), <2>1, <2>2
<1>11. Exact(blocks', cell')
  BY <1>1, <1>3, <1>8, <1>9, <1>10, CellExact
<1> QED BY <1>1, <1>11, IdleKept DEF IInv

LEMMA EditOwnStep ==
  ASSUME IInv, EditOwn
  PROVE  IInv'
<1>1. Exact(blocks, cell) /\ drops = << >>
  BY DEF IInv, EditOwn, Idle
<1>2. PICK x \in Vars : Edit(InPlace(Own), x)
  BY DEF EditOwn
<1>3. PICK m : m = InPlace(Own)
  OBVIOUS
<1>4. Exact(m.blocks, m.cell) /\ m.at \in Blocks
  BY <1>1, <1>3, OwnBlock DEF InPlace
<1>5. drops' = drops
  BY <1>2 DEF Edit
<1>6. PICK y \in Vars : (\E n \in Numbers : SetNumber(m, n)) \/ Push(m, y) \/ Pop(m, y) \/ Swap(m, y)
  BY <1>2, <1>3 DEF Edit
<1>7. Exact(blocks', cell')
  BY <1>4, <1>6, EditExact
<1> QED BY <1>1, <1>5, <1>7, IdleKept DEF IInv

\* Content without words becomes an inline value.
LEMMA PutInlineExact ==
  ASSUME Exact(blocks, cell), NEW x \in Vars, NEW p \in PosIdx, cell[x] = None,
         TagOf(Own) \in ContainerTags, blocks[Own].len = 0, PutInline(x, p)
  PROVE  Exact(blocks', cell')
<1>1. PICK v : v = EmptyOf(TagOf(Own))
  OBVIOUS
<1>2. v \in Inlines
  BY <1>1, HeapAssumption
<1>3. blocks' = [blocks EXCEPT ![Own] = Free] /\ cell' = Put(cell, x, Inline(v, p)) /\ x \in Cells
      /\ Inline(v, p) \in Word
  BY <1>1, <1>2, SlotCells, Words DEF PutInline, Put
<1>4. blocks \in [Blocks -> Header] /\ Wrapped(blocks)
  BY DEF Exact, Typed
<1>5. blocks' \in [Blocks -> Header] /\ blocks'[Own] = Free /\ \A d \in Blocks : d # Own => blocks'[d] = blocks[d]
  BY <1>3, <1>4, OwnBlock, FreeHeader
<1>6. Wrapped(blocks') /\ \A d \in Blocks : blocks'[d].len = blocks[d].len
  BY <1>4, <1>5, FreeHeader DEF Wrapped
<1>7. \A d \in Addr : blocks'[d].count = blocks[d].count + One(Inline(v, p), d) - One(cell[x], d)
  <2>1. \A d \in Addr : blocks[d].count \in Nat /\ blocks'[d] = blocks[d]
    BY <1>5, Pointed, OwnBlock
  <2>2. \A d \in Addr : One(Inline(v, p), d) = 0 /\ One(cell[x], d) = 0
    BY SMTT(30), Words DEF One
  <2> QED BY SMTT(30), <2>1, <2>2
<1> QED BY <1>3, <1>5, <1>6, <1>7, CellExact

\* Content becomes the data of a new block.
LEMMA PutBlockExact ==
  ASSUME Exact(blocks, cell), NEW x \in Vars, NEW a \in Addr, NEW p \in PosIdx, cell[x] = None,
         PutBlock(x, a, p)
  PROVE  Exact(blocks', cell')
<1>1. PICK b : b = blocks[Own]
  OBVIOUS
<1>2. blocks \in [Blocks -> Header] /\ Wrapped(blocks) /\ Pointer(a) \in Word /\ blocks[a] = Free
      /\ a \in Blocks /\ a # Own /\ Own \in Blocks
  BY Words, OwnBlock DEF Exact, Typed, PutBlock, IsFree
<1>3. b \in Header /\ b.tag \in DataTag \cup {"Free"} /\ b.n \in Numbers /\ b.len \in 0 .. MaxLen /\ Wraps(b)
  BY <1>1, <1>2 DEF Header, Wrapped
<1>4. PICK bs : bs = encode(blocks, a, b.tag, p, b.n, b.len)
  OBVIOUS
<1>5. /\ bs \in [Blocks -> Header] /\ Wrapped(bs) /\ bs[a].len = b.len
      /\ \A d \in Blocks : d # a => bs[d] = blocks[d]
      /\ \A d \in Addr : bs[d].count = blocks[d].count + One(Pointer(a), d)
  BY SMTT(30), <1>2, <1>3, <1>4, NewHeader DEF Wraps
<1>6. blocks' = [bs EXCEPT ![Own] = Free] /\ cell' = Moved(cell, Own, a, x, Pointer(a))
  BY <1>1, <1>4 DEF PutBlock
<1>7. blocks' \in [Blocks -> Header] /\ blocks'[Own] = Free /\ \A d \in Blocks : d # Own => blocks'[d] = bs[d]
  BY <1>2, <1>5, <1>6, FreeHeader
<1>8. Wrapped(blocks')
  BY <1>5, <1>7, FreeHeader DEF Wrapped
<1>9. \A d \in Addr : blocks'[d].count = blocks[d].count + One(Pointer(a), d) - One(cell[x], d)
  <2>1. \A d \in Addr : blocks[d].count \in Nat /\ blocks'[d] = bs[d]
    BY <1>7, Pointed, OwnBlock
  <2>2. \A d \in Addr : One(cell[x], d) = 0 /\ One(Pointer(a), d) \in Nat
    BY Words DEF One
  <2> QED BY SMTT(30), <2>1, <2>2, <1>5
<1>10. blocks[a].len = 0 /\ blocks'[a].len = blocks[Own].len
       /\ \A d \in Blocks \ {Own, a} : blocks'[d].len = blocks[d].len
  BY <1>1, <1>2, <1>5, <1>7, FreeHeader
<1>11. PICK w : w = Pointer(a)
  OBVIOUS
<1>12. Exact(blocks', Moved(cell, Own, a, x, w))
  BY <1>2, <1>7, <1>8, <1>9, <1>10, <1>11, MoveExact
<1> QED BY <1>6, <1>11, <1>12

LEMMA FromContentStep ==
  ASSUME IInv, NEW x \in Vars, NEW a \in Addr, FromContent(x, a)
  PROVE  IInv'
<1>1. Exact(blocks, cell) /\ drops = << >> /\ drops' = drops /\ cell[x] = None
  BY DEF IInv, FromContent, Idle
<1>2. blocks[Own].pos \in PosIdx
  BY <1>1, OwnBlock, SetHeader DEF Exact, Typed
<1>3. CASE Inlined(blocks[Own])
  <2>1. PutInline(x, blocks[Own].pos) /\ TagOf(Own) \in ContainerTags /\ blocks[Own].len = 0
    BY <1>3 DEF FromContent, Inlined, TagOf
  <2> QED BY <2>1, <1>1, <1>2, PutInlineExact, IdleKept DEF IInv
<1>4. CASE ~Inlined(blocks[Own])
  <2>1. PutBlock(x, a, blocks[Own].pos)
    BY <1>4 DEF FromContent
  <2> QED BY <2>1, <1>1, <1>2, PutBlockExact, IdleKept DEF IInv
<1> QED BY <1>3, <1>4

LEMMA RecordPoslessStep ==
  ASSUME IInv, NEW x \in Vars, NEW a \in Addr, record_posless(x, a)
  PROVE  IInv'
<1>1. Exact(blocks, cell) /\ drops = << >> /\ drops' = drops /\ cell[x] = None
  BY DEF IInv, record_posless, Idle
<1>2. NONE \in PosIdx
  BY HeapAssumption
<1>3. TagOf(Own) \in ContainerTags
  <2>1. TagOf(Own) = "Record" /\ TagOf(Own) \in DataTag \cup {"Free"}
    BY <1>1, OwnBlock DEF record_posless, TagOf, Exact, Typed, Header
  <2> QED BY <2>1, HeapAssumption DEF DataTag
<1>4. CASE blocks[Own].len = 0
  <2>1. PutInline(x, NONE)
    BY <1>4 DEF record_posless
  <2> QED BY <2>1, <1>1, <1>2, <1>3, <1>4, PutInlineExact, IdleKept DEF IInv
<1>5. CASE blocks[Own].len # 0
  <2>1. PutBlock(x, a, NONE)
    BY <1>5 DEF record_posless
  <2> QED BY <2>1, <1>1, <1>2, PutBlockExact, IdleKept DEF IInv
<1> QED BY <1>4, <1>5

LEMMA DropOwnStep ==
  ASSUME IInv, DropOwn
  PROVE  IInv'
<1>1. Exact(blocks', cell') /\ drops' = <<Own>>
  BY DEF IInv, DropOwn
<1>2. Dropping(blocks', drops')
  BY SMTT(30), <1>1, OwnBlock DEF Dropping
<1> QED BY <1>1, <1>2 DEF IInv

-----------------------------------------------------------------------------
(* The theorems.                                                           *)

LEMMA InitExact == Init => IInv
<1> SUFFICES ASSUME Init PROVE IInv
  OBVIOUS
<1>1. blocks \in [Blocks -> Header] /\ cell \in [Cells -> Word] /\ drops = << >>
      /\ (\A a \in Blocks : blocks[a] = Free) /\ \A l \in Cells : cell[l] = None
  BY FreeHeader, Words DEF Init
<1>2. ASSUME NEW d \in Addr PROVE Cardinality(Refs(cell, d)) = blocks[d].count
  <2>1. Refs(cell, d) = {}
    BY <1>1, Words DEF Refs
  <2>2. blocks[d].count = 0
    BY <1>1, OwnBlock, FreeHeader
  <2> QED BY <2>1, <2>2, FS_EmptySet
<1>3. Wrapped(blocks) /\ \A d \in Blocks, i \in Slots : i > blocks[d].len => cell[Slot(d, i)] = None
  BY <1>1, FreeHeader, SlotCells DEF Wrapped
<1>4. Exact(blocks, cell)
  BY <1>1, <1>2, <1>3, WriteExact
<1>5. Dropping(blocks, drops)
  BY SMTT(30), <1>1 DEF Dropping
<1> QED BY <1>4, <1>5 DEF IInv

LEMMA NextExact == IInv /\ [Next]_vars => IInv'
<1> SUFFICES ASSUME IInv, [Next]_vars PROVE IInv'
  OBVIOUS
<1>1. ASSUME NEW x \in Vars, NEW v \in Inlines, NEW p \in PosIdx, inline(x, v, p) PROVE IInv'
  BY <1>1, InlineStep
<1>2. ASSUME NEW x \in Vars, NEW a \in Addr, NEW tag \in ScalarTags \cup ContainerTags,
             NEW p \in PosIdx, NEW n \in Numbers, NewBlock(x, a, tag, p, n)
      PROVE  IInv'
  BY <1>2, NewBlockStep
<1>3. ASSUME NEW x \in Vars, NEW a \in Addr, NEW tag \in WrapperTags \cup {"Thunk"}, NEW p \in PosIdx,
             WrapBlock(x, a, tag, p)
      PROVE  IInv'
  BY <1>3, WrapBlockStep
<1>4. ASSUME NEW x \in Vars, NEW y \in Vars, clone(x, y) PROVE IInv'
  BY <1>4, CloneStep
<1>5. ASSUME NEW x \in Vars, drop(x) PROVE IInv'
  BY <1>5, DropStep
<1>6. ASSUME NEW a \in Blocks, NEW i \in Slots, DropNext(a, i) PROVE IInv'
  BY <1>6, DropNextStep
<1>7. ASSUME NEW a \in Blocks, dealloc(a) PROVE IInv'
  BY <1>7, DeallocStep
<1>8. ASSUME NEW x \in Vars, NEW b \in Addr, Mutate(x, b) PROVE IInv'
  BY <1>8, MutateStep
<1>9. ASSUME NEW x \in Vars, NEW b \in Addr, NEW p \in PosIdx, with_pos_idx(x, b, p) PROVE IInv'
  BY <1>9, PositionStep
<1>10. ASSUME NEW x \in Vars, NEW p \in PosIdx, with_inline_pos_idx(x, p) PROVE IInv'
  BY <1>10, InlinePositionStep
<1>11. ASSUME NEW x \in Vars, take(x) PROVE IInv'
  BY <1>11, TakeStep
<1>12. ASSUME NEW x \in Vars, unwrap_or_alloc(x) PROVE IInv'
  BY <1>12, UnwrapStep
<1>13. CASE EditOwn
  BY <1>13, EditOwnStep
<1>14. ASSUME NEW x \in Vars, NEW a \in Addr, FromContent(x, a) PROVE IInv'
  BY <1>14, FromContentStep
<1>15. ASSUME NEW x \in Vars, NEW a \in Addr, record_posless(x, a) PROVE IInv'
  BY <1>15, RecordPoslessStep
<1>16. CASE DropOwn
  BY <1>16, DropOwnStep
<1>17. CASE UNCHANGED vars
  BY <1>17 DEF vars, IInv, Exact, Typed, Counted, Tidy, Wrapped, Dropping
<1> QED
  BY <1>1, <1>2, <1>3, <1>4, <1>5, <1>6, <1>7, <1>8, <1>9, <1>10, <1>11, <1>12, <1>13, <1>14,
     <1>15, <1>16, <1>17, Zenon DEF Next

LEMMA ExactCounts == IInv => TypeOK /\ RefCountsExact
<1> SUFFICES ASSUME IInv PROVE TypeOK /\ RefCountsExact
  OBVIOUS
<1>1. Exact(blocks, cell) /\ drops \in Seq(Blocks)
  BY DEF IInv, Dropping
<1>2. TypeOK
  BY <1>1 DEF TypeOK, Exact, Typed
<1>3. \A l \in Cells : IsPointer(cell[l]) => blocks[cell[l].addr] # Free
  <2>1. \A l \in Cells : IsPointer(cell[l]) => blocks[cell[l].addr].count >= 1
    BY <1>1, Pointed
  <2> QED BY SMTT(30), <2>1, FreeHeader
<1>4. \A a \in Addr : blocks[a] # Free => blocks[a].count = Cardinality(PointersTo(a))
  BY <1>1 DEF Exact, Counted, Refs, PointersTo
<1> QED BY <1>2, <1>3, <1>4 DEF RefCountsExact

\* For any number of variables, blocks and words in a block, the count in the
\* header of each block is the number of words that point to it, and no word
\* points to freed memory (ValueBlockRc, content_make_mut, ValueLens).
THEOREM CountsSafety == Spec => [](TypeOK /\ RefCountsExact)
<1>1. Init => IInv
  BY InitExact
<1>2. IInv /\ [Next]_vars => IInv'
  BY NextExact
<1>3. IInv => TypeOK /\ RefCountsExact
  BY ExactCounts
<1> QED BY <1>1, <1>2, <1>3, PTL DEF Spec

\* The bits of the header that hold a count.
CountsFit == \A a \in Addr : blocks[a].count <= MAX_REF_COUNT

\* A count never exceeds the largest that a header can hold as long as memory
\* has no more words than that: the abort of inc_ref_count is for leaks only.
THEOREM CountsNeverOverflow == Spec => []CountsFit
<1>1. Init => IInv
  BY InitExact
<1>2. IInv /\ [Next]_vars => IInv'
  BY NextExact
<1>3. IInv => CountsFit
  <2> SUFFICES ASSUME IInv, NEW a \in Addr PROVE blocks[a].count <= MAX_REF_COUNT
    BY DEF CountsFit
  <2>1. blocks[a].count = Cardinality(Refs(cell, a))
    BY DEF IInv, Exact, Counted
  <2>2. Refs(cell, a) \in SUBSET Cells
    BY DEF Refs
  <2>3. Cardinality(Refs(cell, a)) <= Cardinality(Cells)
    BY <2>2, CellsFinite, FS_Subset
  <2>4. Cardinality(Refs(cell, a)) \in Nat /\ Cardinality(Cells) \in Nat
    BY RefsFinite, CellsFinite, FS_CardinalityType
  <2> QED BY SMTT(30), <2>1, <2>3, <2>4, HeapAssumption
<1> QED BY <1>1, <1>2, <1>3, PTL DEF Spec
=============================================================================
