-------------------------- MODULE ValueLeakProofs ---------------------------
(***************************************************************************)
(* That no block of ValueHeap leaks but on a cycle through a thunk, for    *)
(* any number of variables, blocks and words in a block.                   *)
(*                                                                         *)
(* NothingLeaks needs two more facts than exact counts: a block in memory  *)
(* is referenced or is being dropped, and no set of blocks without a thunk *)
(* is one in which each is pointed to by another.  From these, a block     *)
(* that the program cannot reach has an ancestor in every one of its       *)
(* ancestors, and a smallest set of such ancestors is a cycle.             *)
(***************************************************************************)
EXTENDS ValueHeapProofs, WellFoundedInduction

\* Most leaves are first-order reasoning.  Those with arithmetic, sequences or
\* records name SMT.
USE Zenon

\* No cycle but through a thunk, as a property of finite sets: among blocks
\* that are no thunks one is at the top, that none of them points to.
NoLoops(bs, c) ==
  \A U \in SUBSET {a \in Addr : bs[a].tag # "Thunk"} :
    U # {} => \E a \in U : \A b \in U, i \in Slots : c[Slot(b, i)] # Pointer(a)

\* A block in memory is referenced or being dropped.
Kept(bs, ds) ==
  \A a \in Addr : bs[a] # Free => bs[a].count >= 1 \/ \E k \in 1 .. Len(ds) : ds[k] = a

LInv == NoLoops(blocks, cell) /\ Kept(blocks, drops)

-----------------------------------------------------------------------------
(* What can be reached.                                                    *)

LEMMA SuccessorsOf ==
  ASSUME IInv, NEW a \in Blocks
  PROVE  /\ Successors(a) \subseteq Addr
         /\ \A d : d \in Successors(a) <=> \E i \in Slots : cell[Slot(a, i)] = Pointer(d)
<1>1. \A i \in Slots : IsPointer(cell[Slot(a, i)]) =>
        cell[Slot(a, i)].addr \in Addr /\ cell[Slot(a, i)] = Pointer(cell[Slot(a, i)].addr)
  BY SMTT(30), SlotCells, Pointed DEF IInv
<1> QED BY SMTT(30), <1>1, Words DEF Successors

\* From(S) contains S, is closed, and is the least such set.
LEMMA FromLeast ==
  ASSUME IInv, NEW S \in SUBSET Addr
  PROVE  /\ From(S) \in SUBSET Addr /\ S \subseteq From(S) /\ Closed(From(S))
         /\ \A T \in SUBSET Addr : S \subseteq T /\ Closed(T) => From(S) \subseteq T
<1>1. From(S) \in SUBSET Addr /\ S \subseteq From(S)
  BY DEF From
<1>2. \A T \in SUBSET Addr : S \subseteq T /\ Closed(T) => From(S) \subseteq T
  BY DEF From
<1>3. ASSUME NEW a \in From(S), NEW d \in Successors(a) PROVE d \in From(S)
  <2>1. a \in Blocks /\ d \in Addr
    BY <1>1, SuccessorsOf DEF Blocks
  <2>2. ASSUME NEW T \in SUBSET Addr, S \subseteq T, Closed(T) PROVE d \in T
    BY <1>2, <1>3, <2>2 DEF Closed
  <2> QED BY <2>1, <2>2 DEF From
<1> QED BY <1>1, <1>2, <1>3 DEF Closed

\* Whatever is reached from what S reaches is reached from S.
LEMMA FromFrom ==
  ASSUME IInv, NEW S \in SUBSET Addr, NEW T \in SUBSET Addr, T \subseteq From(S)
  PROVE  From(T) \subseteq From(S)
BY FromLeast

\* What b reaches is b, or is reached from what its data points to.
LEMMA FromOne ==
  ASSUME IInv, NEW b \in Addr
  PROVE  From({b}) \subseteq {b} \cup From(Successors(b))
<1>1. Successors(b) \in SUBSET Addr
  BY SuccessorsOf DEF Blocks
<1>2. From(Successors(b)) \in SUBSET Addr /\ Successors(b) \subseteq From(Successors(b))
      /\ Closed(From(Successors(b)))
  BY <1>1, FromLeast
<1>3. Closed({b} \cup From(Successors(b)))
  BY <1>2 DEF Closed
<1>4. {b} \in SUBSET Addr /\ {b} \cup From(Successors(b)) \in SUBSET Addr
  BY <1>2
<1>5. PICK T \in SUBSET Addr : T = {b} \cup From(Successors(b))
  BY <1>4
<1>6. {b} \subseteq T /\ Closed(T)
  BY <1>3, <1>5
<1>7. From({b}) \subseteq T
  BY <1>4, <1>6, FromLeast
<1> QED BY <1>5, <1>7

\* The blocks from which c can be reached.
Above(c) == {p \in Addr : c \in From({p})}

LEMMA AboveFacts ==
  ASSUME IInv, NEW c \in Addr
  PROVE  /\ c \in Above(c) /\ Above(c) \in SUBSET Addr
         /\ \A p \in Above(c) : Above(p) \subseteq Above(c)
         /\ \A p \in Addr : c \in Successors(p) => p \in Above(c)
<1>1. \A p \in Addr : {p} \in SUBSET Addr /\ p \in From({p}) /\ Closed(From({p})) /\ From({p}) \in SUBSET Addr
  BY FromLeast
<1>2. ASSUME NEW p \in Above(c), NEW q \in Above(p) PROVE q \in Above(c)
  <2>1. p \in Addr /\ q \in Addr /\ c \in From({p}) /\ p \in From({q})
    BY <1>2 DEF Above
  <2>2. From({p}) \subseteq From({q})
    BY <1>1, <2>1, FromFrom
  <2> QED BY <2>1, <2>2 DEF Above
<1>3. ASSUME NEW p \in Addr, c \in Successors(p) PROVE p \in Above(c)
  BY <1>1, <1>3 DEF Above, Closed
<1> QED BY <1>1, <1>2, <1>3 DEF Above

LEMMA RootsInMemory == IInv => Roots \in SUBSET Addr
<1> SUFFICES ASSUME IInv PROVE Roots \in SUBSET Addr
  OBVIOUS
<1>1. \A x \in Vars : IsPointer(cell[x]) => cell[x].addr \in Addr
  BY SlotCells, Pointed DEF IInv
<1>2. Successors(Own) \subseteq Addr
  BY OwnBlock, SuccessorsOf
<1> QED BY <1>1, <1>2 DEF Roots

\* A block that has references but that the program cannot reach is pointed
\* to by the data of another.
LEMMA Parent ==
  ASSUME IInv, LInv, Idle, NEW c \in Addr, blocks[c] # Free, c \notin From(Roots)
  PROVE  \E p \in Addr : c \in Successors(p)
<1>1. Exact(blocks, cell) /\ drops = << >>
  BY DEF IInv, Idle
<1>2. blocks[c].count >= 1
  <2>1. ~ \E k \in 1 .. Len(drops) : drops[k] = c
    BY SMTT(30), <1>1
  <2> QED BY <2>1 DEF LInv, Kept
<1>3. blocks[c].count = Cardinality(Refs(cell, c))
  BY <1>1 DEF Exact, Counted
<1>4. Refs(cell, c) # {}
  <2>1. Cardinality({}) = 0
    BY FS_EmptySet
  <2> QED BY SMTT(30), <2>1, <1>2, <1>3
<1>5. PICK l \in Cells : cell[l] = Pointer(c)
  BY <1>4 DEF Refs
<1>6. Roots \in SUBSET Addr
  BY RootsInMemory
<1>7. c \notin Roots
  BY <1>6, FromLeast
<1>8. l \notin Vars
  BY SMTT(30), <1>5, <1>7, Words DEF Roots
<1>9. PICK b \in Blocks : l \in SlotsOf(b)
  BY <1>8 DEF Cells
<1>10. PICK i \in Slots : l = Slot(b, i)
  BY <1>9 DEF SlotsOf
<1>11. c \in Successors(b)
  BY <1>5, <1>10, SuccessorsOf
<1>12. b # Own
  BY <1>7, <1>11 DEF Roots
<1> QED BY <1>9, <1>11, <1>12 DEF Blocks

\* Each ancestor of a block that the program cannot reach is another such.
LEMMA Ancestors ==
  ASSUME IInv, LInv, Idle, NEW a \in Addr, blocks[a] # Free, a \notin From(Roots),
         NEW c \in Above(a)
  PROVE  c \in Addr /\ \E p \in Above(c) : c \in Successors(p)
<1>1. c \in Addr /\ a \in From({c}) /\ c \in Blocks
  BY DEF Above, Blocks
<1>2. Roots \in SUBSET Addr
  BY RootsInMemory
<1>3. c \notin From(Roots)
  <2> SUFFICES ASSUME c \in From(Roots) PROVE FALSE
    OBVIOUS
  <2>1. {c} \in SUBSET Addr /\ {c} \subseteq From(Roots)
    BY <1>1
  <2> QED BY <1>1, <1>2, <2>1, FromFrom
<1>4. blocks[c] # Free
  <2> SUFFICES ASSUME blocks[c] = Free PROVE FALSE
    OBVIOUS
  <2>1. \A i \in Slots : cell[Slot(c, i)] = None
    <3>1. \A i \in Slots : i > 0
      BY SMTT(30), HeapAssumption DEF Slots
    <3> QED BY <3>1, <1>1, FreeHeader DEF IInv, Exact, Tidy
  <2>2. Successors(c) = {}
    BY SMTT(30), <1>1, <2>1, SuccessorsOf, Words
  <2>3. Closed({c}) /\ {c} \in SUBSET Addr
    BY <1>1, <2>2 DEF Closed
  <2>4. From({c}) \subseteq {c}
    BY SMTT(30), <2>3, FromLeast
  <2> QED BY <1>1, <2>4
<1>5. PICK p \in Addr : c \in Successors(p)
  BY <1>1, <1>3, <1>4, Parent
<1> QED BY <1>1, <1>5, AboveFacts

\* Of the ancestors of a, one whose own ancestors are fewest.
LEMMA Smallest ==
  ASSUME IInv, NEW a \in Addr
  PROVE  \E c \in Above(a) : \A p \in Above(c) : Above(p) = Above(c)
<1> DEFINE T == {Above(c) : c \in Above(a)}
           R == StrictSubsetOrdering(Addr)
<1>1. IsFiniteSet(Addr)
  BY HeapAssumption
<1>2. IsWellFoundedOn(R, SUBSET Addr)
  BY <1>1, FS_StrictSubsetOrderingWellFounded, FS_FiniteSubsetsOfFinite
<1>3. T \subseteq SUBSET Addr /\ T # {}
  <2>1. \A c : Above(c) \in SUBSET Addr
    BY DEF Above
  <2> QED BY <2>1, AboveFacts
<1>4. PICK K \in T : \A y \in T : ~ (<<y, K>> \in R)
  BY <1>2, <1>3, WFMin
<1>5. PICK c \in Above(a) : K = Above(c)
  BY <1>4
<1>6. ASSUME NEW p \in Above(c) PROVE Above(p) = Above(c)
  <2>1. c \in Addr /\ p \in Above(a)
    <3>1. c \in Addr
      BY DEF Above
    <3> QED BY <3>1, AboveFacts
  <2>2. Above(p) \subseteq Above(c)
    BY <2>1, AboveFacts
  <2>3. Above(p) \in T /\ Above(p) \in SUBSET Addr /\ Above(c) \in SUBSET Addr
    BY <2>1 DEF Above
  <2>4. ~ (<<Above(p), Above(c)>> \in R)
    BY <1>4, <1>5, <2>3
  <2>5. <<Above(p), Above(c)>> \in (SUBSET Addr) \X (SUBSET Addr)
    BY <2>3
  <2> QED BY <2>2, <2>3, <2>4, <2>5 DEF StrictSubsetOrdering
<1> QED BY <1>6

\* The smallest set of ancestors has a thunk, which reaches itself.
LEMMA LeaksAreCycles ==
  ASSUME IInv, LInv
  PROVE  NothingLeaks
<1> SUFFICES ASSUME Idle, NEW a \in Addr, blocks[a] # Free, a \notin From(Roots)
             PROVE  \E b \in Addr : TagOf(b) = "Thunk" /\ b \in From(Successors(b)) /\ a \in From({b})
  BY DEF NothingLeaks
<1>1. PICK c \in Above(a) : \A p \in Above(c) : Above(p) = Above(c)
  BY Smallest
<1>2. c \in Addr /\ c \in Above(c) /\ Above(c) \in SUBSET Addr /\ Above(c) \subseteq Above(a)
  <2>1. c \in Addr
    BY DEF Above
  <2> QED BY <2>1, AboveFacts
<1>3. \A q \in Above(c) : \E p \in Above(c) : q \in Successors(p)
  <2> SUFFICES ASSUME NEW q \in Above(c) PROVE \E p \in Above(c) : q \in Successors(p)
    OBVIOUS
  <2>1. q \in Above(a)
    BY <1>2
  <2>2. PICK p \in Above(q) : q \in Successors(p)
    BY <2>1, Ancestors
  <2> QED BY <1>1, <2>2
<1>4. PICK b \in Above(c) : TagOf(b) = "Thunk"
  <2> SUFFICES ASSUME \A b \in Above(c) : TagOf(b) # "Thunk" PROVE FALSE
    OBVIOUS
  <2>1. Above(c) \in SUBSET {d \in Addr : blocks[d].tag # "Thunk"} /\ Above(c) # {}
    BY <1>2 DEF TagOf
  <2>2. PICK q \in Above(c) : \A p \in Above(c), i \in Slots : cell[Slot(p, i)] # Pointer(q)
    BY <2>1 DEF LInv, NoLoops
  <2>3. PICK p \in Above(c) : q \in Successors(p)
    BY <1>3
  <2> QED BY <1>2, <2>2, <2>3, SuccessorsOf DEF Blocks
<1>5. b \in Addr /\ a \in From({b})
  BY <1>2 DEF Above
<1>6. PICK p \in Above(c) : b \in Successors(p)
  BY <1>3
<1>7. p \in From({b}) /\ p \in Addr
  BY <1>1, <1>2, <1>4 DEF Above
<1>8. Successors(b) \in SUBSET Addr
  BY <1>5, SuccessorsOf DEF Blocks
<1>9. From(Successors(b)) \in SUBSET Addr /\ Successors(b) \subseteq From(Successors(b))
      /\ Closed(From(Successors(b)))
  BY <1>8, FromLeast
<1>10. b \in From(Successors(b))
  <2>1. CASE p = b
    BY <2>1, <1>6, <1>9
  <2>2. CASE p # b
    <3>1. p \in From(Successors(b))
      BY <2>2, <1>5, <1>7, FromOne
    <3> QED BY <3>1, <1>6, <1>9 DEF Closed
  <2> QED BY <2>1, <2>2
<1> QED BY <1>4, <1>5, <1>10

-----------------------------------------------------------------------------
(* Steps keep blocks without loops, and in memory only as long as they are *)
(* referenced.                                                             *)

\* The data of blocks changes in one block b only, to which no data points,
\* but for words that are taken out and for thunks.  A thunk that becomes a
\* free block is one to which no data points either.
Topped(bs, c, new, e, b) ==
  /\ \A d \in Addr, i \in Slots : e[Slot(d, i)] # Pointer(b)
  /\ \A d \in Addr \ {b} : new[d].tag # "Thunk" =>
       /\ \A i \in Slots : e[Slot(d, i)] \in {c[Slot(d, i)], None}
       /\ \/ bs[d].tag # "Thunk"
          \/ \A p \in Addr, i \in Slots : e[Slot(p, i)] # Pointer(d)

\* Such a change makes no loop.
LEMMA TopKept ==
  ASSUME NEW bs, NEW c, NEW new, NEW e, NEW b, NoLoops(bs, c), Topped(bs, c, new, e, b)
  PROVE  NoLoops(new, e)
<1> SUFFICES ASSUME NEW U \in SUBSET {a \in Addr : new[a].tag # "Thunk"}, U # {}
             PROVE  \E a \in U : \A p \in U, i \in Slots : e[Slot(p, i)] # Pointer(a)
  BY DEF NoLoops
<1>1. CASE b \in U
  BY <1>1 DEF Topped
<1>2. CASE \E d \in U \ {b} : bs[d].tag = "Thunk"
  BY <1>2 DEF Topped
<1>3. CASE b \notin U /\ \A d \in U : bs[d].tag # "Thunk"
  <2>1. U \in SUBSET {a \in Addr : bs[a].tag # "Thunk"}
    BY <1>3
  <2>2. PICK a \in U : \A p \in U, i \in Slots : c[Slot(p, i)] # Pointer(a)
    BY <2>1 DEF NoLoops
  <2>3. ASSUME NEW p \in U, NEW i \in Slots PROVE e[Slot(p, i)] # Pointer(a)
    <3>1. e[Slot(p, i)] \in {c[Slot(p, i)], None}
      BY <1>3 DEF Topped
    <3> QED BY <3>1, <2>2, Words
  <2> QED BY <2>3
<1> QED BY <1>1, <1>2, <1>3

\* The same of a step that only takes words out of blocks.
LEMMA FewerKept ==
  ASSUME NEW bs, NEW c, NEW new, NEW e \in [Cells -> Word], NoLoops(bs, c),
         \A d \in Addr : new[d].tag # "Thunk" =>
           /\ bs[d].tag # "Thunk"
           /\ \A i \in Slots : e[Slot(d, i)] \in {c[Slot(d, i)], None}
  PROVE  NoLoops(new, e)
<1>1. \A d \in Addr, i \in Slots : e[Slot(d, i)] # Pointer(Own)
  <2>1. \A d \in Addr, i \in Slots : e[Slot(d, i)] \in Word
    BY SlotCells DEF Blocks
  <2>2. Pointer(Own) \notin Word
    BY SMTT(30), Words, OwnBlock
  <2> QED BY <2>1, <2>2
<1>2. Topped(bs, c, new, e, Own)
  BY <1>1 DEF Topped
<1> QED BY <1>2, TopKept

\* No word points to a block without references, and one only to a block with
\* one.
LEMMA Unreferenced ==
  ASSUME NEW bs, NEW c, Exact(bs, c), NEW a \in Addr, bs[a].count = 0
  PROVE  \A l \in Cells : c[l] # Pointer(a)
<1>1. Cardinality(Refs(c, a)) = 0
  BY DEF Exact, Counted
<1>2. Refs(c, a) = {}
  BY <1>1, RefsFinite, FS_EmptySet
<1> QED BY <1>2 DEF Refs

LEMMA Sole ==
  ASSUME NEW bs, NEW c, Exact(bs, c), NEW a \in Addr, bs[a].count = 1,
         NEW x \in Cells, c[x] = Pointer(a)
  PROVE  \A l \in Cells : l # x => c[l] # Pointer(a)
<1>1. Cardinality(Refs(c, a)) = 1 /\ IsFiniteSet(Refs(c, a)) /\ x \in Refs(c, a)
  BY RefsFinite DEF Exact, Counted, Refs
<1>2. PICK z : Refs(c, a) = {z}
  BY <1>1, FS_Singleton
<1> QED BY <1>1, <1>2 DEF Refs

\* When nothing is being dropped, all blocks are referenced.
LEMMA IdleReferenced ==
  ASSUME LInv, Idle, NEW a \in Addr, blocks[a] # Free
  PROVE  blocks[a].count >= 1
<1>1. ~ \E k \in 1 .. Len(drops) : drops[k] = a
  BY SMTT(30) DEF Idle
<1> QED BY <1>1 DEF LInv, Kept

\* A step that leaves counts and free blocks alone.
LEMMA SameCounts ==
  ASSUME LInv, Idle,
         \A a \in Addr : blocks'[a] # Free => blocks[a] # Free /\ blocks'[a].count = blocks[a].count
  PROVE  Kept(blocks', drops')
BY IdleReferenced DEF Kept

\* A variable is given a word; tags stay.
LEMMA VarKept ==
  ASSUME IInv, IInv', LInv, NEW l \in Cells, NEW w, l \in Vars \/ w = None,
         cell' = Put(cell, l, w), \A d \in Addr : blocks'[d].tag = blocks[d].tag
  PROVE  NoLoops(blocks', cell')
<1>1. cell' \in [Cells -> Word] /\ cell \in [Cells -> Word]
  BY DEF IInv, Exact, Typed
<1>2. ASSUME NEW d \in Addr, NEW i \in Slots PROVE cell'[Slot(d, i)] \in {cell[Slot(d, i)], None}
  <2>1. Slot(d, i) \in Cells /\ Slot(d, i) \notin Vars
    BY SlotCells DEF Blocks
  <2> QED BY <1>1, <2>1 DEF Put
<1> QED BY SMTT(30), <1>1, <1>2, FewerKept DEF LInv

\* Counting a word in or out changes no tag.
LEMMA CountTags ==
  ASSUME IInv, NEW w \in Word, NEW d \in Addr
  PROVE  /\ inc_ref_count(blocks, w)[d].tag = blocks[d].tag
         /\ dec_ref_count(blocks, w)[d].tag = blocks[d].tag
<1>1. blocks \in [Blocks -> Header] /\ d \in Blocks
  BY DEF IInv, Exact, Typed, Blocks
<1>2. CASE IsPointer(w)
  <2>1. w.addr \in Blocks
    BY <1>2, Words DEF Blocks
  <2> QED BY SMTT(30), <1>1, <1>2, <2>1 DEF inc_ref_count, dec_ref_count, Header
<1>3. CASE ~IsPointer(w)
  BY <1>3 DEF inc_ref_count, dec_ref_count
<1> QED BY <1>2, <1>3

LEMMA InlineKept ==
  ASSUME IInv, IInv', LInv, NEW x \in Vars, NEW v \in Inlines, NEW p \in PosIdx, inline(x, v, p)
  PROVE  LInv'
<1>1. cell' = Put(cell, x, Inline(v, p)) /\ blocks' = blocks /\ Idle /\ x \in Cells
  BY SlotCells DEF inline, Put
<1>2. NoLoops(blocks', cell')
  BY <1>1, VarKept
<1>3. Kept(blocks', drops')
  BY <1>1, SameCounts
<1> QED BY <1>2, <1>3 DEF LInv

LEMMA InlinePositionKept ==
  ASSUME IInv, IInv', LInv, NEW x \in Vars, NEW p \in PosIdx, with_inline_pos_idx(x, p)
  PROVE  LInv'
<1>1. blocks' = blocks /\ Idle /\ x \in Cells /\ cell' = Put(cell, x, [cell[x] EXCEPT !.pos = p])
  BY SlotCells DEF with_inline_pos_idx, Put
<1>2. NoLoops(blocks', cell')
  BY <1>1, VarKept
<1>3. Kept(blocks', drops')
  BY <1>1, SameCounts
<1> QED BY <1>2, <1>3 DEF LInv

LEMMA CloneKept ==
  ASSUME IInv, IInv', LInv, NEW x \in Vars, NEW y \in Vars, clone(x, y)
  PROVE  LInv'
<1>1. cell' = Put(cell, y, cell[x]) /\ blocks' = inc_ref_count(blocks, cell[x]) /\ Idle
      /\ x \in Cells /\ y \in Cells
  BY SlotCells DEF clone, Put
<1>2. cell[x] \in Word /\ (IsPointer(cell[x]) => cell[x].addr \in Addr /\ blocks[cell[x].addr].count >= 1)
      /\ \A d \in Addr : blocks[d].count \in Nat
  BY <1>1, Pointed DEF IInv, Blocks
<1>3. NoLoops(blocks', cell')
  BY <1>1, <1>2, CountTags, VarKept
<1>4. ASSUME NEW a \in Addr, blocks'[a] # Free PROVE blocks'[a].count >= 1
  <2>1. blocks'[a].count = blocks[a].count + One(cell[x], a)
    BY <1>1, <1>2, CountWord DEF IInv
  <2>2. CASE cell[x] = Pointer(a)
    BY SMTT(30), <1>2, <2>1, <2>2 DEF One
  <2>3. CASE cell[x] # Pointer(a)
    <3>1. blocks'[a] = blocks[a]
      <4>1. blocks \in [Blocks -> Header] /\ a \in Blocks
        BY DEF IInv, Exact, Typed, Blocks
      <4>2. IsPointer(cell[x]) => cell[x].addr # a
        BY <1>2, <2>3, Words
      <4> QED BY <1>1, <4>1, <4>2 DEF inc_ref_count
    <3> QED BY <1>1, <1>4, <3>1, IdleReferenced
  <2> QED BY <2>2, <2>3
<1>5. Kept(blocks', drops')
  BY <1>4 DEF Kept
<1> QED BY <1>3, <1>5 DEF LInv

\* The block whose last reference is dropped is the next to be dropped.
LEMMA DropCellKept ==
  ASSUME IInv, IInv', LInv, NEW l \in Cells, cell[l] # None, DropWord(cell[l]),
         cell' = Put(cell, l, None)
  PROVE  LInv'
<1> DEFINE w == cell[l]
<1>1. blocks' = dec_ref_count(blocks, w)
      /\ drops' = IF IsPointer(w) /\ blocks'[w.addr].count = 0 THEN <<w.addr>> \o drops ELSE drops
  BY DEF DropWord
<1>2. w \in Word /\ (IsPointer(w) => w.addr \in Addr /\ w = Pointer(w.addr) /\ blocks[w.addr].count >= 1)
      /\ drops \in Seq(Blocks) /\ drops' \in Seq(Blocks)
  BY Pointed DEF IInv, Dropping
<1>3. \A d \in Addr : blocks[d].count \in Nat /\ blocks'[d].count \in Nat
  BY Pointed DEF IInv, Blocks
<1> HIDE DEF w
<1>4. NoLoops(blocks', cell')
  BY <1>1, <1>2, CountTags, VarKept
<1>5. ASSUME NEW k \in 1 .. Len(drops) PROVE \E j \in 1 .. Len(drops') : drops'[j] = drops[k]
  <2>1. CASE drops' = drops
    BY <2>1
  <2>2. CASE drops' = <<w.addr>> \o drops /\ IsPointer(w)
    <3>1. k + 1 \in 1 .. Len(drops') /\ drops'[k + 1] = drops[k]
      BY SMTT(30), <2>2, <1>2
    <3> QED BY <3>1
  <2> QED BY <1>1, <2>1, <2>2
<1>6. ASSUME NEW a \in Addr, blocks'[a] # Free, ~ (blocks'[a].count >= 1)
      PROVE  \E k \in 1 .. Len(drops') : drops'[k] = a
  <2>1. blocks'[a].count = 0
    BY SMTT(30), <1>3, <1>6
  <2>2. CASE w = Pointer(a)
    <3>1. IsPointer(w) /\ w.addr = a
      BY <2>2, Words
    <3>2. drops' = <<a>> \o drops
      BY <1>1, <2>1, <3>1
    <3>3. 1 \in 1 .. Len(drops') /\ drops'[1] = a
      BY SMTT(30), <1>2, <3>2
    <3> QED BY <3>3
  <2>3. CASE w # Pointer(a)
    <3>1. blocks'[a] = blocks[a]
      <4>1. blocks \in [Blocks -> Header] /\ a \in Blocks
        BY DEF IInv, Exact, Typed, Blocks
      <4>2. IsPointer(w) => w.addr # a
        BY <1>2, <2>3
      <4> QED BY <1>1, <4>1, <4>2 DEF dec_ref_count
    <3>2. \E k \in 1 .. Len(drops) : drops[k] = a
      BY <1>6, <3>1 DEF LInv, Kept
    <3> QED BY <3>2, <1>5
  <2> QED BY <2>2, <2>3
<1>7. Kept(blocks', drops')
  BY <1>6 DEF Kept
<1> QED BY <1>4, <1>7 DEF LInv

LEMMA DropKept ==
  ASSUME IInv, IInv', LInv, NEW x \in Vars, drop(x)
  PROVE  LInv'
BY DropCellKept, SlotCells DEF drop, Put

LEMMA DropNextKept ==
  ASSUME IInv, IInv', LInv, NEW a \in Blocks, NEW i \in Slots, DropNext(a, i)
  PROVE  LInv'
<1>1. Slot(a, i) \in Cells /\ cell[Slot(a, i)] # None /\ DropWord(cell[Slot(a, i)])
      /\ cell' = Put(cell, Slot(a, i), None)
  BY SlotCells DEF DropNext, Put
<1> QED BY <1>1, DropCellKept

\* The block that is freed may be a thunk, to which no word points any more.
LEMMA DeallocKept ==
  ASSUME IInv, IInv', LInv, NEW a \in Blocks, dealloc(a)
  PROVE  LInv'
<1>1. cell' = cell /\ drops # << >> /\ a = Head(drops) /\ drops \in Seq(Blocks)
      /\ blocks' = [blocks EXCEPT ![a] = Free] /\ drops' = Tail(drops)
      /\ blocks \in [Blocks -> Header] /\ cell \in [Cells -> Word]
  BY DEF IInv, dealloc, Dropping, Exact, Typed
<1>2. a = drops[1] /\ 1 \in 1 .. Len(drops)
      /\ \A k \in 1 .. Len(drops) : k = 1 \/ (k - 1 \in 1 .. Len(drops') /\ drops'[k - 1] = drops[k])
  BY SMTT(30), <1>1
<1>3. blocks'[a] = Free /\ \A d \in Blocks : d # a => blocks'[d] = blocks[d]
  BY <1>1
<1>4. a \in Addr => \A l \in Cells : cell[l] # Pointer(a)
  BY SMTT(30), <1>2, Unreferenced DEF IInv, Dropping
<1>5. \A d \in Addr, i \in Slots : cell[Slot(d, i)] # Pointer(a)
  <2>1. \A d \in Addr, i \in Slots : Slot(d, i) \in Cells /\ cell[Slot(d, i)] \in Word
    BY <1>1, SlotCells DEF Blocks
  <2>2. a \notin Addr => Pointer(a) \notin Word
    BY SMTT(30), Words
  <2> QED BY <1>4, <2>1, <2>2
<1>6. NoLoops(blocks', cell')
  <2>1. \A d \in Addr \ {a} : blocks'[d] = blocks[d]
    BY <1>3 DEF Blocks
  <2>2. Topped(blocks, cell, blocks', cell', a)
    BY <1>1, <1>5, <2>1 DEF Topped
  <2> QED BY <2>2, TopKept DEF LInv
<1>7. ASSUME NEW d \in Addr, blocks'[d] # Free, ~ (blocks'[d].count >= 1)
      PROVE  \E k \in 1 .. Len(drops') : drops'[k] = d
  <2>1. d # a /\ blocks'[d] = blocks[d]
    BY <1>3, <1>7 DEF Blocks
  <2>2. PICK k \in 1 .. Len(drops) : drops[k] = d
    BY <1>7, <2>1 DEF LInv, Kept
  <2>3. k - 1 \in 1 .. Len(drops') /\ drops'[k - 1] = d
    BY <1>2, <2>1, <2>2
  <2> QED BY <2>3
<1>8. Kept(blocks', drops')
  BY <1>7 DEF Kept
<1> QED BY <1>6, <1>8 DEF LInv

LEMMA NewBlockKept ==
  ASSUME IInv, IInv', LInv, NEW x \in Vars, NEW a \in Addr, NEW tag \in ScalarTags \cup ContainerTags,
         NEW p \in PosIdx, NEW n \in Numbers, NewBlock(x, a, tag, p, n)
  PROVE  LInv'
<1>1. Idle /\ blocks[a] = Free /\ blocks' = encode(blocks, a, tag, p, n, 0) /\ cell' = Put(cell, x, Pointer(a))
      /\ blocks \in [Blocks -> Header] /\ cell \in [Cells -> Word] /\ x \in Cells
  BY SlotCells DEF NewBlock, IsFree, Put, IInv, Exact, Typed
<1>2. blocks'[a].count = 1 /\ \A d \in Addr \ {a} : blocks'[d] = blocks[d]
  BY <1>1 DEF encode, Block, Blocks
<1>3. \A d \in Addr, i \in Slots : cell'[Slot(d, i)] = cell[Slot(d, i)] /\ cell[Slot(d, i)] # Pointer(a)
  <2>1. \A l \in Cells : cell[l] # Pointer(a)
    BY <1>1, FreeHeader, Unreferenced DEF IInv
  <2>2. \A d \in Addr, i \in Slots : Slot(d, i) \in Cells /\ Slot(d, i) # x
    BY SMTT(30), SlotCells DEF Blocks
  <2> QED BY <1>1, <2>1, <2>2 DEF Put
<1>4. Topped(blocks, cell, blocks', cell', a)
  BY <1>2, <1>3 DEF Topped
<1>5. NoLoops(blocks', cell')
  BY <1>4, TopKept DEF LInv
<1>6. Kept(blocks', drops')
  BY SMTT(30), <1>1, <1>2, IdleReferenced DEF Kept
<1> QED BY <1>5, <1>6 DEF LInv

LEMMA WrapBlockKept ==
  ASSUME IInv, IInv', LInv, NEW x \in Vars, NEW a \in Addr, NEW tag \in WrapperTags \cup {"Thunk"},
         NEW p \in PosIdx, WrapBlock(x, a, tag, p)
  PROVE  LInv'
<1>1. Idle /\ blocks[a] = Free /\ blocks' = encode(blocks, a, tag, p, 0, 1)
      /\ cell' = Put(Put(cell, x, Pointer(a)), Slot(a, 1), cell[x])
      /\ blocks \in [Blocks -> Header] /\ cell \in [Cells -> Word] /\ x \in Cells
  BY SlotCells DEF WrapBlock, IsFree, Put, IInv, Exact, Typed
<1>2. blocks'[a].count = 1 /\ \A d \in Addr \ {a} : blocks'[d] = blocks[d]
  BY <1>1 DEF encode, Block, Blocks
<1>3. \A l \in Cells : cell[l] # Pointer(a)
  BY <1>1, FreeHeader, Unreferenced DEF IInv
<1>4. 1 \in Slots /\ a \in Blocks
  BY SMTT(30), HeapAssumption DEF Slots, Blocks
<1>5. ASSUME NEW d \in Addr, NEW i \in Slots
      PROVE  /\ cell'[Slot(d, i)] # Pointer(a)
             /\ d # a => cell'[Slot(d, i)] = cell[Slot(d, i)]
  <2>1. Slot(d, i) \in Cells /\ Slot(d, i) # x /\ d \in Blocks
    BY SMTT(30), SlotCells DEF Blocks
  <2>2. cell'[Slot(d, i)] = IF Slot(d, i) = Slot(a, 1) THEN cell[x] ELSE cell[Slot(d, i)]
    BY <1>1, <2>1 DEF Put
  <2>3. d # a => Slot(d, i) # Slot(a, 1)
    BY SMTT(30), <1>4, <2>1, SlotCells
  <2> QED BY <1>1, <1>3, <2>1, <2>2, <2>3
<1>6. Topped(blocks, cell, blocks', cell', a)
  BY <1>2, <1>5 DEF Topped
<1>7. NoLoops(blocks', cell')
  BY <1>6, TopKept DEF LInv
<1>8. Kept(blocks', drops')
  BY SMTT(30), <1>1, <1>2, IdleReferenced DEF Kept
<1> QED BY <1>7, <1>8 DEF LInv

\* A block of which x gives up one of several references is still referenced.
LEMMA RecountedKept ==
  ASSUME IInv, LInv, Idle, NEW a \in Addr, blocks[a].count # 1, NEW d \in Addr
  PROVE  /\ Recounted(blocks, cell, a, d).tag = blocks[d].tag
         /\ Recounted(blocks, cell, a, d) # Free => Recounted(blocks, cell, a, d).count >= 1
<1>1. CASE blocks[d] = Free
  BY <1>1 DEF Recounted
<1>2. CASE blocks[d] # Free
  <2>1. PICK k : k = Cardinality({l \in SlotsOf(a) : cell[l] = Pointer(d)})
    OBVIOUS
  <2>2. k \in Nat
    <3>1. {l \in SlotsOf(a) : cell[l] = Pointer(d)} \in SUBSET Cells
      BY SlotCells DEF Blocks
    <3> QED BY <2>1, <3>1, CellsFinite, FS_Subset, FS_CardinalityType
  <2>3. blocks[d] \in Header /\ blocks[d].count \in Nat /\ blocks[d].count >= 1
    BY <1>2, IdleReferenced, Pointed DEF IInv, Exact, Typed, Blocks
  <2>4. Recounted(blocks, cell, a, d) = [blocks[d] EXCEPT !.count = blocks[d].count + k - (IF d = a THEN 1 ELSE 0)]
    BY <1>2, <2>1 DEF Recounted
  <2> QED BY SMTT(30), <2>2, <2>3, <2>4 DEF Header
<1> QED BY <1>1, <1>2

\* What strong_clone makes of memory: the data of b is that of a, and no word
\* but that of x points to b.
Cloned(m, x, a, b) ==
  /\ m.blocks[b].count = 1
  /\ \A d \in Addr \ {b} : /\ m.blocks[d].tag = blocks[d].tag
                           /\ m.blocks[d] # Free => m.blocks[d].count >= 1
  /\ \A d \in Addr \ {b}, i \in Slots : m.cell[Slot(d, i)] = cell[Slot(d, i)]
  /\ \A i \in Slots : m.cell[Slot(b, i)] # Pointer(b)
  /\ \A y \in Vars : y # x => m.cell[y] # Pointer(b)
  /\ \A l \in Cells : cell[l] # Pointer(b)

LEMMA ClonedBlock ==
  ASSUME IInv, LInv, Idle, NEW x \in Vars, NEW a \in Addr, cell[x] = Pointer(a), blocks[a].count # 1,
         NEW b \in Addr, blocks[b] = Free
  PROVE  Cloned(strong_clone(x, a, b), x, a, b)
<1>1. PICK m : m = strong_clone(x, a, b)
  OBVIOUS
<1>2. m.blocks = [d \in Blocks |-> IF d = b THEN [blocks[a] EXCEPT !.count = 1]
                                   ELSE Recounted(blocks, cell, a, d)]
      /\ m.cell = Copied(cell, a, b, x, Pointer(b))
  BY <1>1 DEF strong_clone
<1>3. blocks[a] \in Header /\ a \in Blocks /\ b \in Blocks /\ Addr \subseteq Blocks
  BY DEF IInv, Exact, Typed, Blocks
<1>4. m.blocks[b].count = 1
  BY <1>2, <1>3 DEF Header
<1>5. \A l \in Cells : cell[l] # Pointer(b)
  BY FreeHeader, Unreferenced DEF IInv
<1>6. \A d \in Addr \ {b} : /\ m.blocks[d].tag = blocks[d].tag
                            /\ m.blocks[d] # Free => m.blocks[d].count >= 1
  <2>1. \A d \in Addr \ {b} : m.blocks[d] = Recounted(blocks, cell, a, d)
    BY <1>2, <1>3
  <2> QED BY <2>1, RecountedKept
<1>7. \A l \in Cells : m.cell[l] = IF l = x THEN Pointer(b)
                                   ELSE IF l \in SlotsOf(b) THEN cell[Slot(a, l.slot)] ELSE cell[l]
  BY <1>2 DEF Copied
<1>8. \A d \in Addr \ {b}, i \in Slots : m.cell[Slot(d, i)] = cell[Slot(d, i)]
  <2>1. \A d \in Addr \ {b}, i \in Slots : Slot(d, i) \in Cells /\ Slot(d, i) # x /\ Slot(d, i) \notin SlotsOf(b)
    BY SMTT(30), <1>3, SlotCells
  <2> QED BY <1>7, <2>1
<1>9. \A i \in Slots : m.cell[Slot(b, i)] # Pointer(b)
  <2>1. \A i \in Slots : Slot(b, i) \in Cells /\ Slot(b, i) # x /\ Slot(b, i) \in SlotsOf(b)
                         /\ Slot(b, i).slot = i /\ Slot(a, i) \in Cells
    BY SMTT(30), <1>3, SlotCells
  <2>2. \A i \in Slots : m.cell[Slot(b, i)] = cell[Slot(a, i)]
    BY SMTT(30), <1>7, <2>1
  <2> QED BY <1>5, <2>1, <2>2
<1>10. \A y \in Vars : y # x => m.cell[y] # Pointer(b)
  <2>1. \A y \in Vars : y \in Cells /\ y \notin SlotsOf(b)
    BY <1>3, SlotCells
  <2> QED BY <1>5, <1>7, <2>1
<1> QED BY <1>1, <1>4, <1>5, <1>6, <1>8, <1>9, <1>10 DEF Cloned

\* What the holder of a mutable reference may do: only the block it refers to
\* changes, but for its tag and count, and the words it is given are those it
\* had, or w.
Framed(m, w) ==
  /\ \A d \in Blocks : d # m.at => blocks'[d] = m.blocks[d]
  /\ blocks'[m.at].tag = m.blocks[m.at].tag /\ blocks'[m.at].count = m.blocks[m.at].count
  /\ \A d \in Blocks, i \in Slots : d # m.at => cell'[Slot(d, i)] = m.cell[Slot(d, i)]
  /\ \A i \in Slots : cell'[Slot(m.at, i)] \in {m.cell[Slot(m.at, i)], None, w}

LEMMA ExchangeFrame ==
  ASSUME NEW c \in [Cells -> Word], NEW a \in Blocks, NEW k \in Slots, NEW y \in Vars, NEW w, NEW v,
         NEW e, e = Put(Put(c, Slot(a, k), w), y, v)
  PROVE  \A d \in Blocks, i \in Slots :
           e[Slot(d, i)] = IF d = a /\ i = k THEN w ELSE c[Slot(d, i)]
<1> SUFFICES ASSUME NEW d \in Blocks, NEW i \in Slots
             PROVE  e[Slot(d, i)] = IF d = a /\ i = k THEN w ELSE c[Slot(d, i)]
  OBVIOUS
<1>1. Slot(d, i) \in Cells /\ Slot(d, i) # y /\ Slot(a, k) \in Cells
  BY SMTT(30), SlotCells
<1>2. e[Slot(d, i)] = IF Slot(d, i) = Slot(a, k) THEN w ELSE c[Slot(d, i)]
  BY <1>1 DEF Put
<1>3. (Slot(d, i) = Slot(a, k)) <=> (d = a /\ i = k)
  BY SMTT(30), SlotCells
<1> QED BY <1>2, <1>3

LEMMA EditFrame ==
  ASSUME NEW m, Exact(m.blocks, m.cell), m.at \in Blocks, NEW x \in Vars, Edit(m, x)
  PROVE  Framed(m, None) \/ \E y \in Vars \ {x} : Framed(m, m.cell[y])
<1>1. PICK bs, c, a : bs = m.blocks /\ c = m.cell /\ a = m.at
  OBVIOUS
<1>2. a \in Blocks /\ bs \in [Blocks -> Header] /\ c \in [Cells -> Word] /\ bs[a] \in Header
      /\ bs[a].len \in 0 .. MaxLen /\ MaxLen \in Nat \ {0}
  BY <1>1, HeapAssumption, SetHeader DEF Exact, Typed
<1>3. ASSUME NEW w, NEW h, h.tag = bs[a].tag, h.count = bs[a].count, blocks' = [bs EXCEPT ![a] = h],
             \A d \in Blocks, i \in Slots : d # a => cell'[Slot(d, i)] = c[Slot(d, i)],
             \A i \in Slots : cell'[Slot(a, i)] \in {c[Slot(a, i)], None, w}
      PROVE  Framed(m, w)
  BY <1>1, <1>2, <1>3 DEF Framed
<1>4. ASSUME NEW n \in Numbers, SetNumber(m, n) PROVE Framed(m, None)
  <2>1. PICK h : h = [bs[a] EXCEPT !.n = n]
    OBVIOUS
  <2>2. h.tag = bs[a].tag /\ h.count = bs[a].count /\ blocks' = [bs EXCEPT ![a] = h] /\ cell' = c
    BY <1>1, <1>2, <1>4, <2>1 DEF SetNumber, Header
  <2> QED BY <1>3, <2>2
<1>5. ASSUME NEW y \in Vars \ {x}, Push(m, y) PROVE Framed(m, m.cell[y])
  <2>1. PICK h : h = [bs[a] EXCEPT !.len = bs[a].len + 1]
    OBVIOUS
  <2>2. h.tag = bs[a].tag /\ h.count = bs[a].count /\ blocks' = [bs EXCEPT ![a] = h]
    BY <1>1, <1>2, <1>5, <2>1 DEF Push, Header
  <2>3. PICK k : k = bs[a].len + 1
    OBVIOUS
  <2>4. k \in Slots
    BY SMTT(30), <1>1, <1>2, <1>5, <2>3 DEF Push, Slots
  <2>5. cell' = Put(Put(c, Slot(a, k), c[y]), y, None)
    BY <1>1, <1>5, <2>3 DEF Push, Put
  <2>6. \A d \in Blocks, i \in Slots : cell'[Slot(d, i)] = IF d = a /\ i = k THEN c[y] ELSE c[Slot(d, i)]
    BY SMTT(30), <1>2, <2>4, <2>5, ExchangeFrame
  <2>7. Framed(m, c[y])
    <3>1. \A d \in Blocks, i \in Slots : d # a => cell'[Slot(d, i)] = c[Slot(d, i)]
      BY <2>6
    <3>2. \A i \in Slots : cell'[Slot(a, i)] \in {c[Slot(a, i)], None, c[y]}
      BY <1>2, <2>6
    <3> QED BY <1>3, <2>2, <3>1, <3>2
  <2> QED BY <1>1, <2>7
<1>6. ASSUME NEW y \in Vars \ {x}, Pop(m, y) PROVE Framed(m, m.cell[y])
  <2>1. PICK h : h = [bs[a] EXCEPT !.len = bs[a].len - 1]
    OBVIOUS
  <2>2. h.tag = bs[a].tag /\ h.count = bs[a].count /\ blocks' = [bs EXCEPT ![a] = h]
    BY <1>1, <1>2, <1>6, <2>1 DEF Pop, Header
  <2>3. PICK k : k = bs[a].len
    OBVIOUS
  <2>4. k \in Slots
    BY SMTT(30), <1>1, <1>2, <1>6, <2>3 DEF Pop, Slots
  <2>5. cell' = Put(Put(c, Slot(a, k), None), y, c[Slot(a, k)])
    BY <1>1, <1>6, <2>3 DEF Pop, Put
  <2>6. \A d \in Blocks, i \in Slots : cell'[Slot(d, i)] = IF d = a /\ i = k THEN None ELSE c[Slot(d, i)]
    BY SMTT(30), <1>2, <2>4, <2>5, ExchangeFrame
  <2>7. Framed(m, c[y])
    <3>1. \A d \in Blocks, i \in Slots : d # a => cell'[Slot(d, i)] = c[Slot(d, i)]
      BY <2>6
    <3>2. \A i \in Slots : cell'[Slot(a, i)] \in {c[Slot(a, i)], None, c[y]}
      BY <1>2, <2>6
    <3> QED BY <1>3, <2>2, <3>1, <3>2
  <2> QED BY <1>1, <2>7
<1>7. ASSUME NEW y \in Vars \ {x}, Swap(m, y) PROVE Framed(m, m.cell[y])
  <2>1. PICK h : h = bs[a]
    OBVIOUS
  <2>2. h.tag = bs[a].tag /\ h.count = bs[a].count /\ blocks' = [bs EXCEPT ![a] = h]
    BY <1>1, <1>2, <1>7, <2>1 DEF Swap
  <2>3. 1 \in Slots
    BY SMTT(30), <1>2 DEF Slots
  <2>4. cell' = Put(Put(c, Slot(a, 1), c[y]), y, c[Slot(a, 1)])
    BY <1>1, <1>7 DEF Swap, Put
  <2>5. \A d \in Blocks, i \in Slots : cell'[Slot(d, i)] = IF d = a /\ i = 1 THEN c[y] ELSE c[Slot(d, i)]
    BY SMTT(30), <1>2, <2>3, <2>4, ExchangeFrame
  <2>7. Framed(m, c[y])
    <3>1. \A d \in Blocks, i \in Slots : d # a => cell'[Slot(d, i)] = c[Slot(d, i)]
      BY <2>5
    <3>2. \A i \in Slots : cell'[Slot(a, i)] \in {c[Slot(a, i)], None, c[y]}
      BY <1>2, <2>5
    <3> QED BY <1>3, <2>2, <3>1, <3>2
  <2> QED BY <1>1, <2>7
<1> QED BY <1>4, <1>5, <1>6, <1>7 DEF Edit

\* Mutation in place, of a block that only x refers to or of a thunk.
LEMMA InPlaceKept ==
  ASSUME IInv, IInv', LInv, Idle, NEW x \in Vars, NEW a \in Addr, cell[x] = Pointer(a), content_mut(a),
         NEW w, w # Pointer(a) \/ blocks[a].tag = "Thunk", Framed(InPlace(a), w)
  PROVE  LInv'
<1>1. /\ \A d \in Blocks : d # a => blocks'[d] = blocks[d]
      /\ blocks'[a].tag = blocks[a].tag /\ blocks'[a].count = blocks[a].count
      /\ \A d \in Blocks, i \in Slots : d # a => cell'[Slot(d, i)] = cell[Slot(d, i)]
      /\ \A i \in Slots : cell'[Slot(a, i)] \in {cell[Slot(a, i)], None, w}
  BY DEF Framed, InPlace
<1>2. x \in Cells /\ Addr \subseteq Blocks
  BY SlotCells DEF Blocks
<1>3. NoLoops(blocks', cell')
  <2>1. CASE blocks[a].tag = "Thunk"
    <3>1. cell' \in [Cells -> Word]
      BY DEF IInv, Exact, Typed
    <3>2. \A d \in Addr : blocks'[d].tag # "Thunk" => d # a /\ blocks[d].tag # "Thunk"
      BY <1>1, <1>2, <2>1
    <3>3. \A d \in Addr : blocks'[d].tag # "Thunk" =>
            \A i \in Slots : cell'[Slot(d, i)] \in {cell[Slot(d, i)], None}
      BY <1>1, <1>2, <3>2
    <3>4. NoLoops(blocks, cell)
      BY DEF LInv
    <3> QED BY SMTT(30), <3>1, <3>2, <3>3, <3>4, FewerKept
  <2>2. CASE blocks[a].tag # "Thunk"
    <3>1. blocks[a].count = 1 /\ w # Pointer(a)
      BY <2>2 DEF content_mut, TagOf
    <3>2. \A l \in Cells : l # x => cell[l] # Pointer(a)
      BY <1>2, <3>1, Sole DEF IInv
    <3>3. \A d \in Addr, i \in Slots : cell[Slot(d, i)] # Pointer(a)
      BY SMTT(30), <1>2, <3>2, SlotCells
    <3>4. \A i \in Slots : cell'[Slot(a, i)] # Pointer(a)
      BY <1>1, <1>2, <3>1, <3>2, <3>3, Words
    <3>5. Topped(blocks, cell, blocks', cell', a)
      BY <1>1, <1>2, <3>3, <3>4 DEF Topped
    <3> QED BY <3>5, TopKept DEF LInv
  <2> QED BY <2>1, <2>2
<1>4. ASSUME NEW d \in Addr, blocks'[d] # Free PROVE blocks'[d].count >= 1
  <2>1. CASE d = a
    <3>1. blocks[a].count >= 1
      BY SMTT(30), <1>2, Pointed, Words DEF IInv
    <3> QED BY <1>1, <2>1, <3>1
  <2>2. CASE d # a
    BY <1>1, <1>2, <1>4, <2>2, IdleReferenced
  <2> QED BY <2>1, <2>2
<1>5. Kept(blocks', drops')
  BY <1>4 DEF Kept
<1> QED BY <1>3, <1>5 DEF LInv

\* Mutation of the copy that x is given.
LEMMA CopyKept ==
  ASSUME IInv, IInv', LInv, NEW m, NEW x \in Vars, NEW a \in Addr, NEW b \in Addr,
         Cloned(m, x, a, b), m.at = b, NEW w, w # Pointer(b), Framed(m, w)
  PROVE  LInv'
<1>1. /\ \A d \in Blocks : d # b => blocks'[d] = m.blocks[d]
      /\ blocks'[b].count = m.blocks[b].count
      /\ \A d \in Blocks, i \in Slots : d # b => cell'[Slot(d, i)] = m.cell[Slot(d, i)]
      /\ \A i \in Slots : cell'[Slot(b, i)] \in {m.cell[Slot(b, i)], None, w}
  BY DEF Framed
<1>2. Addr \subseteq Blocks /\ \A d \in Addr, i \in Slots : Slot(d, i) \in Cells
  BY SlotCells DEF Blocks
<1>3. ASSUME NEW d \in Addr \ {b}, NEW i \in Slots
      PROVE  cell'[Slot(d, i)] = cell[Slot(d, i)] /\ cell'[Slot(d, i)] # Pointer(b)
  BY SMTT(30), <1>1, <1>2 DEF Cloned
<1>4. \A i \in Slots : cell'[Slot(b, i)] # Pointer(b)
  BY <1>1, Words DEF Cloned
<1>5. \A d \in Addr \ {b} : blocks'[d].tag = blocks[d].tag
  BY <1>1, <1>2 DEF Cloned
<1>6. Topped(blocks, cell, blocks', cell', b)
  BY <1>3, <1>4, <1>5 DEF Topped
<1>7. NoLoops(blocks', cell')
  BY <1>6, TopKept DEF LInv
<1>8. ASSUME NEW d \in Addr, blocks'[d] # Free PROVE blocks'[d].count >= 1
  <2>1. CASE d = b
    BY SMTT(30), <1>1, <2>1 DEF Cloned
  <2>2. CASE d # b
    BY <1>1, <1>2, <1>8, <2>2 DEF Cloned
  <2> QED BY <2>1, <2>2
<1>9. Kept(blocks', drops')
  BY <1>8 DEF Kept
<1> QED BY <1>7, <1>9 DEF LInv

LEMMA MutateKept ==
  ASSUME IInv, IInv', LInv, NEW x \in Vars, NEW b \in Addr, Mutate(x, b)
  PROVE  LInv'
<1>1. PICK a : a = cell[x].addr
  OBVIOUS
<1>2. Exact(blocks, cell) /\ Idle /\ IsPointer(cell[x]) /\ x \in Cells
  BY SlotCells DEF IInv, Mutate
<1>3. a \in Addr /\ a \in Blocks /\ b \in Blocks /\ cell[x] = Pointer(a)
  BY <1>1, <1>2, Pointed DEF Blocks
<1>4. CASE content_mut(a)
  <2>1. PICK m : m = InPlace(a)
    OBVIOUS
  <2>2. m.blocks = blocks /\ m.cell = cell /\ m.at = a
    BY <2>1 DEF InPlace
  <2>3. Exact(m.blocks, m.cell) /\ m.at \in Blocks /\ Edit(m, x)
    BY <1>1, <1>2, <1>3, <1>4, <2>1, <2>2 DEF Mutate, content_make_mut
  <2>4. Framed(m, None) \/ \E y \in Vars \ {x} : Framed(m, m.cell[y])
    BY <2>3, EditFrame
  <2>5. CASE Framed(m, None)
    BY <1>2, <1>3, <1>4, <2>1, <2>5, InPlaceKept, Words
  <2>6. CASE \E y \in Vars \ {x} : Framed(m, m.cell[y])
    <3>1. PICK y \in Vars \ {x} : Framed(m, m.cell[y])
      BY <2>6
    <3>2. Framed(InPlace(a), cell[y])
      BY <2>1, <2>2, <3>1
    <3>3. cell[y] # Pointer(a) \/ blocks[a].tag = "Thunk"
      <4>1. blocks[a].count = 1 \/ blocks[a].tag = "Thunk"
        BY <1>4 DEF content_mut, TagOf
      <4>2. blocks[a].count = 1 => cell[y] # Pointer(a)
        BY SMTT(30), <1>2, <1>3, SlotCells, Sole
      <4> QED BY <4>1, <4>2
    <3>4. PICK w : w = cell[y]
      OBVIOUS
    <3> QED BY <1>2, <1>3, <1>4, <3>2, <3>3, <3>4, InPlaceKept
  <2> QED BY <2>4, <2>5, <2>6
<1>5. CASE ~content_mut(a)
  <2>1. blocks[a].count # 1 /\ blocks[b] = Free
    BY <1>1, <1>5 DEF content_mut, Mutate, IsFree
  <2>2. PICK m : m = strong_clone(x, a, b)
    OBVIOUS
  <2>3. Exact(m.blocks, m.cell) /\ m.at = b
    BY <1>2, <1>3, <2>1, <2>2, StrongCloneExact
  <2>4. Cloned(m, x, a, b)
    BY <1>2, <1>3, <2>1, <2>2, ClonedBlock
  <2>5. Edit(m, x)
    BY <1>1, <1>5, <2>2 DEF Mutate, content_make_mut
  <2>6. Framed(m, None) \/ \E y \in Vars \ {x} : Framed(m, m.cell[y])
    BY <1>3, <2>3, <2>5, EditFrame
  <2>7. PICK w : w # Pointer(b) /\ Framed(m, w)
    BY <2>4, <2>6, Words DEF Cloned
  <2> QED BY <1>3, <2>3, <2>4, <2>7, CopyKept
<1> QED BY <1>4, <1>5

LEMMA PositionKept ==
  ASSUME IInv, IInv', LInv, NEW x \in Vars, NEW b \in Addr, NEW p \in PosIdx, with_pos_idx(x, b, p)
  PROVE  LInv'
<1>1. PICK a : a = cell[x].addr
  OBVIOUS
<1>2. Exact(blocks, cell) /\ Idle /\ IsPointer(cell[x]) /\ x \in Cells
  BY SlotCells DEF IInv, with_pos_idx
<1>3. a \in Addr /\ a \in Blocks /\ b \in Blocks /\ cell[x] = Pointer(a)
  BY <1>1, <1>2, Pointed DEF Blocks
<1>4. PICK m : m = IF blocks[a].count = 1 THEN InPlace(a) ELSE strong_clone(x, a, b)
  OBVIOUS
<1>5. Exact(m.blocks, m.cell) /\ m.at = IF blocks[a].count = 1 THEN a ELSE b
  <2>1. CASE blocks[a].count = 1
    BY <1>2, <1>3, <1>4, <2>1 DEF InPlace
  <2>2. CASE blocks[a].count # 1
    <3>1. blocks[b] = Free /\ m = strong_clone(x, a, b)
      BY <1>1, <1>4, <2>2 DEF with_pos_idx, IsFree
    <3> QED BY <3>1, <1>2, <1>3, <2>2, StrongCloneExact
  <2> QED BY <2>1, <2>2
<1>6. Framed(m, None)
  <2>1. PICK h : h = [m.blocks[m.at] EXCEPT !.pos = p]
    OBVIOUS
  <2>2. blocks' = [m.blocks EXCEPT ![m.at] = h] /\ cell' = m.cell
    BY <1>1, <1>4, <2>1 DEF with_pos_idx
  <2>3. m.at \in Blocks /\ m.blocks \in [Blocks -> Header]
    BY <1>3, <1>5 DEF Exact, Typed
  <2>4. h.tag = m.blocks[m.at].tag /\ h.count = m.blocks[m.at].count
    BY <2>1, <2>3, SetHeader
  <2> QED BY <2>2, <2>3, <2>4 DEF Framed
<1>7. CASE blocks[a].count = 1
  <2>1. Framed(InPlace(a), None) /\ content_mut(a)
    BY <1>4, <1>6, <1>7 DEF content_mut
  <2> QED BY <1>2, <1>3, <2>1, InPlaceKept, Words
<1>8. CASE blocks[a].count # 1
  <2>1. blocks[b] = Free /\ m = strong_clone(x, a, b)
    BY <1>1, <1>4, <1>8 DEF with_pos_idx, IsFree
  <2>2. Cloned(m, x, a, b)
    BY <1>2, <1>3, <1>8, <2>1, ClonedBlock
  <2>3. None # Pointer(b) /\ m.at = b
    BY <1>5, <1>8, Words
  <2> QED BY <1>3, <1>6, <2>2, <2>3, CopyKept
<1> QED BY <1>7, <1>8

\* Steps that change Own, which no word points to, and leave the other blocks
\* as they are.
LEMMA OwnKept ==
  ASSUME IInv, IInv', LInv, Idle, \A d \in Addr : blocks'[d] = blocks[d],
         \A d \in Addr, i \in Slots : cell'[Slot(d, i)] = cell[Slot(d, i)]
  PROVE  LInv'
<1>1. cell' \in [Cells -> Word] /\ NoLoops(blocks, cell)
  BY DEF IInv, Exact, Typed, LInv
<1>2. \A d \in Addr : blocks'[d].tag # "Thunk" =>
        blocks[d].tag # "Thunk" /\ \A i \in Slots : cell'[Slot(d, i)] \in {cell[Slot(d, i)], None}
  OBVIOUS
<1>3. NoLoops(blocks', cell')
  BY SMTT(30), <1>1, <1>2, FewerKept
<1>4. Kept(blocks', drops')
  BY SameCounts
<1> QED BY <1>3, <1>4 DEF LInv

LEMMA EditOwnKept ==
  ASSUME IInv, IInv', LInv, EditOwn
  PROVE  LInv'
<1>1. PICK x \in Vars : Edit(InPlace(Own), x)
  BY DEF EditOwn
<1>2. PICK m : m = InPlace(Own)
  OBVIOUS
<1>3. Exact(m.blocks, m.cell) /\ m.at \in Blocks /\ m.at = Own /\ m.blocks = blocks /\ m.cell = cell
  BY <1>2, OwnBlock DEF InPlace, IInv
<1>4. PICK w : Framed(m, w)
  BY <1>1, <1>2, <1>3, EditFrame
<1>5. \A d \in Addr : d \in Blocks /\ d # Own
  BY OwnBlock
<1>6. (\A d \in Addr : blocks'[d] = blocks[d])
      /\ \A d \in Addr, i \in Slots : cell'[Slot(d, i)] = cell[Slot(d, i)]
  BY <1>3, <1>4, <1>5 DEF Framed
<1> QED BY <1>6, OwnKept DEF EditOwn

LEMMA UnwrapKept ==
  ASSUME IInv, IInv', LInv, NEW x \in Vars, unwrap_or_alloc(x)
  PROVE  LInv'
<1>1. Idle /\ cell' = Put(cell, x, None) /\ x \in Cells /\ blocks \in [Blocks -> Header]
      /\ blocks' = [blocks EXCEPT ![Own] = Block(ContainerOf(cell[x]), 0, cell[x].pos, 0, 0)]
      /\ cell \in [Cells -> Word]
  BY SlotCells DEF unwrap_or_alloc, Put, IInv, Exact, Typed
<1>2. \A d \in Addr : blocks'[d] = blocks[d]
  BY <1>1, OwnBlock
<1>3. \A d \in Addr, i \in Slots : cell'[Slot(d, i)] = cell[Slot(d, i)]
  <2>1. \A d \in Addr, i \in Slots : Slot(d, i) \in Cells /\ Slot(d, i) # x
    BY SMTT(30), SlotCells, OwnBlock
  <2> QED BY <1>1, <2>1 DEF Put
<1> QED BY <1>1, <1>2, <1>3, OwnKept

LEMMA PutInlineKept ==
  ASSUME IInv, IInv', LInv, Idle, NEW x \in Vars, NEW p, PutInline(x, p)
  PROVE  LInv'
<1>1. blocks' = [blocks EXCEPT ![Own] = Free] /\ x \in Cells
      /\ cell' = Put(cell, x, Inline(EmptyOf(TagOf(Own)), p))
      /\ blocks \in [Blocks -> Header] /\ cell \in [Cells -> Word]
  BY SlotCells DEF PutInline, Put, IInv, Exact, Typed
<1>2. \A d \in Addr : blocks'[d] = blocks[d]
  BY <1>1, OwnBlock
<1>3. \A d \in Addr, i \in Slots : cell'[Slot(d, i)] = cell[Slot(d, i)]
  <2>1. \A d \in Addr, i \in Slots : Slot(d, i) \in Cells /\ Slot(d, i) # x
    BY SMTT(30), SlotCells, OwnBlock
  <2> QED BY <1>1, <2>1 DEF Put
<1> QED BY <1>2, <1>3, OwnKept

LEMMA PutBlockKept ==
  ASSUME IInv, IInv', LInv, Idle, NEW x \in Vars, NEW a \in Addr, NEW p, PutBlock(x, a, p)
  PROVE  LInv'
<1>1. blocks[a] = Free /\ blocks \in [Blocks -> Header] /\ cell \in [Cells -> Word]
      /\ cell' = Moved(cell, Own, a, x, Pointer(a))
      /\ blocks' = [encode(blocks, a, blocks[Own].tag, p, blocks[Own].n, blocks[Own].len) EXCEPT ![Own] = Free]
  BY DEF PutBlock, IsFree, IInv, Exact, Typed
<1>2. blocks'[a].count = 1 /\ \A d \in Addr \ {a} : blocks'[d] = blocks[d]
  BY <1>1, OwnBlock DEF encode, Block
<1>3. \A l \in Cells : cell[l] # Pointer(a)
  BY <1>1, FreeHeader, Unreferenced DEF IInv
<1>4. ASSUME NEW d \in Addr, NEW i \in Slots
      PROVE  /\ cell'[Slot(d, i)] # Pointer(a)
             /\ d # a => cell'[Slot(d, i)] = cell[Slot(d, i)]
  <2>1. /\ Slot(d, i) \in Cells /\ Slot(d, i) # x /\ Slot(Own, i) \in Cells
        /\ Slot(d, i) \in SlotsOf(d) /\ Slot(d, i).slot = i /\ d \in Blocks /\ a \in Blocks
        /\ Slot(d, i) \notin SlotsOf(Own)
    BY SMTT(30), SlotCells, OwnBlock
  <2>2. d # a => Slot(d, i) \notin SlotsOf(a)
    BY SMTT(30), <2>1, SlotCells
  <2>3. cell'[Slot(d, i)] = IF Slot(d, i) \in SlotsOf(a) THEN cell[Slot(Own, i)] ELSE cell[Slot(d, i)]
    BY <1>1, <2>1 DEF Moved
  <2> QED BY <1>3, <2>1, <2>2, <2>3
<1>5. Topped(blocks, cell, blocks', cell', a)
  BY <1>2, <1>4 DEF Topped
<1>6. NoLoops(blocks', cell')
  BY <1>5, TopKept DEF LInv
<1>7. Kept(blocks', drops')
  BY SMTT(30), <1>2, IdleReferenced DEF Kept
<1> QED BY <1>6, <1>7 DEF LInv

LEMMA FromContentKept ==
  ASSUME IInv, IInv', LInv, NEW x \in Vars, NEW a \in Addr, FromContent(x, a)
  PROVE  LInv'
BY PutInlineKept, PutBlockKept DEF FromContent

LEMMA RecordPoslessKept ==
  ASSUME IInv, IInv', LInv, NEW x \in Vars, NEW a \in Addr, record_posless(x, a)
  PROVE  LInv'
BY PutInlineKept, PutBlockKept DEF record_posless

LEMMA DropOwnKept ==
  ASSUME IInv, IInv', LInv, DropOwn
  PROVE  LInv'
BY OwnKept DEF DropOwn

\* The lens of a block moves its data out or copies it: no block is given a
\* word.
LEMMA TakeKept ==
  ASSUME IInv, IInv', LInv, NEW x \in Vars, take(x)
  PROVE  LInv'
<1>1. PICK a : a = cell[x].addr
  OBVIOUS
<1>2. Exact(blocks, cell) /\ Idle /\ x \in Cells /\ IsPointer(cell[x]) /\ TagOf(a) # "Thunk"
  BY <1>1, SlotCells DEF IInv, take, Lens
<1>3. a \in Addr /\ a \in Blocks /\ cell[x] = Pointer(a) /\ a # Own /\ Own \in Blocks /\ Own \notin Addr
  BY <1>1, <1>2, Pointed, OwnBlock
<1>4. blocks \in [Blocks -> Header] /\ cell' \in [Cells -> Word] /\ NoLoops(blocks, cell)
  BY DEF IInv, LInv, Exact, Typed
<1>5. ASSUME NEW d \in Addr, NEW i \in Slots
      PROVE  /\ Slot(d, i) \in Cells /\ Slot(d, i) # x /\ Slot(d, i) \notin SlotsOf(Own)
             /\ d \in Blocks /\ d # Own
  BY SMTT(30), SlotCells, OwnBlock
<1>6. PICK h : h = Block(blocks[a].tag, 0, blocks[a].pos, blocks[a].n, blocks[a].len)
  OBVIOUS
<1>7. CASE blocks[a].count = 1
  <2>1. blocks' = [blocks EXCEPT ![a] = Free, ![Own] = h] /\ cell' = Moved(cell, a, Own, x, None)
    BY <1>1, <1>6, <1>7 DEF take
  <2>2. blocks'[a] = Free /\ \A d \in Addr \ {a} : blocks'[d] = blocks[d]
    BY <1>3, <1>4, <2>1, OwnBlock
  <2>3. \A d \in Addr, i \in Slots : cell'[Slot(d, i)] \in {cell[Slot(d, i)], None}
    BY <1>5, <2>1 DEF Moved
  <2>4. \A d \in Addr : blocks'[d].tag # "Thunk" =>
          blocks[d].tag # "Thunk" /\ \A i \in Slots : cell'[Slot(d, i)] \in {cell[Slot(d, i)], None}
    BY <1>2, <2>2, <2>3 DEF TagOf
  <2>5. NoLoops(blocks', cell')
    BY SMTT(30), <1>4, <2>4, FewerKept
  <2>6. Kept(blocks', drops')
    BY <1>2, <2>2, IdleReferenced DEF Kept
  <2> QED BY <2>5, <2>6 DEF LInv
<1>8. CASE blocks[a].count # 1
  <2>1. blocks' = [d \in Blocks |-> IF d = Own THEN h ELSE Recounted(blocks, cell, a, d)]
        /\ cell' = Copied(cell, a, Own, x, None)
    BY <1>1, <1>6, <1>8 DEF take
  <2>2. \A d \in Addr : blocks'[d] = Recounted(blocks, cell, a, d)
    BY <2>1, OwnBlock
  <2>3. \A d \in Addr, i \in Slots : cell'[Slot(d, i)] = cell[Slot(d, i)]
    BY <1>5, <2>1 DEF Copied
  <2>4. \A d \in Addr : blocks'[d].tag = blocks[d].tag /\ (blocks'[d] # Free => blocks'[d].count >= 1)
    BY <1>2, <1>3, <1>8, <2>2, RecountedKept
  <2>5. \A d \in Addr : blocks'[d].tag # "Thunk" =>
          blocks[d].tag # "Thunk" /\ \A i \in Slots : cell'[Slot(d, i)] \in {cell[Slot(d, i)], None}
    BY <2>3, <2>4
  <2>6. NoLoops(blocks', cell')
    BY SMTT(30), <1>4, <2>5, FewerKept
  <2>7. Kept(blocks', drops')
    BY <2>4 DEF Kept
  <2> QED BY <2>6, <2>7 DEF LInv
<1> QED BY <1>7, <1>8

-----------------------------------------------------------------------------
(* The theorem.                                                            *)

LEMMA InitKept == Init => LInv
<1> SUFFICES ASSUME Init PROVE LInv
  OBVIOUS
<1>1. \A a \in Addr : blocks[a] = Free
  BY DEF Init, Blocks
<1>2. \A a \in Addr, i \in Slots : cell[Slot(a, i)] = None
  BY SlotCells DEF Init, Blocks
<1>3. NoLoops(blocks, cell)
  BY SMTT(30), <1>2, Words DEF NoLoops
<1> QED BY <1>1, <1>3 DEF LInv, Kept

LEMMA NextKept == IInv /\ IInv' /\ LInv /\ [Next]_vars => LInv'
<1> SUFFICES ASSUME IInv, IInv', LInv, [Next]_vars PROVE LInv'
  OBVIOUS
<1>1. ASSUME NEW x \in Vars, NEW v \in Inlines, NEW p \in PosIdx, inline(x, v, p) PROVE LInv'
  BY <1>1, InlineKept
<1>2. ASSUME NEW x \in Vars, NEW a \in Addr, NEW tag \in ScalarTags \cup ContainerTags,
             NEW p \in PosIdx, NEW n \in Numbers, NewBlock(x, a, tag, p, n)
      PROVE  LInv'
  BY <1>2, NewBlockKept
<1>3. ASSUME NEW x \in Vars, NEW a \in Addr, NEW tag \in WrapperTags \cup {"Thunk"}, NEW p \in PosIdx,
             WrapBlock(x, a, tag, p)
      PROVE  LInv'
  BY <1>3, WrapBlockKept
<1>4. ASSUME NEW x \in Vars, NEW y \in Vars, clone(x, y) PROVE LInv'
  BY <1>4, CloneKept
<1>5. ASSUME NEW x \in Vars, drop(x) PROVE LInv'
  BY <1>5, DropKept
<1>6. ASSUME NEW a \in Blocks, NEW i \in Slots, DropNext(a, i) PROVE LInv'
  BY <1>6, DropNextKept
<1>7. ASSUME NEW a \in Blocks, dealloc(a) PROVE LInv'
  BY <1>7, DeallocKept
<1>8. ASSUME NEW x \in Vars, NEW b \in Addr, Mutate(x, b) PROVE LInv'
  BY <1>8, MutateKept
<1>9. ASSUME NEW x \in Vars, NEW b \in Addr, NEW p \in PosIdx, with_pos_idx(x, b, p) PROVE LInv'
  BY <1>9, PositionKept
<1>10. ASSUME NEW x \in Vars, NEW p \in PosIdx, with_inline_pos_idx(x, p) PROVE LInv'
  BY <1>10, InlinePositionKept
<1>11. ASSUME NEW x \in Vars, take(x) PROVE LInv'
  BY <1>11, TakeKept
<1>12. ASSUME NEW x \in Vars, unwrap_or_alloc(x) PROVE LInv'
  BY <1>12, UnwrapKept
<1>13. CASE EditOwn
  BY <1>13, EditOwnKept
<1>14. ASSUME NEW x \in Vars, NEW a \in Addr, FromContent(x, a) PROVE LInv'
  BY <1>14, FromContentKept
<1>15. ASSUME NEW x \in Vars, NEW a \in Addr, record_posless(x, a) PROVE LInv'
  BY <1>15, RecordPoslessKept
<1>16. CASE DropOwn
  BY <1>16, DropOwnKept
<1>17. CASE UNCHANGED vars
  <2>1. blocks' = blocks /\ cell' = cell /\ drops' = drops
    BY <1>17 DEF vars
  <2>2. NoLoops(blocks', cell') /\ Kept(blocks', drops')
    BY <2>1 DEF LInv
  <2> QED BY <2>2 DEF LInv
<1> QED
  BY <1>1, <1>2, <1>3, <1>4, <1>5, <1>6, <1>7, <1>8, <1>9, <1>10, <1>11, <1>12, <1>13, <1>14,
     <1>15, <1>16, <1>17 DEF Next

\* For any number of variables, blocks and words in a block, memory that the
\* program cannot reach has been freed when no drop is going on, unless it
\* hangs on a cycle through a thunk (drop_slow, with_content, make_unique).
THEOREM NoLeaks == Spec => []NothingLeaks
<1>1. Init => IInv /\ LInv
  BY InitExact, InitKept
<1>2. IInv /\ LInv /\ [Next]_vars => IInv' /\ LInv'
  BY NextExact, NextKept
<1>3. IInv /\ LInv => NothingLeaks
  BY LeaksAreCycles
<1> QED BY <1>1, <1>2, <1>3, PTL DEF Spec
=============================================================================
