------------------------------ MODULE EvalProofs ------------------------------
(***************************************************************************)
(* Proofs about the call-by-need machine, for any set of programs: black   *)
(* holes are owned by update frames, and evaluated thunks keep their value.*)
(***************************************************************************)
EXTENDS Eval, SequenceTheorems, NaturalsInduction, WellFoundedInduction, TLAPS

\* Most leaves are first-order reasoning.  Those with arithmetic, sequences or
\* records name SMT.
USE Zenon

Kinds == {"idx", "arg", "op1", "op2first", "op2second"}

\* A well-formed stack.
Items(sk) ==
  /\ sk \in Seq({sk[n] : n \in DOMAIN sk})
  /\ \A n \in DOMAIN sk : /\ sk[n].k \in Kinds
                          /\ sk[n].k = "idx" => sk[n] = IdxFrame(sk[n].i)

\* BlackholesOwned for given thunk states, stack and stuck thunks.
Owned(st, sk, S) ==
  /\ \A n \in DOMAIN sk : sk[n].k = "idx" => sk[n].i \in DOMAIN st \ S
  /\ \A i \in DOMAIN st :
       /\ i \notin S => (st[i] = "blackholed" <=> \E n \in DOMAIN sk : sk[n] = IdxFrame(i))
       /\ \A m, n \in DOMAIN sk : sk[m] = IdxFrame(i) /\ sk[n] = IdxFrame(i) => m = n
       /\ i \in S => st[i] = "blackholed"

\* Only a thunk whose cached value is built is marked evaluated.
EvaluatedBuilt == \A i \in DOMAIN state : state[i] = "evaluated" => inner[i].built

IInv == TypeOK /\ BlackholesOwned /\ Items(stack) /\ EvaluatedBuilt

\* A step that keeps the value of every evaluated thunk.
Kept == \A i \in DOMAIN state :
          state[i] = "evaluated" => state'[i] = "evaluated" /\ inner'[i] = inner[i]

-----------------------------------------------------------------------------
(* Stacks.                                                                 *)

\* Pushing an item on a stack.
LEMMA PushItem ==
  ASSUME NEW sk, Items(sk), NEW f, f.k \in Kinds, f.k = "idx" => f = IdxFrame(f.i)
  PROVE  /\ Items(<<f>> \o sk)
         /\ Len(sk) \in Nat /\ DOMAIN sk = 1 .. Len(sk)
         /\ DOMAIN (<<f>> \o sk) = 1 .. Len(sk) + 1
         /\ (<<f>> \o sk)[1] = f
         /\ \A n \in 1 .. Len(sk) : (<<f>> \o sk)[n + 1] = sk[n]
<1> DEFINE A == {sk[n] : n \in DOMAIN sk} \cup {f}
           new == <<f>> \o sk
<1>1. sk \in Seq(A) /\ <<f>> \in Seq(A)
  <2>1. sk \in Seq({sk[n] : n \in DOMAIN sk}) BY DEF Items
  <2>2. {sk[n] : n \in DOMAIN sk} \subseteq A OBVIOUS
  <2>3. sk \in Seq(A)
    <3> HIDE DEF A
    <3> QED BY <2>1, <2>2, SeqMonotonic
  <2>4. f \in A OBVIOUS
  <2>5. <<f>> \in Seq(A)
    <3> HIDE DEF A
    <3> QED BY SMTT(30), <2>4
  <2> QED BY <2>3, <2>5
<1> HIDE DEF A
<1>2. /\ Len(sk) \in Nat /\ DOMAIN sk = 1 .. Len(sk)
      /\ new \in Seq(A) /\ Len(new) = 1 + Len(sk)
      /\ new[1] = f
      /\ \A n \in 1 .. Len(sk) : new[n + 1] = sk[n]
  BY SMTT(30), <1>1
<1> HIDE DEF new
<1>3. DOMAIN new = 1 .. Len(sk) + 1
  BY SMTT(30), <1>2
<1>4. new \in Seq({new[n] : n \in DOMAIN new})
  <2>1. new \in [1 .. Len(sk) + 1 -> {new[n] : n \in DOMAIN new}]
    <3>1. new = [n \in 1 .. Len(sk) + 1 |-> new[n]] BY SMTT(30), <1>2, <1>3
    <3> QED BY <3>1, <1>3
  <2> QED BY SMTT(30), <2>1, <1>2, SeqDef
<1>5. ASSUME NEW n \in DOMAIN new
      PROVE  new[n].k \in Kinds /\ (new[n].k = "idx" => new[n] = IdxFrame(new[n].i))
  <2>1. CASE n = 1 BY <2>1, <1>2
  <2>2. CASE n # 1
    <3>1. n - 1 \in 1 .. Len(sk) /\ new[n] = sk[n - 1] BY SMTT(30), <2>2, <1>2, <1>3
    <3> QED BY <3>1, <1>2 DEF Items
  <2> QED BY <2>1, <2>2
<1> QED BY <1>2, <1>3, <1>4, <1>5 DEF Items, new

\* Popping the n topmost items of a stack.
LEMMA DropItems ==
  ASSUME NEW sk, Items(sk), NEW n \in 0 .. Len(sk)
  PROVE  /\ Items(SubSeq(sk, n + 1, Len(sk)))
         /\ Len(sk) \in Nat /\ DOMAIN sk = 1 .. Len(sk)
         /\ DOMAIN SubSeq(sk, n + 1, Len(sk)) = 1 .. Len(sk) - n
         /\ \A m \in 1 .. Len(sk) - n : SubSeq(sk, n + 1, Len(sk))[m] = sk[m + n]
<1> DEFINE A == {sk[j] : j \in DOMAIN sk}
           new == SubSeq(sk, n + 1, Len(sk))
<1>1. sk \in Seq(A) BY DEF Items
<1> HIDE DEF A
<1>2. /\ Len(sk) \in Nat /\ DOMAIN sk = 1 .. Len(sk) /\ n \in Nat
  BY SMTT(30), <1>1
<1>3. /\ DOMAIN new = 1 .. Len(sk) - n
      /\ \A m \in 1 .. Len(sk) - n : new[m] = sk[m + n]
      /\ new = [m \in 1 .. Len(sk) - n |-> sk[m + n]]
  BY SMTT(30), <1>1, <1>2
<1> HIDE DEF new
<1>4. new \in Seq({new[m] : m \in DOMAIN new})
  <2>1. new \in [1 .. Len(sk) - n -> {new[m] : m \in DOMAIN new}]
    BY <1>3
  <2>2. Len(sk) - n \in Nat BY SMTT(30), <1>2
  <2> QED BY <2>1, <2>2, SeqDef
<1>5. ASSUME NEW m \in DOMAIN new
      PROVE  new[m].k \in Kinds /\ (new[m].k = "idx" => new[m] = IdxFrame(new[m].i))
  <2>1. m + n \in DOMAIN sk /\ new[m] = sk[m + n] BY SMTT(30), <1>2, <1>3
  <2> QED BY <2>1 DEF Items
<1> QED BY <1>2, <1>3, <1>4, <1>5 DEF Items, new

\* Tail is the pop of one item.
LEMMA TailItem ==
  ASSUME NEW sk, Items(sk), sk # <<>>
  PROVE  /\ Tail(sk) = SubSeq(sk, 2, Len(sk))
         /\ 1 \in 0 .. Len(sk) /\ 1 \in DOMAIN sk
<1> DEFINE A == {sk[j] : j \in DOMAIN sk}
<1>1. sk \in Seq(A) BY DEF Items
<1> HIDE DEF A
<1> QED BY SMTT(30), <1>1, TailIsSubSeq

-----------------------------------------------------------------------------
(* Ownership of black holes.                                               *)

\* Popping items, and taking the popped update frames' thunks out of their
\* black hole: what update_at_indices, unwind and the operators do.
LEMMA OwnedDrop ==
  ASSUME NEW st, NEW sk, NEW S, Items(sk), Owned(st, sk, S), NEW n \in 0 .. Len(sk),
         NEW st2, DOMAIN st2 = DOMAIN st,
         \A i \in DOMAIN st :
            IF \E k \in 1 .. n : sk[k] = IdxFrame(i) THEN st2[i] # "blackholed"
            ELSE st2[i] = st[i]
  PROVE  Owned(st2, SubSeq(sk, n + 1, Len(sk)), S)
<1> DEFINE new == SubSeq(sk, n + 1, Len(sk))
           Out(i) == \E k \in 1 .. n : sk[k] = IdxFrame(i)
<1>1. /\ Len(sk) \in Nat /\ DOMAIN sk = 1 .. Len(sk)
      /\ DOMAIN new = 1 .. Len(sk) - n
      /\ \A m \in 1 .. Len(sk) - n : new[m] = sk[m + n]
  BY DropItems
<1> HIDE DEF new
<1>2. ASSUME NEW k \in 1 .. n PROVE k \in DOMAIN sk
  BY SMTT(30), <1>1
<1>3. ASSUME NEW i, Out(i) PROVE i \notin S
  <2>1. PICK k \in 1 .. n : sk[k] = IdxFrame(i) BY <1>3
  <2>2. sk[k].k = "idx" /\ sk[k].i = i BY SMTT(30), <2>1 DEF IdxFrame
  <2> QED BY <2>2, <1>2 DEF Owned
<1>4. ASSUME NEW m \in DOMAIN new PROVE m + n \in DOMAIN sk /\ new[m] = sk[m + n]
  BY SMTT(30), <1>1
<1>5. ASSUME NEW m \in DOMAIN new, new[m].k = "idx" PROVE new[m].i \in DOMAIN st2 \ S
  BY SMTT(30), <1>4, <1>5 DEF Owned
<1>6. ASSUME NEW i \in DOMAIN st, i \notin S
      PROVE  st2[i] = "blackholed" <=> \E m \in DOMAIN new : new[m] = IdxFrame(i)
  <2>1. st[i] = "blackholed" <=> \E m \in DOMAIN sk : sk[m] = IdxFrame(i)
    BY <1>6 DEF Owned
  <2>2. CASE Out(i)
    <3>1. PICK k \in 1 .. n : sk[k] = IdxFrame(i) BY <2>2
    <3>2. k \in DOMAIN sk BY <1>2
    <3>3. ASSUME NEW m \in DOMAIN new, new[m] = IdxFrame(i) PROVE FALSE
      <4>1. m + n = k BY <3>1, <3>2, <3>3, <1>4 DEF Owned
      <4> QED BY SMTT(30), <4>1, <1>1, <3>1
    <3> QED BY <2>2, <3>3
  <2>3. CASE ~ Out(i)
    <3>1. st2[i] = st[i] BY <2>3
    <3>2. ASSUME NEW m \in DOMAIN sk, sk[m] = IdxFrame(i)
          PROVE  \E j \in DOMAIN new : new[j] = IdxFrame(i)
      <4>1. m \notin 1 .. n BY <3>2, <2>3
      <4>2. m - n \in DOMAIN new /\ new[m - n] = sk[m] BY SMTT(30), <4>1, <1>1
      <4> QED BY <4>2, <3>2
    <3> QED BY <3>1, <3>2, <2>1, <1>4
  <2> QED BY <2>2, <2>3
<1>7. ASSUME NEW i \in DOMAIN st, NEW l \in DOMAIN new, NEW m \in DOMAIN new,
             new[l] = IdxFrame(i), new[m] = IdxFrame(i)
      PROVE  l = m
  <2>1. l + n = m + n BY <1>4, <1>7 DEF Owned
  <2> QED BY SMTT(30), <2>1, <1>1
<1>8. ASSUME NEW i \in DOMAIN st, i \in S PROVE st2[i] = "blackholed"
  BY <1>3, <1>8 DEF Owned
<1>9. Owned(st2, new, S)
  BY <1>5, <1>6, <1>7, <1>8 DEF Owned
<1> QED BY <1>9 DEF new

\* Popping items that are not update frames.
LEMMA OwnedDropOthers ==
  ASSUME NEW st, NEW sk, NEW S, Items(sk), Owned(st, sk, S),
         NEW n \in 0 .. Len(sk), \A k \in 1 .. n : sk[k].k # "idx"
  PROVE  /\ Items(SubSeq(sk, n + 1, Len(sk)))
         /\ Owned(st, SubSeq(sk, n + 1, Len(sk)), S)
<1>1. Items(SubSeq(sk, n + 1, Len(sk))) BY DropItems
<1>2. \A i : ~ \E k \in 1 .. n : sk[k] = IdxFrame(i)
  BY SMTT(30) DEF IdxFrame
<1> QED BY <1>1, <1>2, OwnedDrop

\* Popping one of them.
LEMMA OwnedPop ==
  ASSUME NEW st, NEW sk, NEW S, Items(sk), Owned(st, sk, S), sk # <<>>, sk[1].k # "idx"
  PROVE  Items(Tail(sk)) /\ Owned(st, Tail(sk), S)
<1>1. Tail(sk) = SubSeq(sk, 1 + 1, Len(sk)) /\ 1 \in 0 .. Len(sk)
  BY SMTT(30), TailItem
<1>2. \A k \in 1 .. 1 : sk[k].k # "idx" BY SMTT(30)
<1> QED BY <1>1, <1>2, OwnedDropOthers

\* Pushing an item that is not an update frame.
LEMMA OwnedPush ==
  ASSUME NEW st, NEW sk, NEW S, Items(sk), Owned(st, sk, S), NEW f, f.k \in Kinds \ {"idx"}
  PROVE  Items(<<f>> \o sk) /\ Owned(st, <<f>> \o sk, S)
<1> DEFINE new == <<f>> \o sk
<1>1. /\ Items(new)
      /\ Len(sk) \in Nat /\ DOMAIN sk = 1 .. Len(sk)
      /\ DOMAIN new = 1 .. Len(sk) + 1
      /\ new[1] = f
      /\ \A n \in 1 .. Len(sk) : new[n + 1] = sk[n]
  BY SMTT(30), PushItem
<1> HIDE DEF new
<1>2. ASSUME NEW m \in DOMAIN new, new[m].k = "idx"
      PROVE  m - 1 \in DOMAIN sk /\ new[m] = sk[m - 1]
  <2>1. m # 1 BY <1>1, <1>2
  <2>2. m - 1 \in 1 .. Len(sk) BY SMTT(30), <2>1, <1>1
  <2>3. new[(m - 1) + 1] = sk[m - 1] /\ (m - 1) + 1 = m BY SMTT(30), <2>2, <1>1
  <2> QED BY <2>2, <2>3, <1>1
<1>3. \A i : IdxFrame(i).k = "idx" BY DEF IdxFrame
<1>4. ASSUME NEW i PROVE (\E m \in DOMAIN new : new[m] = IdxFrame(i))
                          <=> (\E m \in DOMAIN sk : sk[m] = IdxFrame(i))
  <2>1. ASSUME NEW m \in DOMAIN sk PROVE m + 1 \in DOMAIN new /\ new[m + 1] = sk[m]
    BY SMTT(30), <1>1
  <2> QED BY <2>1, <1>2, <1>3
<1>5. ASSUME NEW i \in DOMAIN st, NEW l \in DOMAIN new, NEW m \in DOMAIN new,
             new[l] = IdxFrame(i), new[m] = IdxFrame(i)
      PROVE  l = m
  <2>1. /\ l - 1 \in DOMAIN sk /\ new[l] = sk[l - 1]
        /\ m - 1 \in DOMAIN sk /\ new[m] = sk[m - 1]
    BY <1>2, <1>3, <1>5
  <2>2. l - 1 = m - 1 BY <2>1, <1>5 DEF Owned
  <2> QED BY SMTT(30), <2>2, <1>1
<1>6. Owned(st, new, S)
  BY SMTT(30), <1>2, <1>4, <1>5 DEF Owned
<1> QED BY <1>1, <1>6 DEF new

\* Entering a suspended thunk: black hole and update frame come together
\* (get_update_index).
LEMMA OwnedEnter ==
  ASSUME NEW st, NEW sk, NEW S, Items(sk), Owned(st, sk, S),
         NEW i \in DOMAIN st, st[i] # "blackholed"
  PROVE  /\ Items(<<IdxFrame(i)>> \o sk)
         /\ Owned([st EXCEPT ![i] = "blackholed"], <<IdxFrame(i)>> \o sk, S)
<1> DEFINE f == IdxFrame(i)
           new == <<f>> \o sk
           st2 == [st EXCEPT ![i] = "blackholed"]
<1>1. f.k = "idx" /\ f.i = i /\ f = IdxFrame(f.i) /\ f.k \in Kinds
  BY DEF IdxFrame, Kinds
<1>2. /\ Items(new)
      /\ Len(sk) \in Nat /\ DOMAIN sk = 1 .. Len(sk)
      /\ DOMAIN new = 1 .. Len(sk) + 1
      /\ new[1] = f
      /\ \A n \in 1 .. Len(sk) : new[n + 1] = sk[n]
  BY SMTT(30), <1>1, PushItem
<1> HIDE DEF new
<1>3. ASSUME NEW m \in DOMAIN new, m # 1
      PROVE  m - 1 \in DOMAIN sk /\ new[m] = sk[m - 1]
  <2>1. m - 1 \in 1 .. Len(sk) BY SMTT(30), <1>2, <1>3
  <2>2. new[(m - 1) + 1] = sk[m - 1] /\ (m - 1) + 1 = m BY SMTT(30), <2>1, <1>2
  <2> QED BY <2>1, <2>2, <1>2
<1>4. i \notin S /\ \A n \in DOMAIN sk : sk[n] # IdxFrame(i)
  BY DEF Owned
<1>5. DOMAIN st2 = DOMAIN st /\ st2[i] = "blackholed" /\ \A j \in DOMAIN st \ {i} : st2[j] = st[j]
  OBVIOUS
<1> HIDE DEF st2
<1>6. ASSUME NEW m \in DOMAIN new, new[m].k = "idx" PROVE new[m].i \in DOMAIN st2 \ S
  <2>1. CASE m = 1 BY <2>1, <1>1, <1>2, <1>4, <1>5
  <2>2. CASE m # 1 BY SMTT(30), <2>2, <1>3, <1>6, <1>5 DEF Owned
  <2> QED BY <2>1, <2>2
<1>7. ASSUME NEW j \in DOMAIN st, j # i
      PROVE  /\ IdxFrame(j) # f
             /\ (\E m \in DOMAIN new : new[m] = IdxFrame(j))
                  <=> (\E m \in DOMAIN sk : sk[m] = IdxFrame(j))
  <2>1. IdxFrame(j).i = j BY DEF IdxFrame
  <2>2. IdxFrame(j) # f BY <2>1, <1>1, <1>7
  <2>3. ASSUME NEW m \in DOMAIN sk PROVE m + 1 \in DOMAIN new /\ new[m + 1] = sk[m]
    BY SMTT(30), <1>2
  <2> QED BY SMTT(30), <2>2, <2>3, <1>2, <1>3
<1>8. ASSUME NEW j \in DOMAIN st, NEW l \in DOMAIN new, NEW m \in DOMAIN new,
             new[l] = IdxFrame(j), new[m] = IdxFrame(j)
      PROVE  l = m
  <2>1. CASE j = i
    <3>1. l = 1 BY <2>1, <1>3, <1>4, <1>8
    <3>2. m = 1 BY <2>1, <1>3, <1>4, <1>8
    <3> QED BY <3>1, <3>2
  <2>2. CASE j # i
    <3>1. l # 1 /\ m # 1 BY <2>2, <1>7, <1>8, <1>2
    <3>2. /\ l - 1 \in DOMAIN sk /\ new[l] = sk[l - 1]
          /\ m - 1 \in DOMAIN sk /\ new[m] = sk[m - 1]
      BY <3>1, <1>3
    <3>3. l - 1 = m - 1 BY <3>2, <1>8 DEF Owned
    <3> QED BY SMTT(30), <3>3, <1>2
  <2> QED BY <2>1, <2>2
<1>9. ASSUME NEW j \in DOMAIN st
      PROVE  /\ j \notin S => (st2[j] = "blackholed" <=> \E m \in DOMAIN new : new[m] = IdxFrame(j))
             /\ j \in S => st2[j] = "blackholed"
  <2>1. CASE j = i
    <3>1. 1 \in DOMAIN new BY SMTT(30), <1>2
    <3> QED BY <2>1, <3>1, <1>2, <1>5, <1>4
  <2>2. CASE j # i BY <2>2, <1>5, <1>7 DEF Owned
  <2> QED BY <2>1, <2>2
<1>10. Owned(st2, new, S)
  BY <1>5, <1>6, <1>8, <1>9 DEF Owned
<1> QED BY <1>2, <1>10 DEF new, st2

\* Marking a thunk that is not black-holed as evaluated.
LEMMA OwnedEvaluated ==
  ASSUME NEW st, NEW sk, NEW S, Owned(st, sk, S), NEW i \in DOMAIN st, st[i] # "blackholed"
  PROVE  Owned([st EXCEPT ![i] = "evaluated"], sk, S)
<1> DEFINE st2 == [st EXCEPT ![i] = "evaluated"]
<1>1. DOMAIN st2 = DOMAIN st /\ st2[i] = "evaluated" /\ \A j \in DOMAIN st \ {i} : st2[j] = st[j]
  OBVIOUS
<1> HIDE DEF st2
<1>2. i \notin S /\ st2[i] # "blackholed"
  BY <1>1 DEF Owned
<1>3. Owned(st2, sk, S)
  BY <1>1, <1>2 DEF Owned
<1> QED BY <1>3 DEF st2

\* Allocating thunks: a black-holed one among them has no update frame.
LEMMA OwnedGrow ==
  ASSUME NEW st, NEW sk, NEW S, Items(sk), Owned(st, sk, S), S \subseteq DOMAIN st,
         NEW sts, DOMAIN sts \cap DOMAIN st = {}
  PROVE  Owned(Extend(st, sts), sk, S \cup {i \in DOMAIN sts : sts[i] = "blackholed"})
<1> DEFINE st2 == Extend(st, sts)
           S2 == S \cup {i \in DOMAIN sts : sts[i] = "blackholed"}
<1>1. /\ DOMAIN st2 = DOMAIN st \cup DOMAIN sts
      /\ \A i \in DOMAIN st : st2[i] = st[i]
      /\ \A i \in DOMAIN sts : st2[i] = sts[i]
  BY DEF Extend
<1> HIDE DEF st2
<1>2. \A i \in DOMAIN st : i \in S2 <=> i \in S
  OBVIOUS
<1>3. \A i \in DOMAIN sts : i \in S2 <=> sts[i] = "blackholed"
  OBVIOUS
<1>4. S2 \subseteq DOMAIN st2 BY <1>1
<1> HIDE DEF S2
<1>5. ASSUME NEW i \in DOMAIN sts, NEW n \in DOMAIN sk PROVE sk[n] # IdxFrame(i)
  <2>1. IdxFrame(i).k = "idx" /\ IdxFrame(i).i = i BY DEF IdxFrame
  <2> QED BY <2>1 DEF Owned
<1>6. \A n \in DOMAIN sk : sk[n].k = "idx" => sk[n].i \in DOMAIN st2 \ S2
  BY <1>1, <1>2 DEF Owned
<1>7. Owned(st2, sk, S2)
  BY <1>1, <1>2, <1>3, <1>5, <1>6 DEF Owned
<1> QED BY <1>7 DEF st2, S2

-----------------------------------------------------------------------------
(* The number of update frames at the top of the stack.                    *)

\* A set of natural numbers has a least element.
LEMMA LeastNat ==
  ASSUME NEW S \in SUBSET Nat, S # {}
  PROVE  \E x \in S : \A y \in S : x <= y
<1> DEFINE R == {ss \in Nat \X Nat : ss[1] < ss[2]}
<1>1. IsWellFoundedOn(R, Nat)
  BY NatLessThanWellFounded DEF OpToRel
<1>2. PICK x \in S : \A y \in S : ~ (<<y, x>> \in R)
  <2> HIDE DEF R
  <2> QED BY <1>1, WFMin
<1>3. ASSUME NEW y \in S PROVE x <= y
  <2>1. y \in Nat /\ x \in Nat /\ <<y, x>> \notin R BY <1>2
  <2>2. ~ (y < x) BY <2>1
  <2> QED BY SMTT(30), <2>1, <2>2
<1> QED BY <1>3

\* TopIndices counts the update frames above the first other item.
LEMMA TopIndicesFacts ==
  ASSUME Items(stack)
  PROVE  /\ TopIndices \in 0 .. Len(stack)
         /\ \A k \in 1 .. TopIndices : IsIdx(k)
         /\ TopIndices < Len(stack) => ~ IsIdx(TopIndices + 1)
<1> DEFINE A == {stack[j] : j \in DOMAIN stack}
           L == Len(stack)
           P(n) == /\ \A k \in 1 .. n : IsIdx(k)
                   /\ n < L => ~ IsIdx(n + 1)
           S == {n \in 0 .. L : n < L => ~ IsIdx(n + 1)}
<1>1. stack \in Seq(A) BY DEF Items
<1> HIDE DEF A
<1>2. L \in Nat BY SMTT(30), <1>1
<1> HIDE DEF L
<1>3. S \in SUBSET Nat /\ L \in S BY SMTT(30), <1>2
<1>4. PICK n \in S : \A m \in S : n <= m BY <1>3, LeastNat
<1>5. ASSUME NEW k \in 1 .. n PROVE IsIdx(k)
  <2>1. k - 1 \in 0 .. L /\ k - 1 < L /\ ~ (n <= k - 1) /\ (k - 1) + 1 = k
    BY SMTT(30), <1>2
  <2>2. k - 1 \notin S BY <2>1, <1>4
  <2> QED BY <2>1, <2>2
<1>6. n \in 0 .. L /\ P(n) BY <1>5
<1>7. TopIndices = CHOOSE m \in 0 .. L : P(m) BY DEF TopIndices, L
<1> HIDE DEF P
<1>8. TopIndices \in 0 .. L /\ P(TopIndices) BY <1>6, <1>7
<1> QED BY <1>8 DEF P, L

-----------------------------------------------------------------------------
(* The kinds of steps of the machine.                                      *)

\* BlackholesOwned in terms of Owned.
LEMMA OwnedIs ==
  BlackholesOwned <=> Owned(state, stack, stuck) /\ (mode \in {"idle", "ok"} => stack = <<>>)
BY DEF BlackholesOwned, Owned, Frames, IsIdx

\* The same in the next state.
LEMMA OwnedIsNext ==
  ASSUME Owned(state', stack', stuck'), mode' \in {"idle", "ok"} => stack' = <<>>
  PROVE  BlackholesOwned'
BY DEF BlackholesOwned, Owned, Frames, IsIdx

\* What is needed of the next state.
LEMMA Assemble ==
  ASSUME state' \in [DOMAIN state' -> ThunkState], DOMAIN inner' = DOMAIN state',
         clock' \in Nat, \A i \in DOMAIN state' : i.at \in 0 .. clock' - 1,
         Items(stack'), Owned(state', stack', stuck'), stuck' \subseteq DOMAIN state',
         mode' \in {"idle", "eval", "ok", "err"},
         mode' \in {"idle", "ok"} => stack' = <<>>,
         \A i \in DOMAIN state' : state'[i] = "evaluated" => inner'[i].built
  PROVE  IInv'
<1>1. BlackholesOwned' BY OwnedIsNext
<1>2. TypeOK' BY DEF TypeOK, Items, Kinds
<1>3. (Items(stack))' BY DEF Items, IdxFrame
<1> QED BY <1>1, <1>2, <1>3 DEF IInv, EvaluatedBuilt

\* Steps that change neither thunks nor stack.
LEMMA QuietStep ==
  ASSUME IInv, UNCHANGED <<heapVars, stack>>, mode' \in {"idle", "eval", "ok", "err"},
         mode' \in {"idle", "ok"} => stack = <<>>
  PROVE  IInv'
BY Assemble, OwnedIs DEF IInv, TypeOK, EvaluatedBuilt, heapVars

\* Steps that change the stack only.
LEMMA StackStep ==
  ASSUME IInv, UNCHANGED heapVars, Items(stack'), Owned(state, stack', stuck),
         mode' \in {"eval", "err"}
  PROVE  IInv'
BY Assemble DEF IInv, TypeOK, EvaluatedBuilt, heapVars

\* Steps that push an item other than an update frame.
LEMMA PushStep ==
  ASSUME IInv, UNCHANGED heapVars, NEW f, f.k \in Kinds \ {"idx"}, Push(f),
         mode' \in {"eval", "err"}
  PROVE  IInv'
<1>1. stack' = <<f>> \o stack BY DEF Push
<1>2. Items(<<f>> \o stack) /\ Owned(state, <<f>> \o stack, stuck)
  BY OwnedPush, OwnedIs DEF IInv
<1> QED BY <1>1, <1>2, StackStep

\* Popping the top item, when it is no update frame.
LEMMA Popped ==
  ASSUME IInv, stack # <<>>, stack[1].k # "idx"
  PROVE  Items(Tail(stack)) /\ Owned(state, Tail(stack), stuck)
BY OwnedPop, OwnedIs DEF IInv, TypeOK

\* Steps that allocate thunks, named after this step, and may rebuild others.
LEMMA GrowStep ==
  ASSUME IInv, Items(stack'), Owned(state, stack', stuck),
         NEW sts, sts \in [DOMAIN sts -> ThunkState],
         NEW ds, DOMAIN ds = DOMAIN sts,
         NEW inn, DOMAIN inn = DOMAIN inner,
         \A i \in DOMAIN inner : inner[i].built => inn[i] = inner[i],
         \A i \in DOMAIN sts : i.at = clock,
         \A i \in DOMAIN sts : sts[i] = "evaluated" => ds[i].built,
         state' = Extend(state, sts), inner' = Extend(inn, ds), clock' = clock + 1,
         stuck' = stuck \cup {i \in DOMAIN sts : sts[i] = "blackholed"},
         mode' \in {"eval", "err"}
  PROVE  IInv' /\ Kept
<1>1. /\ DOMAIN inner = DOMAIN state /\ clock \in Nat /\ stuck \subseteq DOMAIN state
      /\ state \in [DOMAIN state -> ThunkState]
      /\ \A i \in DOMAIN state : i.at \in 0 .. clock - 1
      /\ \A i \in DOMAIN state : state[i] = "evaluated" => inner[i].built
  BY DEF IInv, TypeOK, EvaluatedBuilt
<1>2. DOMAIN sts \cap DOMAIN state = {}
  <2>1. ASSUME NEW i \in DOMAIN sts, i \in DOMAIN state PROVE FALSE
    BY SMTT(30), <2>1, <1>1
  <2> QED BY <2>1
<1>3. /\ DOMAIN state' = DOMAIN state \cup DOMAIN sts
      /\ \A i \in DOMAIN state : state'[i] = state[i]
      /\ \A i \in DOMAIN sts : state'[i] = sts[i]
      /\ state' = [i \in DOMAIN state \cup DOMAIN sts |-> state'[i]]
  BY <1>2 DEF Extend
<1>4. /\ DOMAIN inner' = DOMAIN state'
      /\ \A i \in DOMAIN state : inner'[i] = inn[i]
      /\ \A i \in DOMAIN sts : inner'[i] = ds[i]
  BY <1>1, <1>2, <1>3 DEF Extend
<1>5. state' \in [DOMAIN state' -> ThunkState]
  BY <1>1, <1>3
<1>6. clock' \in Nat /\ \A i \in DOMAIN state' : i.at \in 0 .. clock' - 1
  BY SMTT(30), <1>1, <1>3
<1>7. Owned(state', stack', stuck')
  BY SMTT(30), <1>1, <1>2, OwnedGrow
<1>8. stuck' \subseteq DOMAIN state' BY <1>1, <1>3
<1>9. \A i \in DOMAIN state' : state'[i] = "evaluated" => inner'[i].built
  BY SMTT(30), <1>1, <1>3, <1>4
<1>10. Kept BY <1>1, <1>3, <1>4 DEF Kept
<1> QED BY <1>4, <1>5, <1>6, <1>7, <1>8, <1>9, <1>10, Assemble

\* Steps that allocate one standard thunk.
LEMMA AddStep ==
  ASSUME IInv, Items(stack'), Owned(state, stack', stuck), NEW i, i.at = clock, NEW d, Add(i, d),
         mode' \in {"eval", "err"}
  PROVE  IInv' /\ Kept
<1> DEFINE sts == [j \in {i} |-> "suspended"]
           ds == [j \in {i} |-> d]
<1>1. /\ state' = Extend(state, sts) /\ inner' = Extend(inner, ds) /\ clock' = clock + 1
      /\ stuck' = stuck \cup {j \in DOMAIN sts : sts[j] = "blackholed"}
  BY DEF Add, Allocate
<1>2. /\ DOMAIN sts = {i} /\ DOMAIN ds = {i} /\ sts \in [DOMAIN sts -> ThunkState]
      /\ \A j \in DOMAIN sts : j.at = clock /\ sts[j] # "evaluated"
  BY DEF ThunkState
<1> HIDE DEF sts, ds
<1> QED BY <1>1, <1>2, GrowStep

-----------------------------------------------------------------------------
(* The actions.                                                            *)

\* The invariant holds initially: no thunk, no frame.
LEMMA InitIInv == Init => IInv
<1> SUFFICES ASSUME Init PROVE IInv OBVIOUS
<1>1. state = EmptyEnv /\ inner = EmptyEnv /\ DOMAIN EmptyEnv = {} /\ stack = <<>> /\ stuck = {}
      /\ clock = 0 /\ mode = "idle"
  BY DEF Init, EmptyEnv
<1>2. DOMAIN stack = {} /\ stack \in Seq({stack[n] : n \in DOMAIN stack})
  BY SMTT(30), <1>1
<1>3. DOMAIN state = {} /\ DOMAIN inner = {} /\ state \in [DOMAIN state -> ThunkState]
  BY <1>1 DEF EmptyEnv
<1>4. TypeOK BY <1>1, <1>2, <1>3 DEF TypeOK
<1>5. BlackholesOwned BY <1>1, <1>2, <1>3 DEF BlackholesOwned
<1> QED BY <1>2, <1>3, <1>4, <1>5 DEF IInv, Items, EvaluatedBuilt

\* Steps of the loop and of the driver that change neither thunks nor stack.
LEMMA QuietActions ==
  ASSUME IInv,
         EnterBlackholed \/ RuntimeError \/ EvalDone \/ EvalNext \/ Return \/ Descend
         \/ UNCHANGED vars
  PROVE  IInv'
<1>1. mode \in {"idle", "eval", "ok", "err"} /\ (mode \in {"idle", "ok"} => stack = <<>>)
  BY OwnedIs DEF IInv, TypeOK
<1>2. CASE EnterBlackholed BY <1>2, QuietStep DEF EnterBlackholed, Fail
<1>3. CASE RuntimeError BY <1>3, QuietStep DEF RuntimeError, Fail
<1>4. CASE EvalDone BY <1>4, QuietStep DEF EvalDone
<1>5. CASE EvalNext BY <1>5, QuietStep DEF EvalNext
<1>6. CASE Return BY <1>6, <1>1, QuietStep DEF Return
<1>7. CASE Descend BY <1>7, <1>1, QuietStep DEF Descend
<1>8. CASE UNCHANGED vars BY <1>8, <1>1, QuietStep DEF vars, heapVars
<1> QED BY <1>2, <1>3, <1>4, <1>5, <1>6, <1>7, <1>8

\* Applications and primitive operators push an argument or a continuation.
LEMMA PushActions ==
  ASSUME IInv, EvalApp \/ EvalOp1 \/ EvalOp2
  PROVE  IInv'
<1>1. CASE EvalApp
  <2>1. ArgFrame(Closure(cur.v.a, cur.e)).k \in Kinds \ {"idx"} BY DEF ArgFrame, Kinds
  <2> QED BY <1>1, <2>1, PushStep DEF EvalApp, At, Continue
<1>2. CASE EvalOp1
  <2> DEFINE f == [k |-> "op1", op |-> cur.v.op, x |-> cur.v.x]
  <2>1. f.k \in Kinds \ {"idx"} BY DEF Kinds
  <2>2. Push(f) /\ UNCHANGED heapVars /\ mode' = "eval" BY <1>2 DEF EvalOp1, At, Continue
  <2> HIDE DEF f
  <2> QED BY <2>1, <2>2, PushStep
<1>3. CASE EvalOp2
  <2> DEFINE f == [k |-> "op2first", op |-> cur.v.op, c |-> Closure(cur.v.b, cur.e)]
  <2>1. f.k \in Kinds \ {"idx"} BY DEF Kinds
  <2>2. Push(f) /\ UNCHANGED heapVars /\ mode' = "eval" BY <1>3 DEF EvalOp2, At, Continue
  <2> HIDE DEF f
  <2> QED BY <2>1, <2>2, PushStep
<1> QED BY <1>1, <1>2, <1>3

\* A step that pops the top item, no update frame, and allocates nothing.
LEMMA PopStep ==
  ASSUME IInv, stack # <<>>, stack[1].k # "idx", stack' = Tail(stack), UNCHANGED heapVars,
         mode' \in {"eval", "err"}
  PROVE  IInv'
BY Popped, StackStep

\* Errors on arguments, field accesses, arithmetic and seals pop one item.
LEMMA PopActions ==
  ASSUME IInv, NotAFunc \/ RecordAccess \/ Plus \/ Seal \/ Unseal
  PROVE  IInv'
<1>1. CASE NotAFunc BY <1>1, PopStep DEF NotAFunc, TopIs, Fail
<1>2. CASE RecordAccess
  <2>1. mode' \in {"eval", "err"} BY <1>2, SMTT(30) DEF RecordAccess, Pops, AtWhnf, At, Continue, Fail
  <2> QED BY <1>2, <2>1, PopStep DEF RecordAccess, Pops, TopIs
<1>3. CASE Plus
  <2>1. mode' \in {"eval", "err"} BY <1>3 DEF Plus, Pops, AtWhnf, At, Continue, Fail
  <2> QED BY <1>3, <2>1, PopStep DEF Plus, Pops, TopIs
<1>4. CASE Seal
  <2>1. mode' \in {"eval", "err"} BY <1>4 DEF Seal, Pops, AtWhnf, At, Continue, Fail
  <2> QED BY <1>4, <2>1, PopStep DEF Seal, Pops, TopIs
<1>5. CASE Unseal
  <2>1. mode' \in {"eval", "err"} BY <1>5 DEF Unseal, Pops, AtWhnf, At, Continue, Fail
  <2> QED BY <1>5, <2>1, PopStep DEF Unseal, Pops, TopIs
<1> QED BY <1>1, <1>2, <1>3, <1>4, <1>5

\* seq pops its continuation and its second argument.
LEMMA SeqAction ==
  ASSUME IInv, EvalSeq
  PROVE  IInv'
<1>1. stack # <<>> /\ stack[1].k # "idx" /\ UNCHANGED heapVars
  BY DEF EvalSeq, TopIs
<1>2. CASE stack' = Tail(stack) /\ Fail("NotEnoughArgs")
  BY <1>1, <1>2, PopStep DEF Fail
<1>3. CASE Len(stack) > 1 /\ stack[2].k = "arg" /\ stack' = Below(2) /\ mode' = mode
  <2>1. Items(stack) /\ Owned(state, stack, stuck) BY OwnedIs DEF IInv
  <2> DEFINE A == {stack[j] : j \in DOMAIN stack}
             t == SubSeq(stack, 2 + 1, Len(stack))
  <2>2. Len(stack) \in Nat
    <3>1. stack \in Seq(A) BY <2>1 DEF Items
    <3> HIDE DEF A
    <3> QED BY SMTT(30), <3>1
  <2>3. 2 \in 0 .. Len(stack) BY SMTT(30), <1>3, <2>2
  <2>4. stack' = t BY <1>3 DEF Below
  <2>5. \A k \in 1 .. 2 : stack[k].k # "idx" BY SMTT(30), <1>1, <1>3
  <2>7. Items(t) /\ Owned(state, t, stuck)
    BY <2>1, <2>3, <2>5, OwnedDropOthers
  <2>8. mode' = "eval" BY <1>3 DEF EvalSeq, AtWhnf, At
  <2> HIDE DEF t
  <2> QED BY <1>1, <2>4, <2>7, <2>8, StackStep
<1> QED BY <1>2, <1>3 DEF EvalSeq, Continue

\* The first argument of a binary operator is evaluated: one continuation
\* replaces another.
LEMMA SecondArgAction ==
  ASSUME IInv, SecondArg
  PROVE  IInv'
<1> DEFINE f == [k |-> "op2second", op |-> stack[1].op, c |-> cur]
<1>1. /\ stack # <<>> /\ stack[1].k # "idx" /\ UNCHANGED heapVars
      /\ stack' = <<f>> \o Tail(stack) /\ mode' = "eval"
  BY DEF SecondArg, TopIs, AtWhnf, At, Continue
<1>2. f.k \in Kinds \ {"idx"} BY DEF Kinds
<1> HIDE DEF f
<1>3. Items(Tail(stack)) /\ Owned(state, Tail(stack), stuck) BY <1>1, Popped
<1>4. Items(<<f>> \o Tail(stack)) /\ Owned(state, <<f>> \o Tail(stack), stuck)
  BY <1>2, <1>3, OwnedPush
<1> QED BY <1>1, <1>4, StackStep

\* Entering a thunk.
LEMMA EnterAction ==
  ASSUME IInv, EnterCacheIndex
  PROVE  IInv'
<1>1. PICK i \in DOMAIN state : /\ inner[i].built /\ state[i] # "blackholed"
                                /\ GetUpdateIndex(i) /\ mode' = "eval"
                                /\ UNCHANGED <<inner, clock, stuck>>
  BY DEF EnterCacheIndex, Continue, At
<1>2. /\ Items(stack) /\ Owned(state, stack, stuck) /\ state \in [DOMAIN state -> ThunkState]
      /\ DOMAIN inner = DOMAIN state /\ clock \in Nat /\ stuck \subseteq DOMAIN state
      /\ \A j \in DOMAIN state : j.at \in 0 .. clock - 1
      /\ \A j \in DOMAIN state : state[j] = "evaluated" => inner[j].built
  BY OwnedIs DEF IInv, TypeOK, EvaluatedBuilt
<1>3. CASE state' = [state EXCEPT ![i] = "evaluated"] /\ UNCHANGED stack
  <2>1. Owned(state', stack', stuck') BY <1>1, <1>2, <1>3, OwnedEvaluated
  <2>2. DOMAIN state' = DOMAIN state /\ state' \in [DOMAIN state' -> ThunkState]
    BY <1>2, <1>3 DEF ThunkState
  <2>3. \A j \in DOMAIN state' : state'[j] = "evaluated" => inner'[j].built
    BY <1>1, <1>2, <1>3
  <2> QED BY <1>1, <1>2, <1>3, <2>1, <2>2, <2>3, Assemble
<1>4. CASE state' = [state EXCEPT ![i] = "blackholed"] /\ Push(IdxFrame(i))
  <2>1. stack' = <<IdxFrame(i)>> \o stack BY <1>4 DEF Push
  <2>2. Items(stack') /\ Owned(state', stack', stuck')
    BY <1>1, <1>2, <1>4, <2>1, OwnedEnter
  <2>3. DOMAIN state' = DOMAIN state /\ state' \in [DOMAIN state' -> ThunkState]
    BY <1>2, <1>4 DEF ThunkState
  <2>4. \A j \in DOMAIN state' : state'[j] = "evaluated" => inner'[j].built
    BY <1>1, <1>2, <1>4
  <2> QED BY <1>1, <1>2, <2>2, <2>3, <2>4, Assemble
<1> QED BY <1>1, <1>3, <1>4 DEF GetUpdateIndex

\* The update frames of the n topmost items, by their thunks.
LEMMA TopThunks ==
  ASSUME Items(stack), NEW n \in 0 .. Len(stack), NEW i
  PROVE  (\E k \in 1 .. n : stack[k] = IdxFrame(i))
           <=> (\E k \in 1 .. n : IsIdx(k) /\ stack[k].i = i)
<1>1. Len(stack) \in Nat /\ DOMAIN stack = 1 .. Len(stack) BY DropItems
<1>2. ASSUME NEW k \in 1 .. n PROVE stack[k] = IdxFrame(i) <=> IsIdx(k) /\ stack[k].i = i
  <2>1. k \in DOMAIN stack BY SMTT(30), <1>1
  <2> QED BY SMTT(30), <2>1 DEF Items, IsIdx, IdxFrame
<1> QED BY <1>2

\* update_at_indices: the topmost update frames, and no others, are gone, and
\* their thunks are evaluated.
LEMMA Updated ==
  ASSUME IInv, NEW c, UpdateAtIndices(TopIndices, c)
  PROVE  /\ TopIndices \in 0 .. Len(stack)
         /\ TopIndices < Len(stack) => stack[TopIndices + 1].k # "idx"
         /\ Items(Below(TopIndices)) /\ Owned(state', Below(TopIndices), stuck')
         /\ DOMAIN state' = DOMAIN state /\ state' \in [DOMAIN state' -> ThunkState]
         /\ DOMAIN inner' = DOMAIN state'
         /\ \A j \in DOMAIN state' : state'[j] = "evaluated" => inner'[j].built
         /\ UNCHANGED <<clock, stuck>>
         /\ \A j \in DOMAIN state : state[j] = "evaluated"
               => state'[j] = "evaluated" /\ inner'[j] = inner[j]
<1> DEFINE n == TopIndices
           upd == {stack[k].i : k \in 1 .. n}
<1>1. /\ Items(stack) /\ Owned(state, stack, stuck) /\ state \in [DOMAIN state -> ThunkState]
      /\ DOMAIN inner = DOMAIN state
      /\ \A j \in DOMAIN state : state[j] = "evaluated" => inner[j].built
  BY OwnedIs DEF IInv, TypeOK, EvaluatedBuilt
<1>2. /\ n \in 0 .. Len(stack)
      /\ \A k \in 1 .. n : IsIdx(k)
      /\ n < Len(stack) => ~ IsIdx(n + 1)
  BY <1>1, TopIndicesFacts
<1>3. /\ state' = [i \in DOMAIN state |-> IF i \in upd THEN "evaluated" ELSE state[i]]
      /\ inner' = [i \in DOMAIN inner |-> IF i \in upd THEN Update(inner[i], c) ELSE inner[i]]
      /\ UNCHANGED <<clock, stuck>>
  BY DEF UpdateAtIndices
<1> HIDE DEF n
<1>4. ASSUME NEW i PROVE i \in upd <=> \E k \in 1 .. n : stack[k] = IdxFrame(i)
  BY <1>1, <1>2, TopThunks
<1> HIDE DEF upd
<1>5. DOMAIN state' = DOMAIN state /\ state' \in [DOMAIN state' -> ThunkState]
  BY <1>1, <1>3 DEF ThunkState
<1>6. \A i \in DOMAIN state : IF \E k \in 1 .. n : stack[k] = IdxFrame(i)
                              THEN state'[i] # "blackholed" ELSE state'[i] = state[i]
  BY <1>3, <1>4
<1>7. Owned(state', SubSeq(stack, n + 1, Len(stack)), stuck')
  BY <1>1, <1>2, <1>3, <1>5, <1>6, OwnedDrop
<1>8. Items(SubSeq(stack, n + 1, Len(stack))) BY <1>1, <1>2, DropItems
<1>9. \A d : Update(d, c).built BY DEF Update
<1>10. \A j \in DOMAIN state' : state'[j] = "evaluated" => inner'[j].built
  BY <1>1, <1>3, <1>5, <1>9
<1>11. ASSUME NEW j \in DOMAIN state, state[j] = "evaluated" PROVE j \notin upd
  <2>1. Len(stack) \in Nat /\ DOMAIN stack = 1 .. Len(stack) BY <1>1, <1>2, DropItems
  <2>2. ASSUME NEW k \in 1 .. n, stack[k] = IdxFrame(j) PROVE FALSE
    <3>1. k \in DOMAIN stack BY SMTT(30), <1>2, <2>1
    <3>2. stack[k].k = "idx" /\ stack[k].i = j BY SMTT(30), <2>2 DEF IdxFrame
    <3>3. j \notin stuck BY <3>1, <3>2, <1>1 DEF Owned
    <3>4. state[j] = "blackholed" BY <3>1, <3>3, <2>2, <1>1 DEF Owned
    <3> QED BY <3>4, <1>11
  <2> QED BY <2>2, <1>4
<1>12. \A j \in DOMAIN state : state[j] = "evaluated"
               => state'[j] = "evaluated" /\ inner'[j] = inner[j]
  BY <1>1, <1>3, <1>11
<1> QED BY <1>1, <1>2, <1>3, <1>5, <1>7, <1>8, <1>10, <1>12 DEF Below, n, IsIdx

\* Updating the thunks when a weak head normal form is reached.
LEMMA UpdateAction ==
  ASSUME IInv, EvalUpdate
  PROVE  IInv'
<1>1. UpdateAtIndices(TopIndices, cur) /\ stack' = Below(TopIndices) /\ mode' = "eval"
  BY DEF EvalUpdate, AtWhnf, At
<1>2. clock \in Nat /\ stuck \subseteq DOMAIN state /\ \A j \in DOMAIN state : j.at \in 0 .. clock - 1
  BY DEF IInv, TypeOK
<1> QED BY <1>1, <1>2, Updated, Assemble

\* A sealed term updates, then pops at most one continuation.
LEMMA SealedAction ==
  ASSUME IInv, EvalSealed
  PROVE  IInv'
<1> DEFINE n == TopIndices
           t == Below(n)
<1>1. /\ UpdateAtIndices(n, cur)
      /\ \/ stack' = t
         \/ stack' = Below(n + 1) /\ n < Len(stack)
      /\ mode' \in {"eval", "err"}
  <2>1. mode = "eval" /\ UpdateAtIndices(n, cur) BY DEF EvalSealed, At
  <2>2. mode' \in {"eval", "err"} BY <2>1 DEF EvalSealed, Continue, Fail
  <2> QED BY <2>1, <2>2 DEF EvalSealed
<1>2. clock \in Nat /\ stuck \subseteq DOMAIN state /\ \A j \in DOMAIN state : j.at \in 0 .. clock - 1
  BY DEF IInv, TypeOK
<1>3. /\ n \in 0 .. Len(stack)
      /\ n < Len(stack) => stack[n + 1].k # "idx"
      /\ Items(t) /\ Owned(state', t, stuck')
      /\ DOMAIN state' = DOMAIN state /\ state' \in [DOMAIN state' -> ThunkState]
      /\ DOMAIN inner' = DOMAIN state'
      /\ \A j \in DOMAIN state' : state'[j] = "evaluated" => inner'[j].built
      /\ UNCHANGED <<clock, stuck>>
  BY <1>1, Updated
<1>4. CASE stack' = t
  BY <1>1, <1>2, <1>3, <1>4, Assemble
<1>5. CASE stack' = Below(n + 1) /\ n < Len(stack)
  <2>1. Items(stack) BY DEF IInv
  <2> DEFINE A == {stack[j] : j \in DOMAIN stack}
  <2>2. stack \in Seq(A) BY <2>1 DEF Items
  <2> HIDE DEF A, n
  <2>3. Len(stack) \in Nat /\ n \in Nat /\ n + 1 \in 1 .. Len(stack)
        /\ Len(stack) \in n + 1 .. Len(stack)
    BY SMTT(30), <2>2, <1>3, <1>5
  <2>4. /\ Tail(SubSeq(stack, n + 1, Len(stack))) = SubSeq(stack, n + 1 + 1, Len(stack))
        /\ Len(SubSeq(stack, n + 1, Len(stack))) = Len(stack) - n
        /\ SubSeq(stack, n + 1, Len(stack))[1] = stack[n + 1]
    <3>1. Tail(SubSeq(stack, n + 1, Len(stack))) = SubSeq(stack, n + 1 + 1, Len(stack))
      BY <2>2, <2>3, HeadTailOfSubSeq
    <3>2. /\ Len(SubSeq(stack, n + 1, Len(stack))) = Len(stack) - n
          /\ SubSeq(stack, n + 1, Len(stack))[1] = stack[n + 1]
      BY SMTT(30), <2>2, <2>3
    <3> QED BY <3>1, <3>2
  <2>6. stack' = Tail(t) /\ t # <<>> /\ t[1].k # "idx"
    <3>1. Len(t) = Len(stack) - n /\ t[1] = stack[n + 1] /\ stack' = Tail(t)
      BY <2>4, <1>5 DEF Below
    <3>2. Len(t) # 0 BY SMTT(30), <3>1, <2>3
    <3>3. t # <<>> BY SMTT(30), <3>2
    <3> QED BY <3>1, <3>3, <1>3, <1>5
  <2> HIDE DEF t
  <2>5. Items(Tail(t)) /\ Owned(state', Tail(t), stuck')
    BY <2>6, <1>3, OwnedPop
  <2> QED BY <2>6, <2>5, <1>1, <1>2, <1>3, Assemble
<1> QED BY <1>1, <1>4, <1>5

\* A let binding, and a function applied to the argument on the stack, put one
\* closure in a new thunk.
LEMMA AddActions ==
  ASSUME IInv, EvalLet \/ EvalFun
  PROVE  IInv' /\ Kept
<1>1. \A x, role : NewId(x, role).at = clock BY DEF NewId
<1>2. CASE EvalLet
  <2>1. Items(stack) /\ Owned(state, stack, stuck) BY OwnedIs DEF IInv
  <2>2. stack' = stack /\ mode' = "eval" BY <1>2 DEF EvalLet, At, Continue
  <2>3. \E i, d : Add(i, d) /\ i.at = clock BY <1>1, <1>2 DEF EvalLet
  <2> QED BY <2>1, <2>2, <2>3, AddStep
<1>3. CASE EvalFun
  <2>1. stack # <<>> /\ stack[1].k # "idx" /\ stack' = Tail(stack) /\ mode' = "eval"
    BY <1>3 DEF EvalFun, TopIs, At, Continue
  <2>2. Items(stack') /\ Owned(state, stack', stuck) BY <2>1, Popped
  <2>3. \E i, d : Add(i, d) /\ i.at = clock BY <1>1, <1>3 DEF EvalFun
  <2> QED BY <2>1, <2>2, <2>3, AddStep
<1> QED BY <1>2, <1>3

\* A recursive record allocates suspended thunks and builds only cached values
\* that were not built.
LEMMA RecRecordAction ==
  ASSUME IInv, EvalRecRecord
  PROVE  IInv' /\ Kept
<1> DEFINE v == cur.v
           sts == [i \in RecRecordIds(v) |-> "suspended"]
           ds == [i \in RecRecordIds(v) |-> RecRecordData(v, i)]
           inn == Patch(v)
<1>1. /\ \A i \in Patched(v) : inner[i].rev => ~ inner[i].built
      /\ state' = Extend(state, sts) /\ inner' = Extend(inn, ds) /\ clock' = clock + 1
      /\ UNCHANGED <<stuck, stack>> /\ mode' = "eval"
  BY DEF EvalRecRecord, At, Continue
<1>2. /\ DOMAIN sts = RecRecordIds(v) /\ DOMAIN ds = DOMAIN sts
      /\ sts \in [DOMAIN sts -> ThunkState]
      /\ \A i \in DOMAIN sts : sts[i] = "suspended"
  BY DEF ThunkState
<1>3. \A i \in RecRecordIds(v) : i.at = clock
  <2>1. \A x, role : NewId(x, role).at = clock BY DEF NewId
  <2> QED BY <2>1 DEF RecRecordIds
<1>4. DOMAIN inn = DOMAIN inner /\ \A i \in DOMAIN inner : inner[i].built => inn[i] = inner[i]
  <2>1. ASSUME NEW i \in DOMAIN inner, inner[i].built PROVE inn[i] = inner[i]
    <3>1. CASE i \in Patched(v)
      <4>1. ~ inner[i].rev BY <1>1, <2>1, <3>1
      <4> QED BY <4>1 DEF BuildCached, Patch
    <3>2. CASE i \notin Patched(v) BY <3>2 DEF Patch
    <3> QED BY <3>1, <3>2
  <2> QED BY <2>1 DEF Patch
<1> HIDE DEF sts, ds, inn
<1>5. stuck' = stuck \cup {i \in DOMAIN sts : sts[i] = "blackholed"} BY <1>1, <1>2
<1>6. Items(stack') /\ Owned(state, stack', stuck) BY <1>1, OwnedIs DEF IInv
<1> QED BY <1>1, <1>2, <1>3, <1>4, <1>5, <1>6, GrowStep

\* What is copied for a merge was allocated before.
LEMMA CopyAllocated ==
  ASSUME NEW m, \A p \in Used(m) : Allocated(Operand(m, p[1], p[2])),
         NEW i \in MergeIds(m), i.role # "both"
  PROVE  CopyOf(m, i) \in DOMAIN state
<1>1. \A x, role : NewId(x, role).x = x /\ NewId(x, role).role = role BY DEF NewId
<1>2. PICK p \in Copied(m) : i = NewId(p[1], p[2]) BY SMTT(30), <1>1 DEF MergeIds
<1>3. p \in Used(m) /\ IsThunk(Operand(m, p[1], p[2])) BY DEF Copied
<1>4. Operand(m, p[1], p[2]).i \in DOMAIN state BY <1>3 DEF Allocated, IsThunk
<1> QED BY SMTT(30), <1>1, <1>2, <1>4 DEF CopyOf

\* Merging allocates thunks: the copy of an evaluated one is built, that of a
\* black-holed one is stuck.
LEMMA MergeAction ==
  ASSUME IInv, Merge
  PROVE  IInv' /\ Kept
<1>1. stack # <<>> /\ stack[1].k # "idx" /\ stack' = Tail(stack) /\ mode = "eval"
  BY DEF Merge, Pops, TopIs, AtWhnf, At
<1>2. Items(stack') /\ Owned(state, stack', stuck) BY <1>1, Popped
<1>3. CASE UNCHANGED heapVars
  <2>1. (\E v, e : Continue(v, e)) \/ (\E e : Fail(e)) BY Zenon DEF Merge, MergeRecords
  <2>2. mode' \in {"eval", "err"} BY <1>1, <2>1 DEF Continue, Fail
  <2>3. Kept BY <1>3 DEF Kept, heapVars
  <2> QED BY <1>1, <1>3, <2>2, <2>3, PopStep
<1>4. ASSUME NEW m, MergeRecords(m) PROVE IInv' /\ Kept
  <2> DEFINE sts == [i \in MergeIds(m) |-> MergeState(m, i)]
             ds == [i \in MergeIds(m) |-> MergeData(m, i)]
  <2>1. /\ state' = Extend(state, sts) /\ inner' = Extend(inner, ds) /\ clock' = clock + 1
        /\ stuck' = stuck \cup {j \in DOMAIN sts : sts[j] = "blackholed"}
        /\ mode' = "eval"
        /\ \A p \in Used(m) : Allocated(Operand(m, p[1], p[2]))
    BY <1>1, <1>4, SMTT(30) DEF MergeRecords, Allocate, Continue
  <2>2. \A i \in MergeIds(m) : i.at = clock
    <3>1. \A x, role : NewId(x, role).at = clock BY DEF NewId
    <3> QED BY <3>1 DEF MergeIds
  <2>3. ASSUME NEW i \in MergeIds(m)
        PROVE  /\ MergeState(m, i) \in ThunkState
               /\ MergeState(m, i) = "evaluated" => MergeData(m, i).built
    <3>1. CASE i.role # "both" /\ From(m, i.x) = "both"
      <4> DEFINE j == CopyOf(m, i)
      <4>1. j \in DOMAIN state BY <2>1, <3>1, CopyAllocated
      <4>2. MergeState(m, i) = SaturatedState(j) /\ MergeData(m, i) = SaturatedData(j, Names(m))
        BY <3>1 DEF MergeState, MergeData
      <4>3. state[j] \in ThunkState /\ (state[j] = "evaluated" => inner[j].built)
        BY <4>1 DEF IInv, TypeOK, EvaluatedBuilt
      <4> HIDE DEF j
      <4> QED BY <4>2, <4>3 DEF SaturatedState, SaturatedData, ThunkState
    <3>2. CASE ~ (i.role # "both" /\ From(m, i.x) = "both")
      BY <3>2 DEF MergeState, ThunkState
    <3> QED BY <3>1, <3>2
  <2>4. /\ DOMAIN sts = MergeIds(m) /\ DOMAIN ds = DOMAIN sts
        /\ sts \in [DOMAIN sts -> ThunkState]
        /\ \A i \in DOMAIN sts : sts[i] = "evaluated" => ds[i].built
    BY <2>3
  <2> HIDE DEF sts, ds
  <2> QED BY <1>2, <2>1, <2>2, <2>4, GrowStep
<1> QED BY <1>3, <1>4 DEF Merge

\* A thunk with an update frame is black-holed.
LEMMA FrameBlackholed ==
  ASSUME IInv, NEW k \in DOMAIN stack, NEW j, stack[k] = IdxFrame(j)
  PROVE  j \in DOMAIN state /\ state[j] = "blackholed"
<1>1. stack[k].k = "idx" /\ stack[k].i = j BY SMTT(30) DEF IdxFrame
<1>2. Owned(state, stack, stuck) BY OwnedIs DEF IInv
<1>3. j \in DOMAIN state \ stuck BY <1>1, <1>2 DEF Owned
<1> QED BY <1>2, <1>3 DEF Owned

\* Unwinding the stack after an error leaves no frame, and makes suspended
\* again exactly the thunks that had one.
LEMMA RecoverAction ==
  ASSUME IInv, Recover
  PROVE  IInv' /\ Kept
<1> DEFINE L == Len(stack)
           upd == {stack[k].i : k \in {m \in DOMAIN stack : IsIdx(m)}}
<1>1. /\ stack' = <<>> /\ UNCHANGED <<inner, clock, stuck>> /\ mode' = "idle"
      /\ state' = [i \in DOMAIN state |-> IF i \in upd THEN "suspended" ELSE state[i]]
  BY DEF Recover, Reset
<1>2. /\ Items(stack) /\ Owned(state, stack, stuck) /\ state \in [DOMAIN state -> ThunkState]
      /\ DOMAIN inner = DOMAIN state /\ clock \in Nat /\ stuck \subseteq DOMAIN state
      /\ \A j \in DOMAIN state : j.at \in 0 .. clock - 1
      /\ \A j \in DOMAIN state : state[j] = "evaluated" => inner[j].built
  BY OwnedIs DEF IInv, TypeOK, EvaluatedBuilt
<1> DEFINE A == {stack[j] : j \in DOMAIN stack}
<1>3. stack \in Seq(A) BY <1>2 DEF Items
<1> HIDE DEF A
<1>4. L \in Nat /\ L \in 0 .. L /\ DOMAIN stack = 1 .. L
  BY SMTT(30), <1>3
<1>5. ASSUME NEW i PROVE i \in upd <=> \E k \in 1 .. L : stack[k] = IdxFrame(i)
  BY SMTT(30), <1>2, <1>4, TopThunks
<1> HIDE DEF upd
<1>6. DOMAIN state' = DOMAIN state /\ state' \in [DOMAIN state' -> ThunkState]
  BY <1>1, <1>2 DEF ThunkState
<1>7. \A i \in DOMAIN state : IF \E k \in 1 .. L : stack[k] = IdxFrame(i)
                              THEN state'[i] # "blackholed" ELSE state'[i] = state[i]
  BY <1>1, <1>5
<1>8. Items(Below(L)) /\ Owned(state', Below(L), stuck)
  <2>1. Items(Below(L)) BY <1>2, <1>4, DropItems DEF Below
  <2>2. Owned(state', Below(L), stuck) BY <1>2, <1>4, <1>6, <1>7, OwnedDrop DEF Below
  <2> QED BY <2>1, <2>2
<1>9. Items(stack') /\ Owned(state', stack', stuck')
  <2>1. Below(L) = <<>> BY SMTT(30), <1>3, <1>4 DEF Below
  <2>2. stack' = Below(L) /\ stuck' = stuck BY <1>1, <2>1
  <2> QED BY <1>8, <2>2
<1>10. \A j \in DOMAIN state' : state'[j] = "evaluated" => inner'[j].built
  <2>1. \A j \in DOMAIN state : state'[j] = "evaluated" => state[j] = "evaluated" BY <1>1
  <2> QED BY <1>1, <1>2, <1>6, <2>1
<1>11. ASSUME NEW j \in DOMAIN state, state[j] = "evaluated" PROVE j \notin upd
  <2>1. ASSUME NEW k \in 1 .. L, stack[k] = IdxFrame(j) PROVE FALSE
    <3>1. k \in DOMAIN stack BY <1>4
    <3>2. state[j] = "blackholed" BY <2>1, <3>1, FrameBlackholed
    <3> QED BY <1>11, <3>2
  <2> QED BY <2>1, <1>5
<1>12. Kept BY <1>1, <1>11 DEF Kept
<1>13. IInv' BY <1>1, <1>2, <1>6, <1>9, <1>10, Assemble
<1> QED BY <1>12, <1>13

\* Steps that leave the thunks alone keep their values.
LEMMA KeptQuiet ==
  ASSUME UNCHANGED heapVars
  PROVE  Kept
BY DEF heapVars, Kept

\* Entering and updating thunks keeps the value of the evaluated ones: an
\* evaluated thunk is not black-holed again, and has no update frame.
LEMMA KeptEnterUpdate ==
  ASSUME IInv, EnterCacheIndex \/ EvalUpdate \/ EvalSealed
  PROVE  Kept
<1>1. CASE EnterCacheIndex
  <2>1. PICK i \in DOMAIN state : GetUpdateIndex(i) /\ UNCHANGED inner
    BY <1>1 DEF EnterCacheIndex
  <2>2. CASE state' = [state EXCEPT ![i] = "evaluated"] BY <2>1, <2>2 DEF Kept
  <2>3. CASE state[i] # "evaluated" /\ state' = [state EXCEPT ![i] = "blackholed"]
    BY <2>1, <2>3 DEF Kept
  <2> QED BY <2>1, <2>2, <2>3 DEF GetUpdateIndex
<1>2. CASE EvalUpdate BY <1>2, Updated DEF EvalUpdate, Kept
<1>3. CASE EvalSealed
  <2>1. UpdateAtIndices(TopIndices, cur) BY <1>3, Zenon DEF EvalSealed
  <2> QED BY <2>1, Updated DEF Kept
<1> QED BY <1>1, <1>2, <1>3

-----------------------------------------------------------------------------
(* The theorems.                                                           *)

\* Every step of the machine and of its driver preserves the invariant.
LEMMA NextIInv == IInv /\ [Next]_vars => IInv'
<1> SUFFICES ASSUME IInv, [Next]_vars PROVE IInv' OBVIOUS
<1>1. CASE \/ EnterBlackholed \/ RuntimeError \/ EvalDone \/ EvalNext \/ Return \/ Descend
           \/ Finished \/ UNCHANGED vars
  BY <1>1, QuietActions DEF Finished
<1>2. CASE EvalApp \/ EvalOp1 \/ EvalOp2 BY <1>2, PushActions
<1>3. CASE NotAFunc \/ RecordAccess \/ Plus \/ Seal \/ Unseal BY <1>3, PopActions
<1>4. CASE EvalSeq BY <1>4, SeqAction
<1>5. CASE SecondArg BY <1>5, SecondArgAction
<1>6. CASE EnterCacheIndex BY <1>6, EnterAction
<1>7. CASE EvalUpdate BY <1>7, UpdateAction
<1>8. CASE EvalSealed BY <1>8, SealedAction
<1>9. CASE EvalLet \/ EvalFun BY <1>9, AddActions
<1>10. CASE EvalRecRecord BY <1>10, RecRecordAction
<1>11. CASE Merge BY <1>11, MergeAction
<1>12. CASE Recover BY <1>12, RecoverAction
<1> QED BY <1>1, <1>2, <1>3, <1>4, <1>5, <1>6, <1>7, <1>8, <1>9, <1>10, <1>11, <1>12
        DEF Next, Step

\* Every step keeps the values of the evaluated thunks.
LEMMA NextKept == IInv /\ [Next]_vars => [Kept]_vars
<1> SUFFICES ASSUME IInv, [Next]_vars PROVE Kept \/ UNCHANGED vars OBVIOUS
<1>1. CASE EnterBlackholed \/ RuntimeError \/ EvalDone \/ EvalNext \/ Return \/ Descend
  BY <1>1, KeptQuiet, SMTT(30) DEF EnterBlackholed, RuntimeError, EvalDone, EvalNext, Return, Descend
<1>2. CASE EvalApp \/ EvalOp1 \/ EvalOp2 \/ EvalSeq \/ SecondArg
  BY <1>2, KeptQuiet DEF EvalApp, EvalOp1, EvalOp2, EvalSeq, SecondArg
<1>3. CASE NotAFunc \/ RecordAccess \/ Plus \/ Seal \/ Unseal
  BY <1>3, KeptQuiet, SMTT(30) DEF NotAFunc, RecordAccess, Plus, Seal, Unseal
<1>4. CASE EnterCacheIndex \/ EvalUpdate \/ EvalSealed BY <1>4, KeptEnterUpdate
<1>5. CASE EvalLet \/ EvalFun BY <1>5, AddActions
<1>6. CASE EvalRecRecord BY <1>6, RecRecordAction
<1>7. CASE Merge BY <1>7, MergeAction
<1>8. CASE Recover BY <1>8, RecoverAction
<1>9. CASE Finished BY <1>9 DEF Finished
<1> QED BY <1>1, <1>2, <1>3, <1>4, <1>5, <1>6, <1>7, <1>8, <1>9 DEF Next, Step

\* The inductive invariant holds throughout every session.
LEMMA InvariantHolds == Spec => []IInv
<1> QED BY InitIInv, NextIInv, PTL DEF Spec

\* For any programs and any depth limit the heap stays well formed.
THEOREM EvalTypeOK == Spec => []TypeOK
<1>1. IInv => TypeOK BY DEF IInv
<1> QED BY <1>1, InvariantHolds, PTL

\* For any programs, at every moment each update frame belongs to exactly one
\* black-holed thunk and, copies of black-holed thunks aside, each black-holed
\* thunk has its frame: updating, resetting after an error and dropping the
\* machine leave no thunk locked.
THEOREM FramesOwnBlackholes == Spec => []BlackholesOwned
<1>1. IInv => BlackholesOwned BY DEF IInv
<1> QED BY <1>1, InvariantHolds, PTL

\* For any programs, no step ever changes the value of an evaluated thunk: not
\* the update of another thunk, not the fixpoint of a merged record, not the
\* reset after an error.
THEOREM EvaluatedStays == Spec => ValuesStay
<1>1. ValuesStay <=> [][Kept]_vars BY DEF ValuesStay, Kept
<1>2. Spec => [][Kept]_vars BY InvariantHolds, NextKept, PTL DEF Spec
<1> QED BY <1>1, <1>2

===============================================================================
