-------------------------- MODULE BackgroundProofs --------------------------
(***************************************************************************)
(* Proofs about background evaluation, for any number of files, priorities *)
(* and requests.  An evaluation moves from the channel to a stack, from    *)
(* there to the worker and on to the channel of diagnostics, and may be    *)
(* replaced, refused or fail on the way.  The inductive invariant says     *)
(* that the evaluations of one file are ordered along this way, that the   *)
(* last one asked for is on it or settled, and that what was shown or lost *)
(* is older than all that is on the way.                                   *)
(***************************************************************************)
EXTENDS Background, TLAPS

\* Most leaves are first-order reasoning.  Those with arithmetic, sequences or
\* records name SMT.
USE Zenon

Elems(s) == {s[i] : i \in DOMAIN s}

Waiting  == Elems(evalRx)
Stacked  == Elems(evalStack) \cup Elems(priorityEvalStack)
Current  == {running} \ {None}
Answered == Elems(responses)
Live     == Waiting \cup Stacked \cup Current
OnTheWay == Live \cup Answered

\* For files with one priority, what is in A is older than what is in B.
Before(A, B) ==
    \A e \in A, g \in B : e.eval = g.eval /\ OnePriority(e.eval) => e.version < g.version
Ordered(s) ==
    \A i, j \in DOMAIN s : i < j /\ s[i].eval = s[j].eval /\ OnePriority(s[i].eval) =>
        s[i].version < s[j].version

\* A stack holds a file once, so it cannot outgrow the number of files
\* however fast requests come in (handle_eval).
Unique(s) == \A i, j \in DOMAIN s : s[i].eval = s[j].eval => i = j
StacksUnique == Unique(evalStack) /\ Unique(priorityEvalStack)

Sorted ==
    /\ \A e \in OnTheWay : e.highPriority \in PrioritiesOf[e.eval]
    /\ \A e \in Elems(evalStack) : ~e.highPriority
    /\ \A e \in Elems(priorityEvalStack) : e.highPriority

\* A file that is evaluated is not pending as well.
Alone == \A e \in Current, g \in Stacked : OnePriority(e.eval) => e.eval # g.eval

InOrder ==
    /\ Ordered(responses) /\ Ordered(evalRx)
    /\ Before(Answered, Live) /\ Before(Current, Waiting) /\ Before(Stacked, Waiting)
    /\ Alone

UpToRequest ==
    /\ \A e \in OnTheWay : e.version <= requested[e.eval]
    /\ \A f \in Files : lost[f] <= requested[f]

\* What was lost or shown is older than what is on the way.
Past ==
    /\ \A e \in Live : OnePriority(e.eval) => lost[e.eval] < e.version
    /\ \A e \in OnTheWay : OnePriority(e.eval) /\ published[e.eval].evaluated =>
           published[e.eval].version < e.version

\* A file in its blacklist_duration is neither pending nor evaluated.
BannedApart == \A e \in Stacked \cup Current : OnePriority(e.eval) => e.eval \notin bannedFiles

LatestKept ==
    \A f \in Files : OnePriority(f) =>
        Settled(f) \/ \E e \in OnTheWay : e.eval = f /\ e.version = requested[f]

IInv ==
    /\ TypeOK /\ StacksUnique /\ Sorted /\ InOrder /\ UpToRequest /\ Past
    /\ BannedApart /\ LatestKept

----------------------------------------------------------------------------
(* Sequences of evaluations.                                               *)

\* What a channel holds after a send.
LEMMA ElemsAppend ==
    ASSUME NEW s \in Seq(Eval), NEW e \in Eval
    PROVE  Append(s, e) \in Seq(Eval) /\ Elems(Append(s, e)) = Elems(s) \cup {e}
<1> DEFINE t == Append(s, e)
<1>1. /\ t \in Seq(Eval) /\ Len(t) = Len(s) + 1
      /\ \A i \in 1..Len(s) : t[i] = s[i]
      /\ t[Len(s) + 1] = e
  BY SMTT(30)
<1>2. DOMAIN t = 1..(Len(s) + 1) /\ DOMAIN s = 1..Len(s) /\ Len(s) \in Nat
  BY SMTT(30), <1>1
<1> HIDE DEF t
<1>3. \A x \in Elems(t) : x \in Elems(s) \cup {e}
  BY SMTT(30), <1>1, <1>2 DEF Elems
<1>4. \A x \in Elems(s) \cup {e} : x \in Elems(t)
  <2> SUFFICES ASSUME NEW x \in Elems(s) \cup {e} PROVE x \in Elems(t)
    OBVIOUS
  <2>1. CASE x = e
    BY SMTT(30), <2>1, <1>1, <1>2 DEF Elems
  <2>2. CASE x \in Elems(s)
    <3>1. PICK i \in 1..Len(s) : x = s[i]
      BY <2>2, <1>2 DEF Elems
    <3>2. i \in DOMAIN t /\ t[i] = x
      BY SMTT(30), <3>1, <1>1, <1>2
    <3> QED
      BY <3>2 DEF Elems
  <2> QED
    BY <2>1, <2>2
<1> QED
  BY <1>1, <1>3, <1>4 DEF t

\* What a channel holds before a receive.
LEMMA ElemsTail ==
    ASSUME NEW s \in Seq(Eval), s # <<>>
    PROVE  /\ Head(s) \in Eval /\ Tail(s) \in Seq(Eval)
           /\ Elems(s) = {Head(s)} \cup Elems(Tail(s))
<1> DEFINE t == Tail(s)
<1>1. /\ t \in Seq(Eval) /\ Len(t) = Len(s) - 1
      /\ \A i \in 1..Len(t) : t[i] = s[i + 1]
      /\ Head(s) = s[1] /\ Head(s) \in Eval /\ Len(s) \in Nat /\ Len(s) > 0
  BY SMTT(30)
<1>2. DOMAIN t = 1..(Len(s) - 1) /\ DOMAIN s = 1..Len(s)
  BY SMTT(30), <1>1
<1> HIDE DEF t
<1>3. \A x \in Elems(s) : x \in {Head(s)} \cup Elems(t)
  <2> SUFFICES ASSUME NEW i \in 1..Len(s), i # 1 PROVE s[i] \in Elems(t)
    BY <1>1, <1>2 DEF Elems
  <2>1. i - 1 \in DOMAIN t /\ t[i - 1] = s[i]
    BY SMTT(30), <1>1, <1>2
  <2> QED
    BY <2>1 DEF Elems
<1>4. \A x \in {Head(s)} \cup Elems(t) : x \in Elems(s)
  <2>1. Head(s) \in Elems(s)
    BY SMTT(30), <1>1, <1>2 DEF Elems
  <2>2. \A i \in DOMAIN t : i + 1 \in DOMAIN s /\ t[i] = s[i + 1]
    BY SMTT(30), <1>1, <1>2
  <2> QED
    BY <2>1, <2>2 DEF Elems
<1> QED
  BY <1>1, <1>3, <1>4 DEF t

\* The head of an ordered channel is the oldest.
LEMMA TailOrdered ==
    ASSUME NEW s \in Seq(Eval), s # <<>>, Ordered(s)
    PROVE  Ordered(Tail(s)) /\ Before({Head(s)}, Elems(Tail(s)))
<1> DEFINE t == Tail(s)
<1>1. /\ Len(t) = Len(s) - 1 /\ t \in Seq(Eval)
      /\ \A i \in 1..Len(t) : t[i] = s[i + 1]
      /\ Head(s) = s[1] /\ Len(s) \in Nat /\ Len(s) > 0
  BY SMTT(30)
<1>2. DOMAIN t = 1..(Len(s) - 1) /\ DOMAIN s = 1..Len(s)
  BY SMTT(30), <1>1
<1> HIDE DEF t
<1>3. Ordered(t)
  BY SMTT(30), <1>1, <1>2 DEF Ordered
<1>4. Before({Head(s)}, Elems(t))
  <2> SUFFICES ASSUME NEW i \in DOMAIN t, s[1].eval = t[i].eval, OnePriority(s[1].eval)
               PROVE  s[1].version < t[i].version
    BY <1>1 DEF Before, Elems
  <2>1. t[i] = s[i + 1] /\ 1 < i + 1 /\ i + 1 \in DOMAIN s /\ 1 \in DOMAIN s
    BY SMTT(30), <1>1, <1>2
  <2> QED
    BY <2>1 DEF Ordered
<1> QED
  BY <1>3, <1>4 DEF t

\* A send of something newer keeps the channel ordered.
LEMMA AppendOrdered ==
    ASSUME NEW s \in Seq(Eval), NEW e \in Eval, Ordered(s), Before(Elems(s), {e})
    PROVE  Ordered(Append(s, e))
<1> DEFINE t == Append(s, e)
<1>1. /\ t \in Seq(Eval) /\ Len(t) = Len(s) + 1
      /\ \A i \in 1..Len(s) : t[i] = s[i]
      /\ t[Len(s) + 1] = e
  BY SMTT(30)
<1>2. DOMAIN t = 1..(Len(s) + 1) /\ DOMAIN s = 1..Len(s) /\ Len(s) \in Nat
  BY SMTT(30), <1>1
<1> HIDE DEF t
<1>3. \A i \in 1..Len(s) : t[i].eval = e.eval /\ OnePriority(t[i].eval) => t[i].version < e.version
  BY <1>1, <1>2 DEF Before, Elems
<1>4. Ordered(t)
  <2> SUFFICES ASSUME NEW i \in 1..(Len(s) + 1), NEW j \in 1..(Len(s) + 1), i < j,
                      t[i].eval = t[j].eval, OnePriority(t[i].eval)
               PROVE  t[i].version < t[j].version
    BY <1>2 DEF Ordered
  <2>1. CASE j = Len(s) + 1
    BY SMTT(30), <2>1, <1>1, <1>2, <1>3
  <2>2. CASE j # Len(s) + 1
    <3>1. i \in DOMAIN s /\ j \in DOMAIN s
      BY SMTT(30), <2>2, <1>2
    <3> QED
      BY <3>1, <1>1, <1>2 DEF Ordered
  <2> QED
    BY <2>1, <2>2
<1> QED
  BY <1>4 DEF t

\* What a stack holds before a pop.
LEMMA PopElems ==
    ASSUME NEW s \in Seq(Eval), s # <<>>, Unique(s)
    PROVE  /\ Top(s) \in Eval /\ Pop(s) \in Seq(Eval) /\ Unique(Pop(s))
           /\ Elems(s) = {Top(s)} \cup Elems(Pop(s))
           /\ \A e \in Elems(Pop(s)) : e.eval # Top(s).eval
<1> DEFINE t == Pop(s)
<1>0. Len(s) \in Nat /\ Len(s) > 0 /\ Top(s) = s[Len(s)] /\ Top(s) \in Eval
  BY SMTT(30) DEF Top
<1>1. /\ t \in Seq(Eval) /\ Len(t) = Len(s) - 1
      /\ \A i \in 1..(Len(s) - 1) : t[i] = s[i]
  <2>1. PICK n : n = Len(s) - 1
    OBVIOUS
  <2>2. n \in Nat /\ n <= Len(s)
    BY SMTT(30), <1>0, <2>1
  <2>3. /\ SubSeq(s, 1, n) \in Seq(Eval) /\ Len(SubSeq(s, 1, n)) = n
        /\ \A i \in 1..n : SubSeq(s, 1, n)[i] = s[i]
    BY SMTT(30), <2>2
  <2> QED
    BY <2>1, <2>3 DEF Pop
<1>2. DOMAIN t = 1..(Len(s) - 1) /\ DOMAIN s = 1..Len(s)
  BY SMTT(30), <1>0, <1>1
<1> HIDE DEF t
<1>3. Unique(t)
  BY SMTT(30), <1>0, <1>1, <1>2 DEF Unique
<1>4. \A x \in Elems(s) : x \in {Top(s)} \cup Elems(t)
  <2> SUFFICES ASSUME NEW i \in 1..Len(s), i # Len(s) PROVE s[i] \in Elems(t)
    BY <1>0, <1>1, <1>2 DEF Elems
  <2>1. i \in DOMAIN t /\ t[i] = s[i]
    BY SMTT(30), <1>0, <1>1, <1>2
  <2> QED
    BY <2>1 DEF Elems
<1>5. \A x \in {Top(s)} \cup Elems(t) : x \in Elems(s)
  BY SMTT(30), <1>0, <1>1, <1>2 DEF Elems
<1>6. \A e \in Elems(t) : e.eval # Top(s).eval
  BY SMTT(30), <1>0, <1>1, <1>2 DEF Unique, Elems
<1> QED
  BY <1>0, <1>1, <1>3, <1>4, <1>5, <1>6 DEF t

\* handle_eval removes the pending evaluation of the file, wherever it is.
LEMMA WithoutElems ==
    ASSUME NEW s \in Seq(Eval), Unique(s), NEW f \in Files
    PROVE  /\ Without(s, f) \in Seq(Eval) /\ Unique(Without(s, f))
           /\ Elems(Without(s, f)) = {e \in Elems(s) : e.eval # f}
<1>1. CASE \A i \in DOMAIN s : s[i].eval # f
  BY <1>1 DEF Without, Elems
<1>2. CASE \E i \in DOMAIN s : s[i].eval = f
  <2>1. PICK k \in DOMAIN s : s[k].eval = f
    BY <1>2
  <2>2. DOMAIN s = 1..Len(s) /\ Len(s) \in Nat /\ k \in 1..Len(s) /\ k \in Nat
    BY SMTT(30)
  <2>3. \A j \in 1..k-1 : s[j].eval # f
    BY SMTT(30), <2>1, <2>2 DEF Unique
  <2>4. Position(s, f) = k
    <3>1. Position(s, f) \in DOMAIN s /\ s[Position(s, f)].eval = f
      BY <2>1, <2>3 DEF Position
    <3> QED
      BY <3>1, <2>1 DEF Unique
  <2> DEFINE a == SubSeq(s, 1, k - 1)
             b == SubSeq(s, k + 1, Len(s))
             t == a \o b
  <2>5. Without(s, f) = t
    BY <2>1, <2>4 DEF Without
  <2>6. /\ a \in Seq(Eval) /\ Len(a) = k - 1
        /\ \A i \in 1..(k - 1) : a[i] = s[i]
    BY SMTT(30), <2>2
  <2>7. /\ b \in Seq(Eval) /\ Len(b) = Len(s) - k
        /\ \A i \in 1..(Len(s) - k) : b[i] = s[i + k]
    BY SMTT(30), <2>2
  <2> HIDE DEF a, b
  <2>8. /\ t \in Seq(Eval) /\ Len(t) = Len(a) + Len(b)
        /\ \A i \in 1..(Len(a) + Len(b)) : t[i] = IF i <= Len(a) THEN a[i] ELSE b[i - Len(a)]
    BY SMTT(30), <2>6, <2>7
  <2> HIDE DEF t
  <2>9. /\ DOMAIN t = 1..(Len(s) - 1)
        /\ \A i \in 1..(k - 1) : t[i] = s[i]
        /\ \A i \in k..(Len(s) - 1) : t[i] = s[i + 1]
    <3>1. Len(t) = Len(s) - 1 /\ DOMAIN t = 1..(Len(s) - 1)
      BY SMTT(30), <2>2, <2>6, <2>7, <2>8
    <3>2. ASSUME NEW i \in 1..(k - 1) PROVE t[i] = s[i]
      BY SMTT(30), <2>2, <2>6, <2>7, <2>8
    <3>3. ASSUME NEW i \in k..(Len(s) - 1) PROVE t[i] = s[i + 1]
      <4>1. i \in 1..(Len(a) + Len(b)) /\ ~(i <= Len(a)) /\ i - Len(a) \in 1..(Len(s) - k)
            /\ i - Len(a) + k = i + 1
        BY SMTT(30), <2>2, <2>6, <2>7
      <4>2. t[i] = b[i - Len(a)]
        BY <4>1, <2>8
      <4>3. b[i - Len(a)] = s[i - Len(a) + k]
        BY <4>1, <2>7
      <4> QED
        BY <4>1, <4>2, <4>3
    <3> QED
      BY <3>1, <3>2, <3>3
  <2>10. Unique(t)
    <3> SUFFICES ASSUME NEW i \in 1..(Len(s) - 1), NEW j \in 1..(Len(s) - 1), t[i].eval = t[j].eval
                 PROVE  i = j
      BY <2>9 DEF Unique
    <3> DEFINE Old(n) == IF n < k THEN n ELSE n + 1
    <3>1. ASSUME NEW n \in 1..(Len(s) - 1) PROVE Old(n) \in DOMAIN s /\ t[n] = s[Old(n)]
      <4>1. CASE n < k
        BY SMTT(30), <4>1, <2>2, <2>9
      <4>2. CASE ~(n < k)
        <5>1. n \in k..(Len(s) - 1) /\ n + 1 \in 1..Len(s)
          BY SMTT(30), <4>2, <2>2
        <5> QED
          BY <4>2, <5>1, <2>2, <2>9
      <4> QED
        BY <4>1, <4>2
    <3>2. Old(i) = Old(j)
      BY SMTT(30), <3>1 DEF Unique
    <3> QED
      BY SMTT(30), <3>2, <2>2
  <2>11. \A x \in Elems(t) : x \in Elems(s) /\ x.eval # f
    <3> SUFFICES ASSUME NEW i \in 1..(Len(s) - 1) PROVE t[i] \in Elems(s) /\ t[i].eval # f
      BY <2>9 DEF Elems
    <3>1. CASE i < k
      BY SMTT(30), <3>1, <2>2, <2>3, <2>9 DEF Elems
    <3>2. CASE ~(i < k)
      <4>1. i + 1 \in DOMAIN s /\ t[i] = s[i + 1] /\ i + 1 # k
        BY SMTT(30), <3>2, <2>2, <2>9
      <4> QED
        BY <4>1, <2>1 DEF Elems, Unique
    <3> QED
      BY <3>1, <3>2
  <2>12. \A x \in Elems(s) : x.eval # f => x \in Elems(t)
    <3> SUFFICES ASSUME NEW i \in 1..Len(s), i # k PROVE s[i] \in Elems(t)
      BY <2>1, <2>2 DEF Elems
    <3>1. CASE i < k
      <4>1. i \in DOMAIN t /\ t[i] = s[i]
        BY SMTT(30), <3>1, <2>2, <2>9
      <4> QED
        BY <4>1 DEF Elems
    <3>2. CASE ~(i < k)
      <4>1. i - 1 \in DOMAIN t /\ t[i - 1] = s[i]
        BY SMTT(30), <3>2, <2>2, <2>9
      <4> QED
        BY <4>1 DEF Elems
    <3> QED
      BY <3>1, <3>2
  <2> QED
    BY <2>5, <2>8, <2>10, <2>11, <2>12 DEF t
<1> QED
  BY <1>1, <1>2

\* The new evaluation takes the place of the file's old one on top.
LEMMA Pushed ==
    ASSUME NEW s \in Seq(Eval), Unique(s), NEW e \in Eval
    PROVE  /\ Append(Without(s, e.eval), e) \in Seq(Eval)
           /\ Unique(Append(Without(s, e.eval), e))
           /\ Elems(Append(Without(s, e.eval), e)) = {x \in Elems(s) : x.eval # e.eval} \cup {e}
<1>0. e.eval \in Files
  BY DEF Eval
<1>1. PICK u : u = Without(s, e.eval)
  OBVIOUS
<1>2. u \in Seq(Eval) /\ Unique(u) /\ Elems(u) = {x \in Elems(s) : x.eval # e.eval}
  BY <1>0, <1>1, WithoutElems
<1>3. Append(u, e) \in Seq(Eval) /\ Elems(Append(u, e)) = Elems(u) \cup {e}
  BY <1>2, ElemsAppend
<1>4. Unique(Append(u, e))
  <2>1. \A i \in DOMAIN u : u[i].eval # e.eval
    BY <1>2 DEF Elems
  <2>2. /\ DOMAIN Append(u, e) = 1..(Len(u) + 1) /\ Len(u) \in Nat /\ DOMAIN u = 1..Len(u)
        /\ \A i \in 1..Len(u) : Append(u, e)[i] = u[i]
        /\ Append(u, e)[Len(u) + 1] = e
    BY SMTT(30), <1>2
  <2>3. PICK t : t = Append(u, e)
    OBVIOUS
  <2> SUFFICES ASSUME NEW i \in 1..(Len(u) + 1), NEW j \in 1..(Len(u) + 1), t[i].eval = t[j].eval
               PROVE  i = j
    BY <2>2, <2>3 DEF Unique
  <2>4. CASE i = Len(u) + 1 \/ j = Len(u) + 1
    BY SMTT(30), <2>1, <2>2, <2>3, <2>4
  <2>5. CASE i \in DOMAIN u /\ j \in DOMAIN u
    BY <2>2, <2>3, <2>5, <1>2 DEF Unique
  <2> QED
    BY SMTT(30), <2>2, <2>4, <2>5
<1> QED
  BY <1>1, <1>2, <1>3, <1>4

----------------------------------------------------------------------------
(* The steps.                                                              *)

LEMMA Typed ==
    ASSUME TypeOK
    PROVE  /\ OnTheWay \subseteq Eval /\ Live \subseteq Eval
           /\ \A e \in Eval : e.eval \in Files /\ e.version \in 1..MaxVersion
           /\ \A f \in Files : requested[f] \in 0..MaxVersion /\ lost[f] \in 0..MaxVersion
           /\ \A f \in Files : published[f].version \in 0..MaxVersion
           /\ MaxVersion \in Nat
<1>1. \A s \in Seq(Eval) : Elems(s) \subseteq Eval
  BY SMTT(30) DEF Elems
<1>2. OnTheWay \subseteq Eval /\ Live \subseteq Eval
  BY <1>1 DEF OnTheWay, Live, Waiting, Stacked, Current, Answered, TypeOK
<1> QED
  BY <1>2, BackgroundAssumption DEF TypeOK, Eval, Shown

LEMMA InitHolds == Init => IInv
<1> SUFFICES ASSUME Init PROVE IInv
  OBVIOUS
<1>1. Elems(<<>>) = {}
  BY SMTT(30) DEF Elems
<1>2. Waiting = {} /\ Stacked = {} /\ Current = {} /\ Answered = {}
  BY <1>1 DEF Init, Waiting, Stacked, Current, Answered
<1>3. TypeOK
  BY SMTT(30), BackgroundAssumption DEF Init, TypeOK, Shown, Eval
<1>4. StacksUnique /\ Ordered(responses) /\ Ordered(evalRx)
  BY SMTT(30) DEF Init, StacksUnique, Unique, Ordered
<1>5. Sorted /\ InOrder
  BY <1>1, <1>2, <1>4 DEF Sorted, InOrder, Alone, Before, OnTheWay, Live, Init
<1>6. UpToRequest /\ Past /\ BannedApart /\ LatestKept
  BY SMTT(30), <1>2 DEF UpToRequest, Past, BannedApart, LatestKept, OnTheWay, Live, Settled, Init
<1> QED
  BY <1>3, <1>4, <1>5, <1>6 DEF IInv

\* A request goes to the end of the channel and is newer than all before it.
LEMMA RequestStep ==
    ASSUME IInv, NEW f \in Files, NEW high \in PrioritiesOf[f], RunDiagnosticsOnFile(f, high)
    PROVE  IInv'
<1> USE DEF IInv
<1>0. high \in BOOLEAN
  BY DEF PrioritiesOf
<1>1. PICK e : e = [eval |-> f, version |-> requested[f] + 1, highPriority |-> high]
  OBVIOUS
<1>2. /\ requested[f] < MaxVersion /\ requested' = [requested EXCEPT ![f] = @ + 1]
      /\ requested'[f] = requested[f] + 1
      /\ evalRx' = Append(evalRx, e)
      /\ published' = [published EXCEPT ![f] = [version |-> requested[f] + 1, evaluated |-> FALSE]]
      /\ UNCHANGED <<evalStack, priorityEvalStack, bannedFiles, pc, running, responses, lost>>
  BY <1>1 DEF RunDiagnosticsOnFile, queueVars, TypeOK
<1>3. e \in Eval /\ e.eval = f /\ e.version = requested[f] + 1 /\ e.highPriority = high
  BY SMTT(30), <1>0, <1>1, <1>2, BackgroundAssumption DEF Eval, TypeOK
<1>4. evalRx' \in Seq(Eval) /\ Elems(evalRx') = Elems(evalRx) \cup {e}
  BY <1>2, <1>3, ElemsAppend DEF TypeOK
<1>5. /\ Waiting' = Waiting \cup {e} /\ Stacked' = Stacked /\ Current' = Current
      /\ Answered' = Answered /\ Live' = Live \cup {e} /\ OnTheWay' = OnTheWay \cup {e}
  BY <1>2, <1>4 DEF Waiting, Stacked, Current, Answered, Live, OnTheWay
<1>6. \A x \in OnTheWay : x.eval = f => x.version < e.version
  BY SMTT(30), <1>3, Typed DEF UpToRequest
<1>7. TypeOK'
  BY SMTT(30), <1>2, <1>3, <1>4, BackgroundAssumption DEF TypeOK, Shown
<1>8. StacksUnique' /\ Sorted'
  BY <1>2, <1>3, <1>5 DEF StacksUnique, Sorted
<1>9. InOrder'
  <2>1. Before(Elems(evalRx), {e})
    BY <1>3, <1>6 DEF Before, OnTheWay, Live, Waiting
  <2>2. Ordered(evalRx') /\ Ordered(responses')
    BY <1>2, <1>3, <2>1, AppendOrdered DEF InOrder, Alone, TypeOK
  <2>3. Before(Answered', Live') /\ Before(Current', Waiting') /\ Alone' /\ Before(Stacked', Waiting')
    BY SMTT(30), <1>3, <1>5, <1>6 DEF InOrder, Alone, Before, OnTheWay, Live
  <2> QED
    BY <2>2, <2>3 DEF InOrder, Alone
<1>10. UpToRequest'
  <2>1. \A g \in Files : requested[g] <= requested'[g]
    BY SMTT(30), <1>2, Typed DEF TypeOK
  <2>2. \A g \in Files : requested'[g] \in Nat /\ requested[g] \in Nat /\ lost[g] \in Nat
    BY SMTT(30), <1>7, <1>2, BackgroundAssumption DEF TypeOK
  <2>3. \A g \in Files : lost'[g] <= requested'[g]
    BY SMTT(30), <2>1, <2>2, <1>2 DEF UpToRequest
  <2>4. \A x \in OnTheWay : x.version <= requested'[x.eval]
    BY SMTT(30), <2>1, <2>2, Typed DEF UpToRequest
  <2>5. e.version <= requested'[e.eval]
    BY SMTT(30), <1>2, <1>3, <2>2
  <2> QED
    BY <2>3, <2>4, <2>5, <1>5 DEF UpToRequest
<1>11. Past'
  <2>1. \A x \in Live' : OnePriority(x.eval) => lost'[x.eval] < x.version
    BY SMTT(30), <1>2, <1>3, <1>5, Typed DEF Past, UpToRequest
  <2>2. \A x \in OnTheWay' : OnePriority(x.eval) /\ published'[x.eval].evaluated =>
           published'[x.eval].version < x.version
    BY <1>2, <1>3, <1>5, Typed DEF Past, TypeOK
  <2> QED
    BY <2>1, <2>2 DEF Past
<1>12. BannedApart'
  BY <1>2, <1>5 DEF BannedApart
<1>13. LatestKept'
  <2> SUFFICES ASSUME NEW g \in Files, OnePriority(g)
               PROVE  Settled(g)' \/ \E x \in OnTheWay' : x.eval = g /\ x.version = requested'[g]
    BY DEF LatestKept
  <2>1. CASE g = f
    BY <2>1, <1>2, <1>3, <1>5
  <2>2. CASE g # f
    <3>1. requested'[g] = requested[g] /\ published'[g] = published[g] /\ lost' = lost
      BY <2>2, <1>2 DEF TypeOK
    <3> QED
      BY SMTT(30), <3>1, <1>5 DEF LatestKept, Settled
  <2> QED
    BY <2>1, <2>2
<1> QED
  BY <1>7, <1>8, <1>9, <1>10, <1>11, <1>12, <1>13

\* The oldest result is shown; all that is left is newer.
LEMMA PublishStep ==
    ASSUME IInv, PublishBackgroundDiagnostics
    PROVE  IInv'
<1> USE DEF IInv
<1>1. PICK e : e = Head(responses)
  OBVIOUS
<1>2. /\ responses # <<>> /\ responses' = Tail(responses)
      /\ published' = [published EXCEPT ![e.eval] = [version |-> e.version, evaluated |-> TRUE]]
      /\ UNCHANGED <<requested, evalRx, evalStack, priorityEvalStack, bannedFiles, pc, running, lost>>
  BY <1>1 DEF PublishBackgroundDiagnostics, queueVars
<1>3. e \in Eval /\ responses' \in Seq(Eval) /\ Elems(responses) = {e} \cup Elems(responses')
  BY <1>1, <1>2, ElemsTail DEF TypeOK
<1>4. Ordered(responses') /\ Before({e}, Elems(responses'))
  BY <1>1, <1>2, TailOrdered DEF TypeOK, InOrder, Alone
<1>5. /\ Waiting' = Waiting /\ Stacked' = Stacked /\ Current' = Current /\ Live' = Live
      /\ Answered = {e} \cup Answered' /\ OnTheWay = {e} \cup OnTheWay' /\ Answered' = Elems(responses')
  BY <1>2, <1>3 DEF Waiting, Stacked, Current, Answered, Live, OnTheWay
<1>6. \A x \in OnTheWay' : x.eval = e.eval /\ OnePriority(e.eval) => e.version < x.version
  BY <1>4, <1>5 DEF InOrder, Alone, Before, OnTheWay
<1>7. TypeOK'
  <2>1. e.eval \in Files /\ [version |-> e.version, evaluated |-> TRUE] \in Shown
    BY SMTT(30), <1>3, BackgroundAssumption DEF Shown, Eval
  <2>2. published' \in [Files -> Shown]
    BY <1>2, <2>1 DEF TypeOK
  <2> QED
    BY <1>2, <1>3, <2>2 DEF TypeOK
<1>8. StacksUnique' /\ Sorted'
  BY <1>2, <1>5 DEF StacksUnique, Sorted
<1>9. InOrder'
  BY <1>2, <1>4, <1>5 DEF InOrder, Alone, Before
<1>10. UpToRequest' /\ BannedApart'
  BY <1>2, <1>5 DEF UpToRequest, BannedApart
<1>11. Past'
  <2>1. \A x \in Live' : OnePriority(x.eval) => lost'[x.eval] < x.version
    BY <1>2, <1>5 DEF Past
  <2>2. \A x \in OnTheWay' : OnePriority(x.eval) /\ published'[x.eval].evaluated =>
           published'[x.eval].version < x.version
    BY <1>2, <1>3, <1>5, <1>6, Typed DEF Past, TypeOK
  <2> QED
    BY <2>1, <2>2 DEF Past
<1>12. LatestKept'
  <2> SUFFICES ASSUME NEW g \in Files, OnePriority(g)
               PROVE  Settled(g)' \/ \E x \in OnTheWay' : x.eval = g /\ x.version = requested'[g]
    BY DEF LatestKept
  <2>1. CASE g # e.eval
    <3>1. requested'[g] = requested[g] /\ published'[g] = published[g] /\ lost' = lost
      BY <2>1, <1>2 DEF TypeOK
    <3> QED
      BY <2>1, <3>1, <1>5 DEF LatestKept, Settled
  <2>2. CASE g = e.eval
    <3>1. requested' = requested /\ published'[g] = [version |-> e.version, evaluated |-> TRUE] /\ lost' = lost
      BY <2>2, <1>2 DEF TypeOK
    <3>2. CASE lost[g] = requested[g]
      BY <3>1, <3>2 DEF Settled
    <3>3. CASE \E x \in OnTheWay : x.eval = g /\ x.version = requested[g]
      BY <3>1, <3>3, <1>5 DEF Settled
    <3>4. CASE published[g] = [version |-> requested[g], evaluated |-> TRUE]
      <4>1. e \in OnTheWay /\ published[g].evaluated /\ published[g].version = requested[g]
        BY SMTT(30), <3>4, <1>5
      <4> QED
        BY SMTT(30), <4>1, <2>2, Typed DEF Past, UpToRequest
    <3> QED
      BY <3>2, <3>3, <3>4 DEF LatestKept, Settled
  <2> QED
    BY <2>1, <2>2
<1> QED
  BY <1>7, <1>8, <1>9, <1>10, <1>11, <1>12

\* handle_eval takes the oldest request: refused, it is lost; accepted, it
\* replaces a pending evaluation of its file, which is older.
LEMMA HandleStep ==
    ASSUME IInv, evalRx # <<>>, HandleEval(Head(evalRx)), evalRx' = Tail(evalRx),
           pc # "eval", pc' = "drain",
           UNCHANGED <<requested, bannedFiles, running, responses, published>>
    PROVE  IInv'
<1> USE DEF IInv
<1>1. PICK e : e = Head(evalRx)
  OBVIOUS
<1>0. Current = {}
  BY DEF Current, TypeOK
<1>2. e \in Eval /\ evalRx' \in Seq(Eval) /\ Elems(evalRx) = {e} \cup Elems(evalRx')
  BY <1>1, ElemsTail DEF TypeOK
<1>3. Ordered(evalRx') /\ Before({e}, Elems(evalRx'))
  BY <1>1, TailOrdered DEF TypeOK, InOrder, Alone
<1>4. /\ Waiting = {e} \cup Waiting' /\ Waiting' = Elems(evalRx')
      /\ Current' = Current /\ Answered' = Answered
  BY <1>2 DEF Waiting, Current, Answered
<1>5. e \in OnTheWay /\ e \in Live /\ e.eval \in Files
  BY <1>2, <1>4, Typed DEF OnTheWay, Live
<1>6. CASE e.eval \in bannedFiles
  <2>1. lost' = [lost EXCEPT ![e.eval] = e.version] /\ UNCHANGED <<evalStack, priorityEvalStack>>
    BY <1>1, <1>6 DEF HandleEval, queueVars
  <2>2. /\ Stacked' = Stacked /\ Live = {e} \cup Live' /\ OnTheWay = {e} \cup OnTheWay'
    BY <1>4, <2>1 DEF Stacked, Live, OnTheWay
  <2>3. TypeOK'
    BY SMTT(30), <1>2, <1>5, <2>1, Typed DEF TypeOK
  <2>4. StacksUnique' /\ Sorted'
    BY <2>1, <2>2 DEF StacksUnique, Sorted
  <2>5. InOrder'
    BY <1>3, <1>4, <2>2 DEF InOrder, Alone, Before
  <2>6. UpToRequest' /\ BannedApart'
    BY <1>4, <1>5, <2>1, <2>2 DEF UpToRequest, BannedApart, TypeOK
  <2>7. Past'
    <3>1. \A x \in Live' : x.eval = e.eval /\ OnePriority(e.eval) => e.version < x.version
      BY <1>3, <1>4, <1>6, <2>2 DEF Live, Before, BannedApart
    <3> QED
      BY SMTT(30), <3>1, <2>1, <2>2, <1>5 DEF Past, TypeOK
  <2>8. LatestKept'
    <3> SUFFICES ASSUME NEW g \in Files, OnePriority(g)
                 PROVE  Settled(g)' \/ \E x \in OnTheWay' : x.eval = g /\ x.version = requested'[g]
      BY DEF LatestKept
    <3>1. CASE g # e.eval
      <4>1. lost'[g] = lost[g]
        BY <3>1, <2>1 DEF TypeOK
      <4> QED
        BY <3>1, <4>1, <2>2 DEF LatestKept, Settled
    <3>2. CASE g = e.eval
      <4>1. lost'[g] = e.version
        BY <3>2, <2>1 DEF TypeOK
      <4>2. CASE \E x \in OnTheWay : x.eval = g /\ x.version = requested[g]
        BY <4>1, <4>2, <2>2 DEF Settled
      <4>3. CASE published[g] = [version |-> requested[g], evaluated |-> TRUE]
        BY <4>3 DEF Settled
      <4>4. CASE lost[g] = requested[g]
        BY SMTT(30), <4>4, <3>2, <1>5, Typed DEF Past, UpToRequest
      <4> QED
        BY <4>2, <4>3, <4>4 DEF LatestKept, Settled
    <3> QED
      BY <3>1, <3>2
  <2> QED
    BY <2>3, <2>4, <2>5, <2>6, <2>7, <2>8
<1>7. CASE e.eval \notin bannedFiles
  <2>1. /\ lost' = lost
        /\ \/ /\ e.highPriority
              /\ priorityEvalStack' = Append(Without(priorityEvalStack, e.eval), e)
              /\ evalStack' = evalStack
           \/ /\ ~e.highPriority
              /\ evalStack' = Append(Without(evalStack, e.eval), e)
              /\ priorityEvalStack' = priorityEvalStack
    BY <1>1, <1>7 DEF HandleEval, queueVars
  <2>2. /\ evalStack' \in Seq(Eval) /\ priorityEvalStack' \in Seq(Eval) /\ StacksUnique'
        /\ \A x \in Elems(evalStack)' : x \in Elems(evalStack) \/ (x = e /\ ~e.highPriority)
        /\ \A x \in Elems(priorityEvalStack)' : x \in Elems(priorityEvalStack) \/ (x = e /\ e.highPriority)
        /\ e \in Stacked' /\ Stacked' \subseteq Stacked \cup {e}
        /\ \A x \in Stacked : x \in Stacked' \/ x.eval = e.eval
    <3>0. evalStack \in Seq(Eval) /\ priorityEvalStack \in Seq(Eval)
      BY DEF TypeOK
    <3>1. CASE e.highPriority
      <4>1. /\ priorityEvalStack' \in Seq(Eval) /\ Unique(priorityEvalStack')
            /\ Elems(priorityEvalStack') = {x \in Elems(priorityEvalStack) : x.eval # e.eval} \cup {e}
            /\ evalStack' = evalStack
        <5>1. PICK u : u = Append(Without(priorityEvalStack, e.eval), e)
          OBVIOUS
        <5>2. Unique(priorityEvalStack)
          BY DEF StacksUnique
        <5>3. /\ u \in Seq(Eval) /\ Unique(u)
              /\ Elems(u) = {x \in Elems(priorityEvalStack) : x.eval # e.eval} \cup {e}
          BY <3>0, <5>1, <5>2, <1>2, Pushed
        <5> QED
          BY <3>1, <2>1, <5>1, <5>3
      <4> QED
        BY <3>0, <3>1, <4>1 DEF StacksUnique, Stacked
    <3>2. CASE ~e.highPriority
      <4>1. /\ evalStack' \in Seq(Eval) /\ Unique(evalStack')
            /\ Elems(evalStack') = {x \in Elems(evalStack) : x.eval # e.eval} \cup {e}
            /\ priorityEvalStack' = priorityEvalStack
        <5>1. PICK u : u = Append(Without(evalStack, e.eval), e)
          OBVIOUS
        <5>2. Unique(evalStack)
          BY DEF StacksUnique
        <5>3. /\ u \in Seq(Eval) /\ Unique(u)
              /\ Elems(u) = {x \in Elems(evalStack) : x.eval # e.eval} \cup {e}
          BY <3>0, <5>1, <5>2, <1>2, Pushed
        <5> QED
          BY <3>2, <2>1, <5>1, <5>3
      <4> QED
        BY <3>0, <3>2, <4>1 DEF StacksUnique, Stacked
    <3> QED
      BY <3>1, <3>2
  <2>3. /\ Live' \subseteq Live /\ OnTheWay' \subseteq OnTheWay /\ e \in OnTheWay'
        /\ \A x \in OnTheWay : x \in OnTheWay' \/ (x \in Stacked /\ x.eval = e.eval)
    BY <1>4, <2>2 DEF Live, OnTheWay
  <2>4. TypeOK'
    BY <1>2, <2>1, <2>2 DEF TypeOK
  <2>5. Sorted'
    BY <2>2, <2>3 DEF Sorted
  <2>7. InOrder'
    <3>1. Before(Answered', Live')
      BY <1>4, <2>3 DEF InOrder, Alone, Before
    <3>2. Before(Current', Waiting') /\ Alone'
      BY <1>0, <1>4 DEF Before, Alone
    <3>3. Before(Stacked', Waiting')
      BY <1>3, <1>4, <2>2 DEF InOrder, Alone, Before
    <3> QED
      BY <1>3, <3>1, <3>2, <3>3 DEF InOrder, Alone
  <2>8. UpToRequest' /\ Past'
    BY <2>1, <2>3 DEF UpToRequest, Past
  <2>9. BannedApart'
    BY <1>4, <1>7, <2>2 DEF BannedApart
  <2>10. LatestKept'
    <3> SUFFICES ASSUME NEW g \in Files, OnePriority(g),
                        NEW x \in OnTheWay, x.eval = g, x.version = requested[g]
                 PROVE  \E y \in OnTheWay' : y.eval = g /\ y.version = requested'[g]
      BY <2>1 DEF LatestKept, Settled
    <3>1. CASE x \in OnTheWay'
      BY <3>1
    <3>2. CASE x \in Stacked /\ x.eval = e.eval
      <4>1. x.version < e.version /\ e.version <= requested[g]
        BY <3>2, <1>4, <1>5 DEF InOrder, Alone, Before, UpToRequest
      <4> QED
        BY SMTT(30), <4>1, <1>2, Typed
    <3> QED
      BY <3>1, <3>2, <2>3
  <2> QED
    BY <2>2, <2>4, <2>5, <2>7, <2>8, <2>9, <2>10
<1> QED
  BY <1>6, <1>7

\* The evaluation on top of a stack is started.  With one priority, the file
\* has no other one pending.
LEMMA StartStep ==
    ASSUME IInv, StartEval
    PROVE  IInv' /\ \A e \in Current' : OnePriority(e.eval) => e.eval \notin bannedFiles
<1> USE DEF IInv
<1>1. /\ pc = "pick" /\ running = None /\ Current = {}
      /\ UNCHANGED <<requested, evalRx, bannedFiles, responses, published, lost>>
  BY DEF StartEval, TypeOK, Current
<1>2. Waiting' = Waiting /\ Answered' = Answered
  BY <1>1 DEF Waiting, Answered
<1>3. CASE NothingPending
  <2>1. pc' = "loop" /\ UNCHANGED <<running, evalStack, priorityEvalStack>>
    BY <1>3 DEF StartEval, NothingPending, queueVars
  <2>2. Stacked' = Stacked /\ Current' = Current /\ Live' = Live /\ OnTheWay' = OnTheWay
    BY <1>2, <2>1 DEF Stacked, Current, Live, OnTheWay
  <2> QED
    BY <1>1, <1>2, <2>1, <2>2
    DEF TypeOK, StacksUnique, Sorted, InOrder, Alone, UpToRequest, Past, BannedApart, LatestKept, Settled
<1>4. CASE ~NothingPending
  <2>1. PICK e : e = IF priorityEvalStack # <<>> THEN Top(priorityEvalStack) ELSE Top(evalStack)
    OBVIOUS
  <2>2. /\ e \in Eval /\ running' = e /\ pc' = "eval" /\ StacksUnique'
        /\ evalStack' \in Seq(Eval) /\ priorityEvalStack' \in Seq(Eval)
        /\ Stacked = {e} \cup Stacked'
        /\ Elems(evalStack') \subseteq Elems(evalStack)
        /\ Elems(priorityEvalStack') \subseteq Elems(priorityEvalStack)
        /\ \/ e.highPriority /\ \A x \in Elems(priorityEvalStack') : x.eval # e.eval
           \/ ~e.highPriority /\ \A x \in Elems(evalStack') : x.eval # e.eval
    <3>0. evalStack \in Seq(Eval) /\ priorityEvalStack \in Seq(Eval)
      BY DEF TypeOK
    <3>1. CASE priorityEvalStack # <<>>
      <4>1. /\ e = Top(priorityEvalStack) /\ running' = e /\ pc' = "eval"
            /\ priorityEvalStack' = Pop(priorityEvalStack) /\ evalStack' = evalStack
        BY <3>1, <2>1 DEF StartEval
      <4>2. /\ e \in Eval /\ priorityEvalStack' \in Seq(Eval) /\ Unique(priorityEvalStack')
            /\ Elems(priorityEvalStack) = {e} \cup Elems(priorityEvalStack')
            /\ \A x \in Elems(priorityEvalStack') : x.eval # e.eval
        BY <3>0, <3>1, <4>1, PopElems DEF StacksUnique
      <4> QED
        BY <3>0, <4>1, <4>2 DEF StacksUnique, Stacked, Sorted
    <3>2. CASE priorityEvalStack = <<>>
      <4>1. /\ e = Top(evalStack) /\ running' = e /\ pc' = "eval" /\ evalStack # <<>>
            /\ evalStack' = Pop(evalStack) /\ priorityEvalStack' = priorityEvalStack
        BY <3>2, <2>1, <1>4 DEF StartEval, NothingPending
      <4>2. /\ e \in Eval /\ evalStack' \in Seq(Eval) /\ Unique(evalStack')
            /\ Elems(evalStack) = {e} \cup Elems(evalStack')
            /\ \A x \in Elems(evalStack') : x.eval # e.eval
        BY <3>0, <4>1, PopElems DEF StacksUnique
      <4> QED
        BY <3>0, <4>1, <4>2 DEF StacksUnique, Stacked, Sorted
    <3> QED
      BY <3>1, <3>2
  <2>3. /\ Current' = {e} /\ Live' = Live /\ OnTheWay' = OnTheWay
        /\ Stacked' \subseteq Stacked /\ e \in Stacked /\ e \in OnTheWay
    BY <1>1, <1>2, <2>2, BackgroundAssumption DEF Current, Live, OnTheWay, Eval
  <2>4. TypeOK'
    BY <1>1, <2>2, BackgroundAssumption DEF TypeOK, Eval
  <2>5. Sorted'
    BY <2>2, <2>3 DEF Sorted
  <2>6. Alone'
    <3> SUFFICES ASSUME NEW x \in Stacked', x.eval = e.eval, OnePriority(e.eval) PROVE FALSE
      BY <2>3 DEF Alone
    <3>1. /\ x.highPriority \in PrioritiesOf[x.eval] /\ e.highPriority \in PrioritiesOf[e.eval]
          /\ x \in Elems(evalStack') \/ x \in Elems(priorityEvalStack')
      BY <2>3 DEF Sorted, OnTheWay, Live, Stacked
    <3>2. x.highPriority = e.highPriority
      BY <3>1 DEF OnePriority
    <3> QED
      BY <3>1, <3>2, <2>2, <2>5 DEF Sorted
  <2>7. InOrder'
    <3>1. Before(Answered', Live') /\ Before(Stacked', Waiting') /\ Before({e}, Waiting')
      BY <1>2, <2>3 DEF InOrder, Alone, Before
    <3> QED
      BY <1>1, <2>3, <2>6, <3>1 DEF InOrder, Alone, Before
  <2>8. UpToRequest' /\ Past' /\ LatestKept'
    BY <1>1, <2>3 DEF UpToRequest, Past, LatestKept, Settled
  <2>9. BannedApart'
    BY <1>1, <2>3 DEF BannedApart
  <2> QED
    BY <1>1, <2>2, <2>3, <2>4, <2>5, <2>7, <2>8, <2>9 DEF BannedApart
<1> QED
  BY <1>3, <1>4

\* A result is older than all that is pending, newer than the results before it.
LEMMA DoneStep ==
    ASSUME IInv, EvalDone
    PROVE  IInv'
<1> USE DEF IInv
<1>1. PICK e : e = running
  OBVIOUS
<1>2. /\ pc' = "loop" /\ running' = None /\ responses' = Append(responses, e)
      /\ UNCHANGED <<requested, evalRx, evalStack, priorityEvalStack, bannedFiles, published, lost>>
  BY <1>1 DEF EvalDone, queueVars
<1>3. e \in Eval /\ Current = {e} /\ Current' = {}
  BY <1>1, <1>2 DEF EvalDone, TypeOK, Current
<1>4. responses' \in Seq(Eval) /\ Elems(responses') = Elems(responses) \cup {e}
  BY <1>2, <1>3, ElemsAppend DEF TypeOK
<1>5. /\ Waiting' = Waiting /\ Stacked' = Stacked /\ Answered' = Answered \cup {e}
      /\ Live = {e} \cup Live' /\ OnTheWay' = OnTheWay /\ Live' = Stacked \cup Waiting
  BY <1>2, <1>3, <1>4 DEF Waiting, Stacked, Answered, Live, OnTheWay
<1>6. TypeOK'
  BY <1>2, <1>4 DEF TypeOK
<1>7. StacksUnique' /\ Sorted' /\ UpToRequest' /\ Past' /\ LatestKept'
  BY <1>2, <1>5 DEF StacksUnique, Sorted, UpToRequest, Past, LatestKept, Settled
<1>8. BannedApart'
  BY <1>2, <1>3, <1>5 DEF BannedApart
<1>9. InOrder'
  <2>1. Before(Elems(responses), {e})
    BY <1>5 DEF InOrder, Alone, Before, Answered
  <2>2. Ordered(responses') /\ Ordered(evalRx')
    BY <1>2, <1>3, <2>1, AppendOrdered DEF InOrder, Alone, TypeOK
  <2>3. Before(Answered', Live') /\ Before(Current', Waiting') /\ Alone' /\ Before(Stacked', Waiting')
    BY <1>3, <1>5 DEF InOrder, Alone, Before
  <2> QED
    BY <2>2, <2>3 DEF InOrder, Alone
<1> QED
  BY <1>6, <1>7, <1>8, <1>9

\* A failed evaluation is lost and its file blacklisted, with nothing pending.
LEMMA FailStep ==
    ASSUME IInv, EvalFailed
    PROVE  IInv'
<1> USE DEF IInv
<1>1. PICK e : e = running
  OBVIOUS
<1>2. /\ pc' = "loop" /\ running' = None /\ bannedFiles' = bannedFiles \cup {e.eval}
      /\ lost' = [lost EXCEPT ![e.eval] = e.version]
      /\ UNCHANGED <<requested, evalRx, evalStack, priorityEvalStack, responses, published>>
  BY <1>1 DEF EvalFailed, queueVars
<1>3. e \in Eval /\ Current = {e} /\ Current' = {}
  BY <1>1, <1>2 DEF EvalFailed, TypeOK, Current
<1>4. /\ Waiting' = Waiting /\ Stacked' = Stacked /\ Answered' = Answered
      /\ Live = {e} \cup Live' /\ OnTheWay = {e} \cup OnTheWay' /\ Live' = Stacked \cup Waiting
  BY <1>2, <1>3 DEF Waiting, Stacked, Answered, Live, OnTheWay
<1>5. e.eval \in Files /\ e.version \in 0..MaxVersion
  BY SMTT(30), <1>3, BackgroundAssumption DEF Eval
<1>6. TypeOK'
  BY <1>2, <1>5 DEF TypeOK
<1>7. StacksUnique' /\ Sorted'
  BY <1>2, <1>4 DEF StacksUnique, Sorted
<1>8. UpToRequest'
  BY <1>2, <1>4, <1>5 DEF UpToRequest, TypeOK
<1>9. InOrder'
  BY <1>2, <1>3, <1>4 DEF InOrder, Alone, Before
<1>10. Past'
  <2>1. \A x \in Live' : x.eval = e.eval /\ OnePriority(e.eval) => e.version < x.version
    BY <1>3, <1>4 DEF InOrder, Alone, Before
  <2> QED
    BY SMTT(30), <1>2, <1>4, <1>5, <2>1 DEF Past, TypeOK
<1>11. BannedApart'
  <2>1. \A x \in Stacked : OnePriority(e.eval) => x.eval # e.eval
    BY <1>3 DEF InOrder, Alone
  <2> QED
    BY <1>2, <1>3, <1>4, <2>1 DEF BannedApart
<1>12. LatestKept'
  <2> SUFFICES ASSUME NEW g \in Files, OnePriority(g)
               PROVE  Settled(g)' \/ \E x \in OnTheWay' : x.eval = g /\ x.version = requested'[g]
    BY DEF LatestKept
  <2>1. CASE g # e.eval
    <3>1. lost'[g] = lost[g]
      BY <2>1, <1>2 DEF TypeOK
    <3> QED
      BY <2>1, <3>1, <1>2, <1>4 DEF LatestKept, Settled
  <2>2. CASE g = e.eval
    <3>1. lost'[g] = e.version
      BY <2>2, <1>2, <1>5 DEF TypeOK
    <3>2. CASE \E x \in OnTheWay : x.eval = g /\ x.version = requested[g]
      BY <3>1, <3>2, <1>2, <1>4 DEF Settled
    <3>3. CASE published[g] = [version |-> requested[g], evaluated |-> TRUE]
      BY <3>3, <1>2 DEF Settled
    <3>4. CASE lost[g] = requested[g]
      BY SMTT(30), <3>4, <2>2, <1>4, Typed DEF Past, UpToRequest
    <3> QED
      BY <3>2, <3>3, <3>4 DEF LatestKept, Settled
  <2> QED
    BY <2>1, <2>2
<1> QED
  BY <1>6, <1>7, <1>8, <1>9, <1>10, <1>11, <1>12

LEMMA ExpireStep ==
    ASSUME IInv, NEW f \in Files, BanExpires(f)
    PROVE  IInv'
<1>1. /\ bannedFiles' \subseteq bannedFiles
      /\ UNCHANGED <<requested, evalRx, evalStack, priorityEvalStack, pc, running, responses, published, lost>>
  BY DEF BanExpires, queueVars
<1>2. Waiting' = Waiting /\ Stacked' = Stacked /\ Current' = Current /\ Answered' = Answered
      /\ Live' = Live /\ OnTheWay' = OnTheWay
  BY <1>1 DEF Waiting, Stacked, Current, Answered, Live, OnTheWay
<1>3. TypeOK' /\ BannedApart'
  BY <1>1, <1>2 DEF IInv, TypeOK, BannedApart
<1> QED
  BY <1>1, <1>2, <1>3 DEF IInv, StacksUnique, Sorted, InOrder, Alone, UpToRequest, Past, LatestKept, Settled

LEMMA StutterStep == ASSUME IInv, UNCHANGED vars PROVE IInv'
<1>1. UNCHANGED <<requested, evalRx, evalStack, priorityEvalStack, bannedFiles, pc, running, responses,
                  published, lost>>
  BY DEF vars, queueVars
<1>2. Waiting' = Waiting /\ Stacked' = Stacked /\ Current' = Current /\ Answered' = Answered
      /\ Live' = Live /\ OnTheWay' = OnTheWay
  BY <1>1 DEF Waiting, Stacked, Current, Answered, Live, OnTheWay
<1> QED
  BY <1>1, <1>2 DEF IInv, TypeOK, BannedApart, StacksUnique, Sorted, InOrder, Alone, UpToRequest, Past,
                    LatestKept, Settled

\* A turn of the loop without a request, and the end of drain_queue, move pc only.
LEMMA LoopStep ==
    ASSUME IInv, pc # "eval", pc' \in {"drain", "pick"},
           UNCHANGED <<requested, evalRx, evalStack, priorityEvalStack, bannedFiles, running, responses,
                       published, lost>>
    PROVE  IInv'
<1>1. Waiting' = Waiting /\ Stacked' = Stacked /\ Current' = Current /\ Answered' = Answered
      /\ Live' = Live /\ OnTheWay' = OnTheWay
  BY DEF Waiting, Stacked, Current, Answered, Live, OnTheWay
<1>2. TypeOK'
  BY DEF IInv, TypeOK
<1> QED
  BY <1>1, <1>2 DEF IInv, BannedApart, StacksUnique, Sorted, InOrder, Alone, UpToRequest, Past,
                    LatestKept, Settled

LEMMA SupervisorStep == ASSUME IInv, Supervisor PROVE IInv'
<1>1. CASE Receive
  <2>1. CASE NothingPending
    BY <1>1, <2>1, HandleStep DEF Receive
  <2>2. CASE ~NothingPending
    BY <1>1, <2>2, LoopStep DEF Receive, queueVars
  <2> QED
    BY <2>1, <2>2
<1>2. CASE DrainQueue
  BY <1>2, HandleStep DEF DrainQueue
<1>3. CASE DrainEnds
  BY <1>3, LoopStep DEF DrainEnds, queueVars
<1> QED
  BY <1>1, <1>2, <1>3, StartStep, DoneStep, FailStep DEF Supervisor

LEMMA NextHolds == IInv /\ [Next]_vars => IInv'
<1> SUFFICES ASSUME IInv, [Next]_vars PROVE IInv'
  OBVIOUS
<1>1. CASE \E f \in Files : \E high \in PrioritiesOf[f] : RunDiagnosticsOnFile(f, high)
  BY <1>1, RequestStep
<1>2. CASE \E f \in Files : BanExpires(f)
  BY <1>2, ExpireStep
<1>3. CASE UNCHANGED vars
  BY <1>3, StutterStep
<1> QED
  BY <1>1, <1>2, <1>3, PublishStep, SupervisorStep DEF Next

----------------------------------------------------------------------------
\* The results of a file with one priority come in the order of the texts
\* they are about (run, handle_eval).
THEOREM ResultsInOrder == Spec => [](TypeOK /\ NewestWins)
<1>1. IInv => NewestWins
  <2> SUFFICES ASSUME IInv PROVE NewestWins
    OBVIOUS
  <2>1. CASE running = None
    BY <2>1 DEF IInv, InOrder, Ordered, NewestWins
  <2>2. CASE running # None
    <3>1. running \in Eval /\ running \in Live /\ responses \in Seq(Eval) /\ Ordered(responses)
      BY <2>2 DEF IInv, TypeOK, Live, Current, InOrder
    <3>2. Before(Elems(responses), {running})
      BY <3>1 DEF IInv, InOrder, Before, Answered
    <3>3. Ordered(Append(responses, running))
      BY <3>1, <3>2, AppendOrdered
    <3> QED
      BY <2>2, <3>3 DEF NewestWins, Ordered
  <2> QED
    BY <2>1, <2>2
<1> QED
  BY <1>1, InitHolds, NextHolds, PTL DEF Spec, IInv

\* Once all is worked off, the client sees the evaluation of the latest text of
\* a file with one priority unless it was refused or failed: the latest
\* request is never lost between the channels, the stacks and the worker
\* (LatestKept), whatever was edited, banned or replaced meanwhile (run,
\* handle_eval).
THEOREM ResultsStayCurrent == Spec => []ResultsCurrent
<1>1. IInv => ResultsCurrent
  <2> SUFFICES ASSUME IInv, evalRx = <<>>, NothingPending, running = None, responses = <<>>,
                      NEW f \in Files, OnePriority(f)
               PROVE  Settled(f)
    BY DEF ResultsCurrent
  <2>1. Elems(<<>>) = {}
    BY SMTT(30) DEF Elems
  <2>2. OnTheWay = {}
    BY <2>1 DEF OnTheWay, Live, Waiting, Stacked, Current, Answered, NothingPending
  <2> QED
    BY <2>2 DEF IInv, LatestKept
<1> QED
  BY <1>1, InitHolds, NextHolds, PTL DEF Spec

\* A stack never holds two evaluations of a file (handle_eval).
THEOREM StacksBounded == Spec => []StacksUnique
<1>1. IInv => StacksUnique
  BY DEF IInv
<1> QED
  BY <1>1, InitHolds, NextHolds, PTL DEF Spec

\* No worker is started for a file in its blacklist_duration, unless another
\* priority left it in the other stack (handle_eval, run).
BannedNotEvaluated ==
    [][\A e \in Current' \ Current : OnePriority(e.eval) => e.eval \notin bannedFiles]_vars

\* StartEval is the only step that starts a worker, and by the invariant on the
\* blacklist it finds no banned file in the stacks of files of one priority
\* (handle_eval drops them, run removes them when a worker fails).
THEOREM BannedStayOut == Spec => BannedNotEvaluated
<1>1. IInv /\ [Next]_vars =>
        [\A e \in Current' \ Current : OnePriority(e.eval) => e.eval \notin bannedFiles]_vars
  <2> SUFFICES ASSUME IInv, Next, Current' # {}, Current' # Current
               PROVE  \A e \in Current' : OnePriority(e.eval) => e.eval \notin bannedFiles
    <3> SUFFICES ASSUME IInv, [Next]_vars PROVE [\A e \in Current' \ Current : OnePriority(e.eval) => e.eval \notin bannedFiles]_vars
      OBVIOUS
    <3> QED
      BY DEF vars
  <2>1. StartEval
    BY DEF Next, Supervisor, RunDiagnosticsOnFile, PublishBackgroundDiagnostics, BanExpires, Receive,
           DrainQueue, DrainEnds, EvalDone, EvalFailed, Current
  <2> QED
    BY <2>1, StartStep
<1> QED
  BY <1>1, InitHolds, NextHolds, PTL DEF Spec, BannedNotEvaluated

=============================================================================
