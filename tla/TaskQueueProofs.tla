--------------------------- MODULE TaskQueueProofs ---------------------------
(***************************************************************************)
(* Proofs about the task queue, for any set of files and ids and any       *)
(* number of messages.                                                     *)
(***************************************************************************)
EXTENDS TaskQueue, TLAPS

(***************************************************************************)
(* The safety invariants of TaskQueue support each other, and need one     *)
(* more fact: a withdrawn request is still queued or already refused.  The *)
(* id of a synchronisation is none of the client's.                        *)
(***************************************************************************)
WithdrawnAccounted == withdrawn \subseteq QueuedIds \cup refused

IInv ==
    /\ NoIdDistinct
    /\ TypeOK
    /\ ArrivalOrder
    /\ DisposedOnce
    /\ CancelHolds
    /\ WithdrawnAccounted

(***************************************************************************)
(* What the front of a well-formed queue looks like, and what is left of   *)
(* the queue when it is popped (VecDeque::pop_front).                      *)
(***************************************************************************)
LEMMA PopFacts ==
    ASSUME TypeOK, requestOrSync # <<>>
    PROVE  /\ Front = requestOrSync[1]
           /\ Front \in ReqOrSync
           /\ Len(requestOrSync) \in Nat \ {0}
           /\ Tail(requestOrSync) \in Seq(ReqOrSync)
           /\ Len(Tail(requestOrSync)) = Len(requestOrSync) - 1
           /\ DOMAIN requestOrSync = 1..Len(requestOrSync)
           /\ DOMAIN Tail(requestOrSync) = 1..(Len(requestOrSync) - 1)
           /\ \A i \in 1..(Len(requestOrSync) - 1) :
                /\ i + 1 \in DOMAIN requestOrSync
                /\ Tail(requestOrSync)[i] = requestOrSync[i + 1]
  <1> DEFINE q == requestOrSync
  <1>1. q \in Seq(ReqOrSync) /\ q # <<>>
    BY DEF TypeOK
  <1>2. /\ Len(q) \in Nat \ {0}
        /\ DOMAIN q = 1..Len(q)
        /\ Head(q) = q[1]
        /\ q[1] \in ReqOrSync
    BY <1>1
  <1>3. /\ Tail(q) \in Seq(ReqOrSync)
        /\ Len(Tail(q)) = Len(q) - 1
    BY <1>1
  <1>4. DOMAIN Tail(q) = 1..(Len(q) - 1)
    BY <1>3
  <1>5. \A i \in 1..(Len(q) - 1) : i + 1 \in DOMAIN q /\ Tail(q)[i] = q[i + 1]
    BY <1>1, <1>2
  <1> QED
    BY <1>2, <1>3, <1>4, <1>5 DEF Front

\* The queue that TaskQueue::new makes, empty, satisfies the inductive invariant.
THEOREM InitIInv == NoIdDistinct /\ Init => IInv
  BY DEF Init, IInv, TypeOK, ArrivalOrder, DisposedOnce, CancelHolds,
         WithdrawnAccounted, QueuedIds

(***************************************************************************)
(* Appending an item with a fresh id, as every queue_message that queues   *)
(* something does.                                                         *)
(***************************************************************************)
LEMMA PushBackIInv ==
    ASSUME IInv, NEW item \in ReqOrSync, PushBack(item), openFiles' \subseteq Files,
           item.n = arrived + 1,
           item.tag # "CanceledRequest",
           item.id = NoId \/ item.id \in Ids \ UsedIds
    PROVE  IInv'
  <1> DEFINE q == requestOrSync
             L == Len(requestOrSync)
  <1> USE DEF IInv
  <1>1. /\ q \in Seq(ReqOrSync)
        /\ L \in Nat
        /\ DOMAIN q = 1..L
        /\ q' = Append(q, item)
        /\ q' \in Seq(ReqOrSync)
        /\ DOMAIN q' = 1..(L + 1)
        /\ Len(q') = L + 1
        /\ q'[L + 1] = item
        /\ \A i \in 1..L : q'[i] = q[i] /\ q[i] \in ReqOrSync
    BY DEF TypeOK, PushBack
  <1>2. \A i \in 1..(L + 1) : i \in 1..L \/ i = L + 1
    BY <1>1
  <1>3. TypeOK'
    BY <1>1 DEF TypeOK, PushBack
  <1>4. ArrivalOrder'
    BY <1>1, <1>2 DEF ArrivalOrder, PushBack, TypeOK
  <1>5. QueuedIds' = QueuedIds \cup {item.id}
    BY <1>1, <1>2 DEF QueuedIds
  <1>6. \A i \in 1..L : q[i].id \in QueuedIds
    BY <1>1 DEF QueuedIds
  <1>7. DisposedOnce'
    <2>1. /\ (dispatched \cap refused = {})'
          /\ (QueuedIds \cap (dispatched \cup refused) = {})'
      BY <1>5 DEF NoIdDistinct, DisposedOnce, PushBack, UsedIds, TypeOK
    <2>2. ASSUME NEW i \in 1..(L + 1), NEW j \in 1..(L + 1),
                 q'[i].id = q'[j].id, i # j
          PROVE  q'[i].id = NoId
      BY <1>1, <1>2, <1>6, <2>2 DEF DisposedOnce, UsedIds
    <2> QED
      BY <1>1, <2>1, <2>2 DEF DisposedOnce
  <1>8. item.id \notin withdrawn
    BY DEF NoIdDistinct, WithdrawnAccounted, UsedIds, TypeOK
  <1>9. CancelHolds'
    BY <1>1, <1>2, <1>8 DEF CancelHolds, PushBack
  <1>10. WithdrawnAccounted'
    BY <1>5 DEF WithdrawnAccounted, PushBack
  <1> QED
    BY <1>3, <1>4, <1>7, <1>9, <1>10

(***************************************************************************)
(* Cancellation rewrites tags in place: positions, ids and arrival numbers *)
(* stay as they are.                                                       *)
(***************************************************************************)
LEMMA QueueCancelIInv ==
    ASSUME IInv, NEW id \in Ids, QueueCancel(id)
    PROVE  IInv'
  <1> DEFINE q == requestOrSync
             L == Len(requestOrSync)
  <1> USE DEF IInv
  <1>1. /\ q \in Seq(ReqOrSync)
        /\ L \in Nat
        /\ DOMAIN q = 1..L
        /\ \A i \in 1..L : q[i] \in ReqOrSync
    BY DEF TypeOK
  <1>2. ASSUME NEW i \in 1..L
        PROVE  /\ q'[i] \in ReqOrSync
               /\ q'[i].n = q[i].n
               /\ q'[i].id = q[i].id
               /\ q'[i].tag = IF q[i].tag = "Request" /\ q[i].id = id
                              THEN "CanceledRequest" ELSE q[i].tag
    <2>1. q[i] \in ReqOrSync
      BY <1>1
    <2>2. q'[i] = IF q[i].tag = "Request" /\ q[i].id = id
                  THEN [q[i] EXCEPT !.tag = "CanceledRequest"] ELSE q[i]
      BY <1>1 DEF QueueCancel
    <2> QED
      BY <2>1, <2>2 DEF ReqOrSync
  <1>3. /\ DOMAIN q' = 1..L
        /\ q' \in Seq(ReqOrSync)
        /\ Len(q') = L
    <2>1. q' = [i \in 1..L |-> q'[i]]
      BY <1>1 DEF QueueCancel
    <2> QED
      BY <1>1, <1>2, <2>1
  <1>4. TypeOK'
    BY <1>3 DEF TypeOK, QueueCancel
  <1>5. ArrivalOrder'
    BY <1>1, <1>2, <1>3 DEF ArrivalOrder, QueueCancel
  <1>6. QueuedIds' = QueuedIds
    BY <1>1, <1>2, <1>3 DEF QueuedIds
  <1>7. DisposedOnce'
    BY <1>1, <1>2, <1>3, <1>6 DEF DisposedOnce, QueueCancel
  <1>8. CancelHolds'
    <2>1. withdrawn' \cap dispatched' = {}
      BY DEF CancelHolds, DisposedOnce, QueueCancel
    <2>2. ASSUME NEW i \in 1..L
          PROVE  q'[i].tag = "CanceledRequest" <=> q'[i].id \in withdrawn'
      <3>1. q[i].id \in QueuedIds
        BY <1>1 DEF QueuedIds
      <3>2. q[i].tag \in {"Request", "CanceledRequest"} \/ q[i].id = NoId
        BY <1>1 DEF ReqOrSync
      <3> QED
        BY <1>1, <1>2, <3>1, <3>2 DEF NoIdDistinct, CancelHolds, QueueCancel
    <2> QED
      BY <1>3, <2>1, <2>2 DEF CancelHolds
  <1>9. WithdrawnAccounted'
    BY <1>6 DEF WithdrawnAccounted, QueueCancel
  <1> QED
    BY <1>4, <1>5, <1>7, <1>8, <1>9
(***************************************************************************)
(* Popping the front for good: the rest of the queue moves up by one and   *)
(* the front's id leaves it, unless the front is a synchronisation.        *)
(***************************************************************************)
LEMMA PopIInv ==
    ASSUME IInv, requestOrSync # <<>>, PopFront,
           UNCHANGED <<openFiles, arrived, withdrawn>>,
           staleDiagnostics' \subseteq Files,
           \/ /\ Front.tag = "DocumentSync"
              /\ UNCHANGED <<dispatched, refused>>
           \/ /\ Front.tag = "CanceledRequest"
              /\ refused' = refused \cup {Front.id}
              /\ dispatched' = dispatched
           \/ /\ Front.tag = "Request"
              /\ dispatched' = dispatched \cup {Front.id}
              /\ refused' = refused
    PROVE  IInv'
  <1> DEFINE q == requestOrSync
             L == Len(requestOrSync)
  <1> USE DEF IInv
  <1>1. /\ Front = q[1]
        /\ Front \in ReqOrSync
        /\ L \in Nat \ {0}
        /\ DOMAIN q = 1..L
        /\ q' = Tail(q)
        /\ q' \in Seq(ReqOrSync)
        /\ Len(q') = L - 1
        /\ DOMAIN q' = 1..(L - 1)
        /\ \A i \in 1..(L - 1) : i + 1 \in 1..L /\ q'[i] = q[i + 1]
        /\ taken' = Front.n
    BY PopFacts DEF PopFront
  <1>2. Front.tag \in {"Request", "CanceledRequest"} => Front.id \in Ids
    BY <1>1 DEF ReqOrSync
  <1>3. Front.tag = "DocumentSync" => Front.id = NoId
    BY <1>1 DEF ReqOrSync
  <1>4. TypeOK'
    BY <1>1, <1>2 DEF TypeOK, ReqOrSync
  <1>5. ArrivalOrder'
    <2>1. taken \in Nat /\ arrived = taken + L /\ \A i \in 1..L : q[i].n = taken + i
      BY <1>1 DEF ArrivalOrder, TypeOK
    <2>2. taken' = taken + 1
      BY <1>1, <2>1
    <2>3. ASSUME NEW i \in 1..(L - 1) PROVE q'[i].n = taken' + i
      <3>1. q'[i].n = taken + (i + 1)
        BY <1>1, <2>1
      <3> QED
        BY <1>1, <2>1, <2>2, <3>1
    <2>4. arrived' = taken' + Len(q')
      BY <1>1, <2>1, <2>2
    <2> QED
      BY <1>1, <2>3, <2>4 DEF ArrivalOrder
  <1>6. QueuedIds' \subseteq QueuedIds
    BY <1>1 DEF QueuedIds
  <1>7. \A x \in QueuedIds : x \in QueuedIds' \/ x = Front.id
    <2>1. SUFFICES ASSUME NEW k \in 1..L
                   PROVE  q[k].id \in QueuedIds' \/ q[k].id = Front.id
      BY <1>1 DEF QueuedIds
    <2>2. CASE k = 1
      BY <1>1, <2>2
    <2>3. CASE k # 1
      <3>1. k - 1 \in 1..(L - 1) /\ q'[k - 1] = q[k]
        BY <1>1, <2>3
      <3> QED
        BY <1>1, <3>1 DEF QueuedIds
    <2> QED
      BY <2>2, <2>3
  <1>8. Front.id \in QueuedIds
    BY <1>1 DEF QueuedIds
  <1>9. Front.id # NoId => Front.id \notin QueuedIds'
    <2>1. SUFFICES ASSUME Front.id # NoId, NEW k \in 1..(L - 1), q'[k].id = Front.id
                   PROVE  FALSE
      BY <1>1 DEF QueuedIds
    <2>2. q[k + 1].id = q[1].id /\ k + 1 \in 1..L /\ 1 \in 1..L /\ k + 1 # 1
      BY <1>1, <2>1
    <2> QED
      BY <1>1, <2>1, <2>2 DEF DisposedOnce
  <1>10. DisposedOnce'
    <2>1. (dispatched \cap refused = {})'
      BY <1>8 DEF DisposedOnce
    <2>2. (QueuedIds \cap (dispatched \cup refused) = {})'
      BY <1>2, <1>6, <1>9 DEF NoIdDistinct, DisposedOnce
    <2>3. ASSUME NEW i \in 1..(L - 1), NEW j \in 1..(L - 1),
                 q'[i].id = q'[j].id, i # j
          PROVE  q'[i].id = NoId
      BY <1>1, <2>3 DEF DisposedOnce
    <2> QED
      BY <1>1, <2>1, <2>2, <2>3 DEF DisposedOnce
  <1>11. CancelHolds'
    <2>1. Front.tag = "CanceledRequest" <=> Front.id \in withdrawn
      BY <1>1 DEF CancelHolds
    <2> QED
      BY <1>1, <2>1 DEF CancelHolds
  <1>12. WithdrawnAccounted'
    <2>1. Front.tag = "CanceledRequest" <=> Front.id \in withdrawn
      BY <1>1 DEF CancelHolds
    <2> QED
      BY <1>7, <2>1 DEF WithdrawnAccounted
  <1> QED
    BY <1>4, <1>5, <1>10, <1>11, <1>12

(***************************************************************************)
(* Diagnostics tasks leave the queue as it is.                             *)
(***************************************************************************)
LEMMA SameQueueIInv ==
    ASSUME IInv, staleDiagnostics' \subseteq Files,
           UNCHANGED <<requestOrSync, openFiles, arrived, taken, withdrawn,
                       dispatched, refused>>
    PROVE  IInv'
  BY DEF IInv, TypeOK, ArrivalOrder, DisposedOnce, CancelHolds,
         WithdrawnAccounted, QueuedIds

\* Every message that is queued and every task that is taken preserves it.
THEOREM NextIInv == IInv /\ [Next]_taskVars => IInv'
  <1> SUFFICES ASSUME IInv, [Next]_taskVars PROVE IInv'
    OBVIOUS
  <1>0. TypeOK
    BY DEF IInv
  <1>1. ASSUME NEW op \in RequestOps, NEW f \in Files, NEW id \in Ids,
               QueueRequest(op, f, id)
        PROVE  IInv'
    <2> DEFINE item == [tag |-> "Request", op |-> op, uri |-> f, id |-> id,
                        n |-> arrived + 1]
    <2>1. item \in ReqOrSync
      BY <1>0 DEF ReqOrSync, TypeOK
    <2>2. PushBack(item) /\ openFiles' \subseteq Files /\ id \in Ids \ UsedIds
      BY <1>0, <1>1 DEF QueueRequest, TypeOK
    <2> QED
      BY <2>1, <2>2, PushBackIInv
  <1>2. ASSUME NEW op \in SyncOps, NEW f \in Files, QueueSync(op, f)
        PROVE  IInv'
    <2> DEFINE item == [tag |-> "DocumentSync", op |-> op, uri |-> f, id |-> NoId,
                        n |-> arrived + 1]
    <2>1. item \in ReqOrSync
      BY <1>0 DEF ReqOrSync, TypeOK
    <2>2. PushBack(item)
      BY <1>2 DEF QueueSync
    <2>3. openFiles' \subseteq Files
      BY <1>0, <1>2 DEF QueueSync, SyncOps, TypeOK
    <2> QED
      BY <2>1, <2>2, <2>3, PushBackIInv
  <1>3. ASSUME NEW id \in Ids, QueueCancel(id) PROVE IInv'
    BY <1>3, QueueCancelIInv
  <1>4. ASSUME NEW invalid \in SUBSET Files, TakeSync(invalid) PROVE IInv'
    BY <1>0, <1>4, PopIInv DEF TakeSync, FrontIs, TypeOK
  <1>5. CASE TakeCanceled
    BY <1>0, <1>5, PopIInv DEF TakeCanceled, FrontIs, TypeOK
  <1>6. CASE TakeRequest
    BY <1>0, <1>6, PopIInv DEF TakeRequest, FrontIs, TypeOK
  <1>7. CASE DiagnosticsForRequest
    BY <1>0, <1>7, SameQueueIInv DEF DiagnosticsForRequest, TypeOK
  <1>8. ASSUME NEW f \in Files, NextDiagnostic(f) PROVE IInv'
    BY <1>0, <1>8, SameQueueIInv DEF NextDiagnostic, TypeOK
  <1>9. CASE UNCHANGED taskVars
    BY <1>0, <1>9, SameQueueIInv DEF taskVars, queueVars, TypeOK
  <1> QED
    BY <1>1, <1>2, <1>3, <1>4, <1>5, <1>6, <1>7, <1>8, <1>9
    DEF Next, QueueMessage, NextTask

(***************************************************************************)
(* The queue always holds well-formed items; nothing is lost, duplicated   *)
(* or reordered on its way to the handlers (next_request_or_sync pops,     *)
(* puts back and pops again; cancellation rewrites in place).              *)
(***************************************************************************)
THEOREM QueueSafety ==
    NoIdDistinct /\ Spec => [](TypeOK /\ ArrivalOrder /\ DisposedOnce /\ CancelHolds)
  <1>1. IInv => TypeOK /\ ArrivalOrder /\ DisposedOnce /\ CancelHolds
    BY DEF IInv
  <1> QED
    BY <1>1, InitIInv, NextIInv, PTL DEF Spec
=============================================================================
