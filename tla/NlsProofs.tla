----------------------------- MODULE NlsProofs -----------------------------
(***************************************************************************)
(* Proofs about the main loop of the language server, for any documents,   *)
(* imports, requests, sizes of the buffer and numbers of messages.         *)
(*                                                                         *)
(* The argument follows a message on its way.  What is in the pipe and in  *)
(* the queue are the messages after the last one that was taken, in the    *)
(* order in which the client numbered them.  So the texts that the server  *)
(* has are those that the client had when it sent the last message taken,  *)
(* and a request is handled when the server has the texts that the client  *)
(* had when it asked.                                                      *)
(***************************************************************************)
EXTENDS Nls, TLAPS

\* Most leaves are first-order reasoning.  Those with arithmetic, sequences or
\* records name SMT.
USE Zenon

----------------------------------------------------------------------------
(***************************************************************************)
(* What the client said.  T, O and I stand for sentTexts, sentOpen and     *)
(* sentIds: being their own parameters, these notions can be carried from  *)
(* a state to the next.                                                    *)
(***************************************************************************)
NoText == [f \in Files |-> 0]
TextsAt(n, T) == IF n = 0 THEN NoText ELSE T[n]
OpenAt(n, O) == IF n = 0 THEN {} ELSE O[n]

OpenAfter(op, f, open) ==
    CASE op = "Open"   -> open \cup {f}
      [] op = "Close"  -> open \ {f}
      [] op = "Change" -> open

\* r is a request of the client: it changed no text, asked about an open
\* document, and no other request has its number.
RequestSent(r, T, O, I) ==
    /\ r.id \in Ids /\ r.uri \in Files /\ r.op = Category(r.id)
    /\ r.n \in 1..Len(T)
    /\ I[r.id] = r.n
    /\ \A id \in Ids : I[id] = r.n => id = r.id
    /\ T[r.n] = TextsAt(r.n - 1, T)
    /\ O[r.n] = OpenAt(r.n - 1, O)
    /\ r.uri \in O[r.n]

\* r is a synchronisation of the client: it made r.n the text of the document.
SyncSent(r, T, O, I) ==
    /\ r.op \in Queue!SyncOps /\ r.uri \in Files
    /\ r.n \in 1..Len(T)
    /\ \A id \in Ids : I[id] # r.n
    /\ T[r.n] = [TextsAt(r.n - 1, T) EXCEPT ![r.uri] = r.n]
    /\ O[r.n] = OpenAfter(r.op, r.uri, OpenAt(r.n - 1, O))

Numbered(msg) == msg.kind \in {"Request", "Sync"}

MessageRight(msg, T, O, I) ==
    /\ msg.kind = "Request" => RequestSent(msg, T, O, I)
    /\ msg.kind = "Sync"    => SyncSent(msg, T, O, I)
    /\ msg.kind = "Cancel"  => msg.id \in Ids /\ Method[msg.id] # "shutdown"

ItemRight(q, T, O, I) ==
    /\ q.tag \in {"Request", "CanceledRequest"} => RequestSent(q, T, O, I)
    /\ q.tag = "CanceledRequest" => Method[q.id] # "shutdown"
    /\ q.tag = "DocumentSync" => SyncSent(q, T, O, I)

Messages ==
    [kind : {"Request", "Sync", "Cancel", "Exit"},
     op : Queue!RequestOps \cup Queue!SyncOps \cup {"Cancel", "Exit"},
     uri : Files \cup {NoId}, id : Ids \cup {NoId}, n : Nat]

\* The pipe p holds the messages after the a-th, in order and all of them.
PipeRight(p, a, T, O, I) ==
    /\ \A i \in 1..Len(p) : MessageRight(p[i], T, O, I)
    /\ \A i \in 1..Len(p) : Numbered(p[i]) => p[i].n > a
    /\ \A i, j \in 1..Len(p) :
         i < j /\ Numbered(p[i]) /\ Numbered(p[j]) => p[i].n < p[j].n
    /\ \A k \in (a + 1)..Len(T) :
         \E i \in 1..Len(p) : Numbered(p[i]) /\ p[i].n = k

\* The queue q holds the messages after the t-th up to the a-th.
QueueRight(q, t, a, T, O, I) ==
    /\ a = t + Len(q)
    /\ \A i \in 1..Len(q) : q[i].n = t + i
    /\ \A i \in 1..Len(q) : ItemRight(q[i], T, O, I)

(***************************************************************************)
(* The inductive invariant.                                                *)
(***************************************************************************)
pipe == receiver \o stdin
sent == Len(sentTexts)

Numbers == 0..MaxMsgs
Texts == [Files -> Numbers]
AnyTexts == UNION {[Deps[f] -> Numbers] : f \in Files}
Results == {r \in [uri : Files, texts : AnyTexts] : r.texts \in [Deps[r.uri] -> Numbers]}

Types ==
    /\ TypeOK
    /\ requestOrSync \in Seq(Queue!ReqOrSync)
    /\ openFiles \subseteq Files
    /\ staleDiagnostics \subseteq Files
    /\ arrived \in Nat /\ taken \in Nat
    /\ dispatched \subseteq Ids /\ refused \subseteq Ids
    /\ sentOpen \in Seq(SUBSET Files)
    /\ stdin \in Seq(Messages) /\ receiver \in Seq(Messages)
    /\ results \in Seq(Results)
    /\ DOMAIN analyzed = Files /\ DOMAIN shown = Files /\ DOMAIN pendingEval = Files

\* What was sent last is what the client has, and a shutdown request is the
\* last request.
ClientRight ==
    /\ Len(sentOpen) = sent
    /\ clientTexts = TextsAt(sent, sentTexts)
    /\ clientOpen = OpenAt(sent, sentOpen)
    /\ \A id \in Ids : sentIds[id] <= sent
    /\ \A id \in Ids : Method[id] = "shutdown" => sentIds[id] \in {0, sent}

\* The messages after the last one taken are in the queue and in the pipe.
OnTheWay ==
    /\ arrived <= sent
    /\ QueueRight(requestOrSync, taken, arrived, sentTexts, sentOpen, sentIds)
    /\ mode # "stopped" => PipeRight(pipe, arrived, sentTexts, sentOpen, sentIds)

\* An exit message follows the answer to a shutdown request, and the server
\* does not stop while the client may still ask.
ExitAnnounced ==
    /\ mode = "serving" =>
         /\ \A id \in Ids : Method[id] = "shutdown" => replies[id] = 0
         /\ \A i \in 1..Len(pipe) : pipe[i].kind # "Exit"
    /\ mode # "serving" => ~connected \/ ShutdownSent

\* A request is disposed of when its number is taken, and answered then.
Answered ==
    /\ \A id \in Ids : id \in dispatched \cup refused <=> sentIds[id] \in 1..taken
    /\ \A id \in Ids : Method[id] # "shutdown" =>
         replies[id] = IF id \in refused \/ (id \in dispatched /\ Method[id] # "silent")
                       THEN 1 ELSE 0
    /\ \A id \in Ids : Method[id] = "shutdown" =>
         /\ id \notin refused
         /\ id \in dispatched => replies[id] # 0 /\ mode # "serving"
         /\ replies[id] <= IF mode = "stopped" THEN 2 ELSE 1
    /\ mode = "exiting" => \E id \in dispatched : Method[id] = "shutdown"

\* The server has the texts of the last message taken, and an analysis that
\* is not marked stale is of the texts it has.
WorldRight ==
    /\ docs = TextsAt(taken, sentTexts)
    /\ OpenAt(taken, sentOpen) \subseteq known
    /\ \A f \in known : f \in staleDiagnostics \/ analyzed[f] = TextsOf(f)
    /\ \A f \in Files \ known : analyzed[f] = NoTexts

\* The diagnostics of f that will be on the screen at last are about the texts
\* that the server has.
Settling(f) ==
    \/ pendingEval[f] = TextsOf(f)
    \/ /\ pendingEval[f] = NoTexts
       /\ \E i \in 1..Len(results) :
            /\ results[i].uri = f /\ results[i].texts = TextsOf(f)
            /\ \A j \in 1..Len(results) : j > i => results[j].uri # f
    \/ /\ pendingEval[f] = NoTexts
       /\ \A i \in 1..Len(results) : results[i].uri # f
       /\ shown[f] = TextsOf(f)

DiagnosticsRight ==
    (\A id \in dispatched : Method[id] # "eval") =>
        \A f \in OpenAt(taken, sentOpen) : f \in staleDiagnostics \/ Settling(f)

IInv ==
    /\ Types
    /\ ClientRight
    /\ OnTheWay
    /\ ExitAnnounced
    /\ Answered
    /\ WorldRight
    /\ DiagnosticsRight
    /\ NothingDroppedAtExit

----------------------------------------------------------------------------
(***************************************************************************)
(* What was said stays said: a further message changes nothing about the   *)
(* earlier ones.                                                           *)
(***************************************************************************)
\* I2 are the numbers of the requests after one more numbered message.
Extends(I, I2, n) ==
    \A id \in Ids : I2[id] = I[id] \/ (I[id] = 0 /\ I2[id] = n)

LEMMA SentStays ==
    ASSUME NEW T \in Seq(Texts), NEW O \in Seq(SUBSET Files), Len(O) = Len(T),
           NEW t \in Texts, NEW o \in SUBSET Files,
           NEW I, NEW I2, Extends(I, I2, Len(T) + 1)
    PROVE  /\ \A r : RequestSent(r, T, O, I) => RequestSent(r, Append(T, t), Append(O, o), I2)
           /\ \A r : SyncSent(r, T, O, I) => SyncSent(r, Append(T, t), Append(O, o), I2)
  <1>1. /\ Len(T) \in Nat
        /\ Len(Append(T, t)) = Len(T) + 1
        /\ \A n \in 1..Len(T) : Append(T, t)[n] = T[n] /\ Append(O, o)[n] = O[n]
    BY SMTT(30)
  <1>2. \A n \in 1..Len(T) : /\ TextsAt(n - 1, Append(T, t)) = TextsAt(n - 1, T)
                             /\ OpenAt(n - 1, Append(O, o)) = OpenAt(n - 1, O)
    BY SMTT(30), <1>1 DEF TextsAt, OpenAt
  <1> DEFINE T2 == Append(T, t)
             O2 == Append(O, o)
  <1> HIDE DEF T2, O2
  <1>3. ASSUME NEW r, RequestSent(r, T, O, I)
        PROVE  RequestSent(r, T2, O2, I2)
    <2>1. r.n \in 1..Len(T2)
      BY SMTT(30), <1>1, <1>3 DEF RequestSent, T2
    <2>2. I2[r.id] = r.n /\ \A id \in Ids : I2[id] = r.n => id = r.id
      BY SMTT(30), <1>1, <1>3 DEF RequestSent, Extends
    <2> QED
      BY <1>1, <1>2, <1>3, <2>1, <2>2 DEF RequestSent, T2, O2
  <1>4. ASSUME NEW r, SyncSent(r, T, O, I)
        PROVE  SyncSent(r, T2, O2, I2)
    <2>1. r.n \in 1..Len(T2)
      BY SMTT(30), <1>1, <1>4 DEF SyncSent, T2
    <2>2. \A id \in Ids : I2[id] # r.n
      BY SMTT(30), <1>1, <1>4 DEF SyncSent, Extends
    <2> QED
      BY <1>1, <1>2, <1>4, <2>1, <2>2 DEF SyncSent, T2, O2
  <1> QED
    BY <1>3, <1>4 DEF T2, O2

LEMMA RightStays ==
    ASSUME NEW T \in Seq(Texts), NEW O \in Seq(SUBSET Files), Len(O) = Len(T),
           NEW t \in Texts, NEW o \in SUBSET Files,
           NEW I, NEW I2, Extends(I, I2, Len(T) + 1)
    PROVE  /\ \A m : MessageRight(m, T, O, I) => MessageRight(m, Append(T, t), Append(O, o), I2)
           /\ \A q : ItemRight(q, T, O, I) => ItemRight(q, Append(T, t), Append(O, o), I2)
  <1> DEFINE T2 == Append(T, t)
             O2 == Append(O, o)
  <1>1. /\ \A r : RequestSent(r, T, O, I) => RequestSent(r, T2, O2, I2)
        /\ \A r : SyncSent(r, T, O, I) => SyncSent(r, T2, O2, I2)
    BY SentStays
  <1> HIDE DEF T2, O2
  <1>2. /\ \A m : MessageRight(m, T, O, I) => MessageRight(m, T2, O2, I2)
        /\ \A q : ItemRight(q, T, O, I) => ItemRight(q, T2, O2, I2)
    BY <1>1 DEF MessageRight, ItemRight
  <1> QED
    BY <1>2 DEF T2, O2

(***************************************************************************)
(* The pipe: a message is sent, or received.                               *)
(***************************************************************************)
LEMMA PipeSend ==
    ASSUME NEW p \in Seq(Messages), NEW a \in Nat, NEW msg \in Messages,
           NEW T \in Seq(Texts), NEW O \in Seq(SUBSET Files), Len(O) = Len(T), a <= Len(T),
           NEW t \in Texts, NEW o \in SUBSET Files,
           NEW I, NEW I2, Extends(I, I2, Len(T) + 1),
           PipeRight(p, a, T, O, I),
           MessageRight(msg, Append(T, t), Append(O, o), I2),
           Numbered(msg), msg.n = Len(T) + 1
    PROVE  PipeRight(Append(p, msg), a, Append(T, t), Append(O, o), I2)
  <1> DEFINE T2 == Append(T, t)
             O2 == Append(O, o)
             p2 == Append(p, msg)
  <1>1. \A m : MessageRight(m, T, O, I) => MessageRight(m, T2, O2, I2)
    BY RightStays
  <1>2. /\ Len(T) \in Nat /\ Len(T2) = Len(T) + 1
        /\ Len(p) \in Nat /\ Len(p2) = Len(p) + 1
        /\ \A i \in 1..Len(p) : p2[i] = p[i]
        /\ p2[Len(p) + 1] = msg
    BY SMTT(30)
  <1>3. \A i \in 1..Len(p2) : i \in 1..Len(p) \/ i = Len(p) + 1
    BY SMTT(30), <1>2
  <1>4. \A i \in 1..Len(p) : Numbered(p[i]) => p[i].n \in 1..Len(T)
    BY DEF PipeRight, MessageRight, Numbered, RequestSent, SyncSent
  <1> HIDE DEF T2, O2, p2
  <1>5. \A i \in 1..Len(p2) : MessageRight(p2[i], T2, O2, I2)
    BY <1>1, <1>2, <1>3 DEF PipeRight, T2, O2
  <1>6. \A i \in 1..Len(p2) : Numbered(p2[i]) => p2[i].n > a
    BY SMTT(30), <1>2, <1>3 DEF PipeRight
  <1>7. \A i, j \in 1..Len(p2) :
          i < j /\ Numbered(p2[i]) /\ Numbered(p2[j]) => p2[i].n < p2[j].n
    BY SMTT(30), <1>2, <1>3, <1>4 DEF PipeRight
  <1>8. \A k \in (a + 1)..Len(T2) : \E i \in 1..Len(p2) : Numbered(p2[i]) /\ p2[i].n = k
    <2> SUFFICES ASSUME NEW k \in (a + 1)..Len(T2)
                 PROVE  \E i \in 1..Len(p2) : Numbered(p2[i]) /\ p2[i].n = k
      OBVIOUS
    <2>1. CASE k = Len(T) + 1
      <3>1. Len(p) + 1 \in 1..Len(p2)
        BY SMTT(30), <1>2
      <3> QED
        BY <2>1, <3>1, <1>2
    <2>2. CASE k # Len(T) + 1
      <3>1. k \in (a + 1)..Len(T)
        BY SMTT(30), <2>2, <1>2
      <3>2. PICK i \in 1..Len(p) : Numbered(p[i]) /\ p[i].n = k
        BY <3>1 DEF PipeRight
      <3>3. i \in 1..Len(p2)
        BY SMTT(30), <1>2
      <3> QED
        BY <3>2, <3>3, <1>2
    <2> QED
      BY <2>1, <2>2
  <1> QED
    BY <1>5, <1>6, <1>7, <1>8 DEF PipeRight, T2, O2, p2

LEMMA PipeSendUnnumbered ==
    ASSUME NEW p \in Seq(Messages), NEW a \in Nat, NEW msg \in Messages,
           NEW T, NEW O, NEW I,
           PipeRight(p, a, T, O, I), MessageRight(msg, T, O, I), ~Numbered(msg)
    PROVE  PipeRight(Append(p, msg), a, T, O, I)
  <1> DEFINE p2 == Append(p, msg)
  <1>2. /\ Len(p) \in Nat /\ Len(p2) = Len(p) + 1
        /\ \A i \in 1..Len(p) : p2[i] = p[i]
        /\ p2[Len(p) + 1] = msg
    BY SMTT(30)
  <1>3. \A i \in 1..Len(p2) : i \in 1..Len(p) \/ i = Len(p) + 1
    BY SMTT(30), <1>2
  <1>4. 1..Len(p) \subseteq 1..Len(p2)
    BY SMTT(30), <1>2
  <1> HIDE DEF p2
  <1>5. PipeRight(p2, a, T, O, I)
    BY <1>2, <1>3, <1>4 DEF PipeRight
  <1> QED
    BY <1>5 DEF p2

LEMMA PipeReceive ==
    ASSUME NEW p \in Seq(Messages), NEW a \in Nat, p # <<>>,
           NEW T \in Seq(Texts), NEW O, NEW I,
           PipeRight(p, a, T, O, I)
    PROVE  /\ MessageRight(Head(p), T, O, I)
           /\ Numbered(Head(p)) => /\ Head(p).n = a + 1
                                   /\ PipeRight(Tail(p), a + 1, T, O, I)
           /\ ~Numbered(Head(p)) => PipeRight(Tail(p), a, T, O, I)
  <1> DEFINE p2 == Tail(p)
  <1>1. /\ Len(p) \in Nat \ {0} /\ Len(p2) = Len(p) - 1
        /\ Head(p) = p[1]
        /\ \A i \in 1..Len(p2) : i + 1 \in 1..Len(p) /\ p2[i] = p[i + 1]
        /\ \A i \in 1..Len(p) : i # 1 => i - 1 \in 1..Len(p2) /\ p2[i - 1] = p[i]
        /\ Len(T) \in Nat /\ 1 \in 1..Len(p)
    BY SMTT(30)
  <1>2. MessageRight(p[1], T, O, I)
    BY <1>1 DEF PipeRight
  <1>3. \A i \in 1..Len(p) : Numbered(p[i]) => p[i].n \in 1..Len(T)
    BY DEF PipeRight, MessageRight, Numbered, RequestSent, SyncSent
  <1> HIDE DEF p2
  <1>4. ASSUME Numbered(p[1]) PROVE p[1].n = a + 1
    <2>1. p[1].n > a /\ p[1].n \in 1..Len(T)
      BY <1>1, <1>3, <1>4 DEF PipeRight
    <2>2. a + 1 \in (a + 1)..Len(T)
      BY SMTT(30), <2>1, <1>1
    <2>3. PICK i \in 1..Len(p) : Numbered(p[i]) /\ p[i].n = a + 1
      BY <2>2 DEF PipeRight
    <2>4. i # 1 => p[1].n < a + 1
      BY SMTT(30), <2>3, <1>4, <1>1 DEF PipeRight
    <2> QED
      BY SMTT(30), <2>1, <2>3, <2>4
  <1>5. ASSUME Numbered(p[1]) PROVE PipeRight(p2, a + 1, T, O, I)
    <2>1. \A i \in 1..Len(p2) : MessageRight(p2[i], T, O, I)
      BY <1>1 DEF PipeRight
    <2>2. \A i \in 1..Len(p2) : Numbered(p2[i]) => p2[i].n > a + 1
      <3> SUFFICES ASSUME NEW i \in 1..Len(p2), Numbered(p2[i]) PROVE p2[i].n > a + 1
        OBVIOUS
      <3>1. 1 < i + 1 /\ i + 1 \in 1..Len(p) /\ p2[i] = p[i + 1]
        BY SMTT(30), <1>1
      <3>2. p[1].n < p[i + 1].n
        BY <3>1, <1>5, <1>1 DEF PipeRight
      <3> QED
        BY <3>1, <3>2, <1>3, <1>4, <1>5
    <2>3. \A i, j \in 1..Len(p2) :
            i < j /\ Numbered(p2[i]) /\ Numbered(p2[j]) => p2[i].n < p2[j].n
      <3> SUFFICES ASSUME NEW i \in 1..Len(p2), NEW j \in 1..Len(p2), i < j,
                          Numbered(p2[i]), Numbered(p2[j])
                   PROVE  p2[i].n < p2[j].n
        OBVIOUS
      <3>1. i + 1 < j + 1
        BY SMTT(30), <1>1
      <3> QED
        BY <3>1, <1>1 DEF PipeRight
    <2>4. \A k \in (a + 2)..Len(T) : \E i \in 1..Len(p2) : Numbered(p2[i]) /\ p2[i].n = k
      <3> SUFFICES ASSUME NEW k \in (a + 2)..Len(T)
                   PROVE  \E i \in 1..Len(p2) : Numbered(p2[i]) /\ p2[i].n = k
        OBVIOUS
      <3>1. k \in (a + 1)..Len(T) /\ k # a + 1
        BY SMTT(30)
      <3>2. PICK i \in 1..Len(p) : Numbered(p[i]) /\ p[i].n = k
        BY <3>1 DEF PipeRight
      <3>3. i # 1
        BY <3>1, <3>2, <1>4, <1>5
      <3> QED
        BY <3>2, <3>3, <1>1
    <2> QED
      BY SMTT(30), <2>1, <2>2, <2>3, <2>4 DEF PipeRight
  <1>6. ASSUME ~Numbered(p[1]) PROVE PipeRight(p2, a, T, O, I)
    <2>1. \A i \in 1..Len(p2) : MessageRight(p2[i], T, O, I)
      BY <1>1 DEF PipeRight
    <2>2. \A i \in 1..Len(p2) : Numbered(p2[i]) => p2[i].n > a
      BY <1>1 DEF PipeRight
    <2>3. \A i, j \in 1..Len(p2) :
            i < j /\ Numbered(p2[i]) /\ Numbered(p2[j]) => p2[i].n < p2[j].n
      <3> SUFFICES ASSUME NEW i \in 1..Len(p2), NEW j \in 1..Len(p2), i < j,
                          Numbered(p2[i]), Numbered(p2[j])
                   PROVE  p2[i].n < p2[j].n
        OBVIOUS
      <3>1. i + 1 < j + 1
        BY SMTT(30), <1>1
      <3> QED
        BY <3>1, <1>1 DEF PipeRight
    <2>4. \A k \in (a + 1)..Len(T) : \E i \in 1..Len(p2) : Numbered(p2[i]) /\ p2[i].n = k
      <3> SUFFICES ASSUME NEW k \in (a + 1)..Len(T)
                   PROVE  \E i \in 1..Len(p2) : Numbered(p2[i]) /\ p2[i].n = k
        OBVIOUS
      <3>2. PICK i \in 1..Len(p) : Numbered(p[i]) /\ p[i].n = k
        BY DEF PipeRight
      <3>3. i # 1
        BY <3>2, <1>6
      <3> QED
        BY <3>2, <3>3, <1>1
    <2> QED
      BY <2>1, <2>2, <2>3, <2>4 DEF PipeRight
  <1> QED
    BY <1>1, <1>2, <1>4, <1>5, <1>6 DEF p2

(***************************************************************************)
(* The buffer and what is behind it, as one pipe.                          *)
(***************************************************************************)
LEMMA PipeParts ==
    ASSUME NEW r \in Seq(Messages), NEW s \in Seq(Messages)
    PROVE  /\ r \o s \in Seq(Messages)
           /\ \A msg \in Messages : r \o Append(s, msg) = Append(r \o s, msg)
           /\ s # <<>> => Append(r, Head(s)) \o Tail(s) = r \o s
           /\ r # <<>> => /\ r \o s # <<>>
                          /\ Head(r \o s) = Head(r)
                          /\ Tail(r) \o s = Tail(r \o s)
  <1>1. \A msg \in Messages : r \o Append(s, msg) = Append(r \o s, msg)
    BY SMTT(30)
  <1>2. ASSUME s # <<>> PROVE Append(r, Head(s)) \o Tail(s) = r \o s
    <2> DEFINE x == Append(r, Head(s)) \o Tail(s)
    <2>1. x \in Seq(Messages) /\ r \o s \in Seq(Messages) /\ Len(x) = Len(r \o s)
      BY SMTT(30), <1>2
    <2>2. \A i \in 1..Len(x) : x[i] = (r \o s)[i]
      BY SMTT(30), <1>2
    <2> QED
      BY SMTT(30), <2>1, <2>2
  <1>3. ASSUME r # <<>>
        PROVE  r \o s # <<>> /\ Head(r \o s) = Head(r) /\ Tail(r) \o s = Tail(r \o s)
    <2> DEFINE x == Tail(r) \o s
               y == Tail(r \o s)
    <2>1. r \o s # <<>> /\ Head(r \o s) = Head(r)
      BY SMTT(30), <1>3
    <2>2. x \in Seq(Messages) /\ y \in Seq(Messages) /\ Len(x) = Len(y)
      BY SMTT(30), <1>3, <2>1
    <2>3. \A i \in 1..Len(x) : x[i] = y[i]
      BY SMTT(30), <1>3, <2>1, <2>2
    <2> QED
      BY SMTT(30), <2>1, <2>2, <2>3
  <1>4. r \o s \in Seq(Messages)
    BY SMTT(30)
  <1> QED
    BY <1>1, <1>2, <1>3, <1>4

(***************************************************************************)
(* The queue: a message is queued, a request is cancelled in place, the    *)
(* front is popped, and the client says more.                              *)
(***************************************************************************)
LEMMA QueuePush ==
    ASSUME NEW q \in Seq(Queue!ReqOrSync), NEW t \in Nat, NEW a \in Nat, NEW item,
           item \in Queue!ReqOrSync,
           NEW T, NEW O, NEW I, QueueRight(q, t, a, T, O, I),
           ItemRight(item, T, O, I), item.n = a + 1
    PROVE  QueueRight(Append(q, item), t, a + 1, T, O, I)
  <1> DEFINE q2 == Append(q, item)
  <1>1. /\ Len(q) \in Nat /\ Len(q2) = Len(q) + 1
        /\ \A i \in 1..Len(q) : q2[i] = q[i]
        /\ q2[Len(q) + 1] = item
    BY SMTT(30)
  <1>2. \A i \in 1..Len(q2) : i \in 1..Len(q) \/ i = Len(q) + 1
    BY SMTT(30), <1>1
  <1> HIDE DEF q2
  <1>3. a = t + Len(q) /\ a + 1 = t + Len(q2)
    BY SMTT(30), <1>1 DEF QueueRight
  <1>4. ASSUME NEW i \in 1..Len(q2)
        PROVE  q2[i].n = t + i /\ ItemRight(q2[i], T, O, I)
    <2>1. CASE i \in 1..Len(q)
      BY <2>1, <1>1 DEF QueueRight
    <2>2. CASE i = Len(q) + 1
      BY <2>2, <1>1, <1>3
    <2> QED
      BY <2>1, <2>2, <1>2
  <1>5. QueueRight(q2, t, a + 1, T, O, I)
    BY <1>3, <1>4 DEF QueueRight
  <1> QED
    BY <1>5 DEF q2

LEMMA QueuePop ==
    ASSUME NEW q \in Seq(Queue!ReqOrSync), NEW t \in Nat, NEW a \in Nat, q # <<>>,
           NEW T, NEW O, NEW I, QueueRight(q, t, a, T, O, I)
    PROVE  /\ Head(q) \in Queue!ReqOrSync
           /\ Head(q).n = t + 1 /\ t + 1 <= a
           /\ ItemRight(Head(q), T, O, I)
           /\ Tail(q) \in Seq(Queue!ReqOrSync)
           /\ QueueRight(Tail(q), t + 1, a, T, O, I)
  <1> DEFINE q2 == Tail(q)
  <1>1. /\ Len(q) \in Nat \ {0} /\ Len(q2) = Len(q) - 1
        /\ Head(q) = q[1] /\ q[1] \in Queue!ReqOrSync
        /\ q2 \in Seq(Queue!ReqOrSync)
        /\ \A i \in 1..Len(q2) : i + 1 \in 1..Len(q) /\ q2[i] = q[i + 1]
        /\ 1 \in 1..Len(q)
    BY SMTT(30)
  <1> HIDE DEF q2
  <1>2. Head(q).n = t + 1 /\ t + 1 <= a /\ ItemRight(Head(q), T, O, I)
    BY SMTT(30), <1>1 DEF QueueRight
  <1>3. ASSUME NEW i \in 1..Len(q2)
        PROVE  q2[i].n = (t + 1) + i /\ ItemRight(q2[i], T, O, I)
    <2>1. i + 1 \in 1..Len(q) /\ q2[i] = q[i + 1]
      BY <1>1
    <2>2. q[i + 1].n = t + (i + 1) /\ ItemRight(q[i + 1], T, O, I)
      BY <2>1 DEF QueueRight
    <2> QED
      BY SMTT(30), <2>1, <2>2, <1>1
  <1>4. a = (t + 1) + Len(q2)
    BY SMTT(30), <1>1 DEF QueueRight
  <1>5. QueueRight(q2, t + 1, a, T, O, I)
    BY <1>3, <1>4 DEF QueueRight
  <1> QED
    BY <1>1, <1>2, <1>5 DEF q2

Canceled(item) == [item EXCEPT !.tag = "CanceledRequest"]

LEMMA CanceledItem ==
    ASSUME NEW item \in Queue!ReqOrSync, item.tag = "Request",
           NEW T, NEW O, NEW I, ItemRight(item, T, O, I), Method[item.id] # "shutdown"
    PROVE  /\ Canceled(item) \in Queue!ReqOrSync
           /\ Canceled(item).n = item.n
           /\ ItemRight(Canceled(item), T, O, I)
  <1>1. item \in [tag : {"Request", "CanceledRequest"}, op : Queue!RequestOps, uri : Files,
                  id : Ids, n : Nat]
    BY DEF Queue!ReqOrSync
  <1> DEFINE c == Canceled(item)
  <1>2. /\ c.tag = "CanceledRequest" /\ c.op = item.op /\ c.uri = item.uri
        /\ c.id = item.id /\ c.n = item.n
        /\ c \in [tag : {"Request", "CanceledRequest"}, op : Queue!RequestOps, uri : Files,
                  id : Ids, n : Nat]
    BY <1>1 DEF Canceled
  <1> HIDE DEF c
  <1>3. RequestSent(item, T, O, I)
    BY DEF ItemRight
  <1>4. RequestSent(c, T, O, I)
    BY <1>2, <1>3 DEF RequestSent
  <1>5. c \in Queue!ReqOrSync /\ c.n = item.n /\ ItemRight(c, T, O, I)
    BY <1>2, <1>4 DEF ItemRight, Queue!ReqOrSync
  <1> QED
    BY <1>5 DEF c

LEMMA QueueCanceled ==
    ASSUME NEW q \in Seq(Queue!ReqOrSync), NEW t \in Nat, NEW a \in Nat, NEW id \in Ids,
           Method[id] # "shutdown",
           NEW T, NEW O, NEW I, QueueRight(q, t, a, T, O, I), NEW q2,
           q2 = [i \in DOMAIN q |-> IF q[i].tag = "Request" /\ q[i].id = id
                                    THEN [q[i] EXCEPT !.tag = "CanceledRequest"] ELSE q[i]]
    PROVE  q2 \in Seq(Queue!ReqOrSync) /\ QueueRight(q2, t, a, T, O, I)
  <1>1. /\ Len(q) \in Nat /\ DOMAIN q = 1..Len(q)
        /\ \A i \in 1..Len(q) : q[i] \in Queue!ReqOrSync
    BY SMTT(30)
  <1>2. q2 = [i \in 1..Len(q) |-> IF q[i].tag = "Request" /\ q[i].id = id
                                  THEN Canceled(q[i]) ELSE q[i]]
    BY <1>1 DEF Canceled
  <1>3. ASSUME NEW i \in 1..Len(q)
        PROVE  /\ q2[i] \in Queue!ReqOrSync /\ q2[i].n = t + i
               /\ ItemRight(q2[i], T, O, I)
    <2>1. q[i] \in Queue!ReqOrSync /\ q[i].n = t + i /\ ItemRight(q[i], T, O, I)
      BY <1>1 DEF QueueRight
    <2>2. CASE q[i].tag = "Request" /\ q[i].id = id
      <3>1. q2[i] = Canceled(q[i])
        BY <1>2, <2>2
      <3> QED
        BY SMTT(30), <2>1, <2>2, <3>1, CanceledItem
    <2>3. CASE ~(q[i].tag = "Request" /\ q[i].id = id)
      <3>1. q2[i] = q[i]
        BY <1>2, <2>3
      <3> QED
        BY <2>1, <3>1
    <2> QED
      BY <2>2, <2>3
  <1>4. q2 \in [1..Len(q) -> Queue!ReqOrSync]
    BY <1>2, <1>3
  <1>5. q2 \in Seq(Queue!ReqOrSync) /\ Len(q2) = Len(q)
    BY SMTT(30), <1>1, <1>4
  <1> QED
    BY <1>3, <1>5 DEF QueueRight

LEMMA QueueStays ==
    ASSUME NEW T \in Seq(Texts), NEW O \in Seq(SUBSET Files), Len(O) = Len(T),
           NEW t \in Texts, NEW o \in SUBSET Files,
           NEW I, NEW I2, Extends(I, I2, Len(T) + 1),
           NEW q, NEW k, NEW a, QueueRight(q, k, a, T, O, I)
    PROVE  QueueRight(q, k, a, Append(T, t), Append(O, o), I2)
  BY RightStays DEF QueueRight

----------------------------------------------------------------------------
(***************************************************************************)
(* Steps of the client.                                                    *)
(***************************************************************************)
LEMMA InitIInv == Init => IInv
  <1> SUFFICES ASSUME Init PROVE IInv
    OBVIOUS
  <1> USE DEF Init, Queue!Init
  <1>1. Types
    BY SMTT(30), NlsAssumption DEF Types, TypeOK, Texts, Numbers
  <1>2. ClientRight
    BY SMTT(30), NlsAssumption DEF ClientRight, sent, TextsAt, OpenAt, NoText
  <1>3. OnTheWay
    BY SMTT(30) DEF OnTheWay, sent, QueueRight, PipeRight, pipe
  <1>4. ExitAnnounced
    BY SMTT(30) DEF ExitAnnounced, pipe
  <1>5. Answered
    BY SMTT(30) DEF Answered
  <1>6. WorldRight
    BY DEF WorldRight, TextsAt, OpenAt, NoText
  <1>7. DiagnosticsRight
    BY DEF DiagnosticsRight, OpenAt
  <1>8. NothingDroppedAtExit
    BY DEF NothingDroppedAtExit
  <1> QED
    BY <1>1, <1>2, <1>3, <1>4, <1>5, <1>6, <1>7, <1>8 DEF IInv

\* The number of messages sent is a number.
LEMMA SentIsNat == IInv => sent \in Nat
  <1>1. IInv => sentTexts \in Seq([Files -> 0..MaxMsgs])
    BY DEF IInv, Types, TypeOK
  <1> QED
    BY SMT, <1>1 DEF sent

\* So are the numbers of the requests.
LEMMA IdNumbers == IInv => sent \in Nat /\ \A id \in Ids : sentIds[id] \in Nat
  <1>1. IInv => sentIds \in [Ids -> 0..MaxMsgs]
    BY DEF IInv, Types, TypeOK
  <1>2. ASSUME sentIds \in [Ids -> 0..MaxMsgs]
        PROVE  \A id \in Ids : sentIds[id] \in Nat
    BY SMT, <1>2, NlsAssumption
  <1> QED
    BY <1>1, <1>2, SentIsNat

LEMMA SettlingStays ==
    ASSUME UNCHANGED <<docs, pendingEval, results, shown>>
    PROVE  \A f : Settling(f) => Settling(f)'
  BY DEF Settling, TextsOf

\* One more numbered message.
LEMMA NumberedSent ==
    ASSUME IInv, ~ShutdownSent, connected, sent < MaxMsgs,
           NEW msg \in Messages, Numbered(msg), msg.n = sent + 1,
           clientTexts' \in Texts, clientOpen' \subseteq Files,
           sentTexts' = Append(sentTexts, clientTexts'),
           sentOpen' = Append(sentOpen, clientOpen'),
           sentIds' \in [Ids -> Numbers],
           Extends(sentIds, sentIds', sent + 1),
           MessageRight(msg, sentTexts', sentOpen', sentIds'),
           stdin' = Append(stdin, msg),
           UNCHANGED <<taskVars, cancelSent, connected, receiver, mode, worldVars, evalVars,
                       outVars>>
    PROVE  IInv'
  <1> USE DEF IInv
  <1>1. UNCHANGED <<requestOrSync, openFiles, staleDiagnostics, arrived, taken, withdrawn,
                    dispatched, refused, cancelSent, connected, receiver, mode, docs, known,
                    analyzed, pendingEval, results, replies, shown>>
    BY DEF taskVars, worldVars, evalVars, outVars
  <1>2. /\ sentTexts \in Seq(Texts) /\ sentOpen \in Seq(SUBSET Files)
        /\ Len(sentOpen) = Len(sentTexts) /\ sent \in Nat /\ sent = Len(sentTexts)
        /\ arrived \in Nat /\ taken \in Nat /\ sentIds \in [Ids -> Numbers]
        /\ receiver \in Seq(Messages) /\ stdin \in Seq(Messages)
        /\ requestOrSync \in Seq(Queue!ReqOrSync)
    BY SMTT(30) DEF Types, TypeOK, ClientRight, sent, Texts, Numbers
  <1>3. taken <= arrived /\ arrived <= sent /\ sent' = sent + 1
    BY SMTT(30), <1>2 DEF OnTheWay, QueueRight, sent
  <1>4. mode = "serving"
    BY DEF ExitAnnounced
  <1>5. Types'
    BY SMTT(30), <1>1, <1>2 DEF Types, TypeOK, Texts, Numbers
  <1>6. /\ \A n \in 0..sent : /\ TextsAt(n, sentTexts') = TextsAt(n, sentTexts)
                              /\ OpenAt(n, sentOpen') = OpenAt(n, sentOpen)
        /\ TextsAt(sent + 1, sentTexts') = clientTexts'
        /\ OpenAt(sent + 1, sentOpen') = clientOpen'
    <2>1. \A n \in 0..sent : TextsAt(n, sentTexts') = TextsAt(n, sentTexts)
      BY SMTT(30), <1>2 DEF TextsAt
    <2>2. \A n \in 0..sent : OpenAt(n, sentOpen') = OpenAt(n, sentOpen)
      BY SMTT(30), <1>2 DEF OpenAt
    <2>3. TextsAt(sent + 1, sentTexts') = clientTexts'
      BY SMTT(30), <1>2 DEF TextsAt
    <2>4. OpenAt(sent + 1, sentOpen') = clientOpen'
      BY SMTT(30), <1>2 DEF OpenAt
    <2> QED
      BY <2>1, <2>2, <2>3, <2>4
  <1>7. ClientRight'
    <2>1. \A id \in Ids : Method[id] = "shutdown" => sentIds[id] = 0
      BY DEF ShutdownSent
    <2>2. \A id \in Ids : sentIds'[id] = sentIds[id] \/ sentIds'[id] = sent + 1
      BY DEF Extends
    <2>3. \A id \in Ids : sentIds[id] \in 0..sent
      BY SMTT(30), <1>2 DEF ClientRight, Numbers
    <2>4. \A id \in Ids : /\ sentIds'[id] <= sent'
                          /\ Method[id] = "shutdown" => sentIds'[id] \in {0, sent'}
      BY SMTT(30), <2>1, <2>2, <2>3, <1>2, <1>3
    <2>5. Len(sentOpen') = sent'
      BY SMTT(30), <1>2, <1>3
    <2> QED
      BY <2>4, <2>5, <1>3, <1>6 DEF ClientRight
  <1>8. OnTheWay'
    <2>1. QueueRight(requestOrSync, taken, arrived, sentTexts', sentOpen', sentIds')
      BY <1>2, QueueStays DEF OnTheWay
    <2>2. pipe \in Seq(Messages) /\ pipe' = Append(pipe, msg)
      BY SMTT(30), <1>1, <1>2, PipeParts DEF pipe
    <2>3. PipeRight(pipe, arrived, sentTexts, sentOpen, sentIds)
      BY <1>4 DEF OnTheWay
    <2>4. PipeRight(Append(pipe, msg), arrived, sentTexts', sentOpen', sentIds')
      BY <1>2, <1>3, <2>2, <2>3, PipeSend
    <2> QED
      BY SMTT(30), <1>1, <1>2, <1>3, <2>1, <2>2, <2>4 DEF OnTheWay
  <1>9. ExitAnnounced'
    <2>1. pipe \in Seq(Messages) /\ pipe' = Append(pipe, msg)
      BY SMTT(30), <1>1, <1>2, PipeParts DEF pipe
    <2>2. msg.kind # "Exit"
      BY DEF Numbered
    <2>3. \A i \in 1..Len(pipe') : pipe'[i].kind # "Exit"
      BY SMTT(30), <2>1, <2>2, <1>4 DEF ExitAnnounced
    <2> QED
      BY <2>3, <1>1, <1>4 DEF ExitAnnounced
  <1>10. Answered'
    <2>1. \A id \in Ids : sentIds'[id] \in 1..taken <=> sentIds[id] \in 1..taken
      BY SMTT(30), <1>2, <1>3 DEF Extends
    <2> QED
      BY <2>1, <1>1 DEF Answered
  <1>11. taken \in 0..sent
    BY SMTT(30), <1>2, <1>3
  <1>12. WorldRight'
    BY <1>1, <1>6, <1>11 DEF WorldRight, TextsOf
  <1>13. DiagnosticsRight'
    BY <1>1, <1>6, <1>11, SettlingStays DEF DiagnosticsRight
  <1>14. NothingDroppedAtExit'
    BY <1>1, <1>4 DEF NothingDroppedAtExit
  <1> QED
    BY <1>5, <1>7, <1>8, <1>9, <1>10, <1>12, <1>13, <1>14

LEMMA ClientSyncStep ==
    ASSUME IInv, NEW op \in Queue!SyncOps, NEW f \in Files, ClientSync(op, f)
    PROVE  IInv'
  <1> DEFINE msg == [kind |-> "Sync", op |-> op, uri |-> f, id |-> NoId, n |-> sent + 1]
  <1>1. /\ ~ShutdownSent /\ sent < MaxMsgs /\ connected
        /\ sentTexts' = Append(sentTexts, clientTexts')
        /\ sentOpen' = Append(sentOpen, clientOpen')
        /\ stdin' = Append(stdin, msg)
        /\ clientTexts' = [clientTexts EXCEPT ![f] = sent + 1]
        /\ clientOpen' = OpenAfter(op, f, clientOpen)
        /\ sentIds' = sentIds
        /\ UNCHANGED <<taskVars, cancelSent, connected, receiver, mode, worldVars, evalVars,
                       outVars>>
    BY DEF ClientSync, SendNumbered, Send, sent, OpenAfter
  <1>2. /\ clientTexts \in Texts /\ clientOpen \subseteq Files
        /\ sentTexts \in Seq(Texts) /\ sentOpen \in Seq(SUBSET Files)
        /\ Len(sentOpen) = sent /\ sent = Len(sentTexts) /\ sent \in Nat
        /\ sentIds \in [Ids -> Numbers] /\ MaxMsgs \in Nat
        /\ \A id \in Ids : sentIds[id] <= sent
        /\ clientTexts = TextsAt(sent, sentTexts)
        /\ clientOpen = OpenAt(sent, sentOpen)
    BY SMTT(30), NlsAssumption DEF IInv, Types, TypeOK, ClientRight, sent, Texts, Numbers
  <1>3. clientTexts' \in Texts
    BY SMTT(30), <1>1, <1>2 DEF Texts, Numbers
  <1>4. clientOpen' \subseteq Files
    BY <1>1, <1>2 DEF OpenAfter, Queue!SyncOps
  <1>5. sentIds' \in [Ids -> Numbers] /\ Extends(sentIds, sentIds', sent + 1)
    BY <1>1, <1>2 DEF Extends
  <1>6. msg \in Messages /\ Numbered(msg) /\ msg.n = sent + 1
    BY SMTT(30), <1>2 DEF Messages, Numbered
  <1>7. MessageRight(msg, sentTexts', sentOpen', sentIds')
    <2>1. msg.n \in 1..Len(sentTexts')
      BY SMTT(30), <1>1, <1>2, <1>3
    <2>2. \A id \in Ids : sentIds'[id] # msg.n
      BY SMTT(30), <1>1, <1>2 DEF Numbers
    <2>3. sentTexts'[msg.n] = clientTexts' /\ msg.n - 1 = sent /\ msg.n = sent + 1
      BY SMTT(30), <1>1, <1>2, <1>3
    <2>4. sentOpen'[msg.n] = clientOpen'
      BY SMTT(30), <1>1, <1>2, <1>4
    <2>5. TextsAt(sent, sentTexts') = clientTexts
      BY SMTT(30), <1>1, <1>2, <1>3 DEF TextsAt
    <2>6. OpenAt(sent, sentOpen') = clientOpen
      BY SMTT(30), <1>1, <1>2, <1>4 DEF OpenAt
    <2>7. SyncSent(msg, sentTexts', sentOpen', sentIds')
      BY <1>1, <2>1, <2>2, <2>3, <2>4, <2>5, <2>6 DEF SyncSent
    <2> QED
      BY <2>7 DEF MessageRight
  <1> HIDE DEF msg
  <1> QED
    BY <1>1, <1>3, <1>4, <1>5, <1>6, <1>7, NumberedSent

LEMMA ClientRequestStep ==
    ASSUME IInv, NEW id \in Ids, NEW f \in Files, ClientRequest(id, f)
    PROVE  IInv'
  <1> DEFINE msg == [kind |-> "Request", op |-> Category(id), uri |-> f, id |-> id,
                     n |-> sent + 1]
  <1>1. /\ ~ShutdownSent /\ sent < MaxMsgs /\ connected
        /\ f \in clientOpen /\ sentIds[id] = 0
        /\ sentTexts' = Append(sentTexts, clientTexts')
        /\ sentOpen' = Append(sentOpen, clientOpen')
        /\ stdin' = Append(stdin, msg)
        /\ clientTexts' = clientTexts /\ clientOpen' = clientOpen
        /\ sentIds' = [sentIds EXCEPT ![id] = sent + 1]
        /\ UNCHANGED <<taskVars, cancelSent, connected, receiver, mode, worldVars, evalVars,
                       outVars>>
    BY DEF ClientRequest, SendNumbered, Send, sent
  <1>2. /\ clientTexts \in Texts /\ clientOpen \subseteq Files
        /\ sentTexts \in Seq(Texts) /\ sentOpen \in Seq(SUBSET Files)
        /\ Len(sentOpen) = sent /\ sent = Len(sentTexts) /\ sent \in Nat
        /\ sentIds \in [Ids -> Numbers] /\ MaxMsgs \in Nat
        /\ \A x \in Ids : sentIds[x] <= sent
        /\ clientTexts = TextsAt(sent, sentTexts)
        /\ clientOpen = OpenAt(sent, sentOpen)
    BY SMTT(30), NlsAssumption DEF IInv, Types, TypeOK, ClientRight, sent, Texts, Numbers
  <1>3. clientTexts' \in Texts /\ clientOpen' \subseteq Files
    BY <1>1, <1>2
  <1>5. sentIds' \in [Ids -> Numbers] /\ Extends(sentIds, sentIds', sent + 1)
    BY SMTT(30), <1>1, <1>2 DEF Extends, Numbers
  <1>6. msg \in Messages /\ Numbered(msg) /\ msg.n = sent + 1
    BY SMTT(30), <1>2 DEF Messages, Numbered, Category, Queue!RequestOps
  <1>7. MessageRight(msg, sentTexts', sentOpen', sentIds')
    <2>1. msg.n \in 1..Len(sentTexts')
      BY SMTT(30), <1>1, <1>2, <1>3
    <2>2. sentIds'[id] = msg.n /\ \A x \in Ids : sentIds'[x] = msg.n => x = id
      BY SMTT(30), <1>1, <1>2 DEF Numbers
    <2>3. sentTexts'[msg.n] = clientTexts' /\ msg.n - 1 = sent /\ msg.n = sent + 1
      BY SMTT(30), <1>1, <1>2, <1>3
    <2>4. sentOpen'[msg.n] = clientOpen'
      BY SMTT(30), <1>1, <1>2, <1>3
    <2>5. TextsAt(sent, sentTexts') = clientTexts
      BY SMTT(30), <1>1, <1>2, <1>3 DEF TextsAt
    <2>6. OpenAt(sent, sentOpen') = clientOpen
      BY SMTT(30), <1>1, <1>2, <1>3 DEF OpenAt
    <2>7. RequestSent(msg, sentTexts', sentOpen', sentIds')
      BY <1>1, <2>1, <2>2, <2>3, <2>4, <2>5, <2>6 DEF RequestSent
    <2> QED
      BY <2>7 DEF MessageRight
  <1> HIDE DEF msg
  <1> QED
    BY <1>1, <1>3, <1>5, <1>6, <1>7, NumberedSent

\* A step that leaves the server alone, up to the pipe.
LEMMA PipeStep ==
    ASSUME IInv,
           UNCHANGED <<taskVars, clientOpen, clientTexts, sentTexts, sentOpen, sentIds, mode,
                       worldVars, evalVars, outVars>>,
           stdin' \in Seq(Messages), receiver' \in Seq(Messages), Len(receiver') <= BufferSize,
           cancelSent' \subseteq Ids, connected' \in BOOLEAN, connected' => connected,
           mode # "stopped" => PipeRight(pipe', arrived, sentTexts, sentOpen, sentIds),
           mode = "serving" => \A i \in 1..Len(pipe') : pipe'[i].kind # "Exit"
    PROVE  IInv'
  <1> USE DEF IInv
  <1>1. UNCHANGED <<requestOrSync, openFiles, staleDiagnostics, arrived, taken, withdrawn,
                    dispatched, refused, clientOpen, clientTexts, sentTexts, sentOpen, sentIds,
                    mode, docs, known, analyzed, pendingEval, results, replies, shown>>
    BY DEF taskVars, worldVars, evalVars, outVars
  <1>2. Types'
    BY <1>1 DEF Types, TypeOK
  <1>3. ClientRight'
    BY <1>1 DEF ClientRight, sent
  <1>4. OnTheWay'
    BY <1>1 DEF OnTheWay, sent
  <1>5. ExitAnnounced'
    <2>1. ShutdownSent => ShutdownSent'
      BY <1>1 DEF ShutdownSent
    <2> QED
      BY <1>1, <2>1 DEF ExitAnnounced
  <1>6. Answered'
    BY <1>1 DEF Answered
  <1>7. WorldRight'
    BY <1>1 DEF WorldRight, TextsOf
  <1>8. DiagnosticsRight'
    BY <1>1, SettlingStays DEF DiagnosticsRight
  <1>9. NothingDroppedAtExit'
    BY <1>1 DEF NothingDroppedAtExit
  <1> QED
    BY <1>2, <1>3, <1>4, <1>5, <1>6, <1>7, <1>8, <1>9

LEMMA ClientCancelStep ==
    ASSUME IInv, NEW id \in Ids, ClientCancel(id)
    PROVE  IInv'
  <1> DEFINE msg == [kind |-> "Cancel", op |-> "Cancel", uri |-> NoId, id |-> id, n |-> 0]
  <1>1. /\ stdin' = Append(stdin, msg) /\ receiver' = receiver
        /\ cancelSent' = cancelSent \cup {id} /\ connected' = connected
        /\ ~ShutdownSent /\ sentIds[id] # 0
        /\ UNCHANGED <<taskVars, clientOpen, clientTexts, sentTexts, sentOpen, sentIds, mode,
                       worldVars, evalVars, outVars>>
    BY DEF ClientCancel, Send
  <1>2. /\ stdin \in Seq(Messages) /\ receiver \in Seq(Messages) /\ arrived \in Nat
        /\ Len(receiver) <= BufferSize /\ cancelSent \subseteq Ids /\ connected \in BOOLEAN
    BY DEF IInv, Types, TypeOK
  <1>3. msg \in Messages /\ ~Numbered(msg)
    BY DEF Messages, Numbered
  <1>4. MessageRight(msg, sentTexts, sentOpen, sentIds)
    BY <1>1 DEF MessageRight, ShutdownSent
  <1>5. msg.kind # "Exit"
    OBVIOUS
  <1> HIDE DEF msg
  <1>6. pipe \in Seq(Messages) /\ pipe' = Append(pipe, msg)
    BY <1>1, <1>2, <1>3, PipeParts DEF pipe
  <1>7. mode # "stopped" => PipeRight(pipe', arrived, sentTexts, sentOpen, sentIds)
    BY <1>2, <1>3, <1>4, <1>6, PipeSendUnnumbered DEF IInv, OnTheWay
  <1>8. mode = "serving" => \A i \in 1..Len(pipe') : pipe'[i].kind # "Exit"
    BY SMTT(30), <1>3, <1>5, <1>6 DEF IInv, ExitAnnounced
  <1>9. stdin' \in Seq(Messages)
    BY SMTT(30), <1>1, <1>2, <1>3
  <1> QED
    BY <1>1, <1>2, <1>7, <1>8, <1>9, PipeStep

LEMMA ClientExitStep ==
    ASSUME IInv, ClientExit
    PROVE  IInv'
  <1> DEFINE msg == [kind |-> "Exit", op |-> "Exit", uri |-> NoId, id |-> NoId, n |-> 0]
  <1>1. /\ stdin' = Append(stdin, msg) /\ receiver' = receiver
        /\ cancelSent' = cancelSent /\ connected' = FALSE
        /\ \E id \in Ids : Method[id] = "shutdown" /\ replies[id] # 0
        /\ UNCHANGED <<taskVars, clientOpen, clientTexts, sentTexts, sentOpen, sentIds, mode,
                       worldVars, evalVars, outVars>>
    BY DEF ClientExit
  <1>2. /\ stdin \in Seq(Messages) /\ receiver \in Seq(Messages) /\ arrived \in Nat
        /\ Len(receiver) <= BufferSize /\ cancelSent \subseteq Ids /\ connected \in BOOLEAN
    BY DEF IInv, Types, TypeOK
  <1>3. msg \in Messages /\ ~Numbered(msg)
    BY DEF Messages, Numbered
  <1>4. MessageRight(msg, sentTexts, sentOpen, sentIds)
    BY <1>1 DEF MessageRight
  <1> HIDE DEF msg
  <1>6. pipe \in Seq(Messages) /\ pipe' = Append(pipe, msg)
    BY <1>1, <1>2, <1>3, PipeParts DEF pipe
  <1>7. mode # "stopped" => PipeRight(pipe', arrived, sentTexts, sentOpen, sentIds)
    BY <1>2, <1>3, <1>4, <1>6, PipeSendUnnumbered DEF IInv, OnTheWay
  <1>8. mode # "serving"
    BY <1>1 DEF IInv, ExitAnnounced
  <1>9. stdin' \in Seq(Messages)
    BY SMTT(30), <1>1, <1>2, <1>3
  <1> QED
    BY <1>1, <1>2, <1>7, <1>8, <1>9, PipeStep

LEMMA ClientDisconnectStep ==
    ASSUME IInv, ClientDisconnect
    PROVE  IInv'
  <1>1. /\ stdin' = stdin /\ receiver' = receiver /\ pipe' = pipe
        /\ cancelSent' = cancelSent /\ connected' = FALSE
        /\ UNCHANGED <<taskVars, clientOpen, clientTexts, sentTexts, sentOpen, sentIds, mode,
                       worldVars, evalVars, outVars>>
    BY DEF ClientDisconnect, pipeVars, pipe
  <1>2. /\ stdin \in Seq(Messages) /\ receiver \in Seq(Messages)
        /\ Len(receiver) <= BufferSize /\ cancelSent \subseteq Ids
    BY DEF IInv, Types, TypeOK
  <1>3. /\ mode # "stopped" => PipeRight(pipe, arrived, sentTexts, sentOpen, sentIds)
        /\ mode = "serving" => \A i \in 1..Len(pipe) : pipe[i].kind # "Exit"
    BY DEF IInv, OnTheWay, ExitAnnounced
  <1> QED
    BY <1>1, <1>2, <1>3, PipeStep

\* The buffering thread moves a message within the pipe.
LEMMA ForwardStep ==
    ASSUME IInv, Forward
    PROVE  IInv'
  <1>1. /\ stdin # <<>> /\ Len(receiver) < BufferSize
        /\ receiver' = Append(receiver, Head(stdin)) /\ stdin' = Tail(stdin)
        /\ cancelSent' = cancelSent /\ connected' = connected
        /\ UNCHANGED <<taskVars, clientOpen, clientTexts, sentTexts, sentOpen, sentIds, mode,
                       worldVars, evalVars, outVars>>
    BY DEF Forward, clientVars
  <1>2. /\ stdin \in Seq(Messages) /\ receiver \in Seq(Messages)
        /\ cancelSent \subseteq Ids /\ connected \in BOOLEAN /\ BufferSize \in Nat
    BY NlsAssumption DEF IInv, Types, TypeOK
  <1>3. pipe' = pipe
    BY <1>1, <1>2, PipeParts DEF pipe
  <1>4. /\ stdin' \in Seq(Messages) /\ receiver' \in Seq(Messages)
        /\ Len(receiver') <= BufferSize
    BY SMTT(30), <1>1, <1>2
  <1>5. /\ mode # "stopped" => PipeRight(pipe, arrived, sentTexts, sentOpen, sentIds)
        /\ mode = "serving" => \A i \in 1..Len(pipe) : pipe[i].kind # "Exit"
    BY DEF IInv, OnTheWay, ExitAnnounced
  <1> QED
    BY <1>1, <1>2, <1>3, <1>4, <1>5, PipeStep

----------------------------------------------------------------------------
(***************************************************************************)
(* Steps of the evaluator and of the main loop.                            *)
(***************************************************************************)
\* What is appended to the queue is what was at the end of the pipe.
LEMMA ReceiveKeeps ==
    ASSUME IInv, mode = "serving", receiver # <<>>, receiver' = Tail(receiver),
           UNCHANGED <<staleDiagnostics, taken, dispatched, refused>>,
           UNCHANGED <<clientVars, stdin, mode, worldVars, evalVars, outVars>>,
           requestOrSync' \in Seq(Queue!ReqOrSync), openFiles' \subseteq Files,
           arrived' \in Nat, arrived' <= sent,
           QueueRight(requestOrSync', taken, arrived', sentTexts, sentOpen, sentIds),
           PipeRight(Tail(pipe), arrived', sentTexts, sentOpen, sentIds)
    PROVE  IInv'
  <1> USE DEF IInv
  <1>1. UNCHANGED <<staleDiagnostics, taken, dispatched, refused, clientOpen, clientTexts,
                    sentTexts, sentOpen, sentIds, cancelSent, connected, stdin, mode, docs,
                    known, analyzed, pendingEval, results, replies, shown>>
    BY DEF clientVars, worldVars, evalVars, outVars
  <1>2. /\ stdin \in Seq(Messages) /\ receiver \in Seq(Messages)
        /\ Len(receiver) <= BufferSize /\ BufferSize \in Nat
    BY NlsAssumption DEF Types, TypeOK
  <1>3. /\ pipe \in Seq(Messages) /\ pipe # <<>> /\ pipe' = Tail(pipe)
    BY SMTT(30), <1>1, <1>2, PipeParts DEF pipe
  <1>4. receiver' \in Seq(Messages) /\ Len(receiver') <= BufferSize
    BY SMTT(30), <1>2
  <1>5. Types'
    BY <1>1, <1>4 DEF Types, TypeOK
  <1>6. ClientRight'
    BY <1>1 DEF ClientRight, sent
  <1>7. OnTheWay'
    BY <1>1, <1>3 DEF OnTheWay, sent
  <1>8. ExitAnnounced'
    <2>1. \A i \in 1..Len(pipe') : pipe'[i].kind # "Exit"
      BY SMTT(30), <1>3 DEF ExitAnnounced
    <2> QED
      BY <1>1, <2>1 DEF ExitAnnounced
  <1>9. Answered'
    BY <1>1 DEF Answered
  <1>10. WorldRight'
    BY <1>1 DEF WorldRight, TextsOf
  <1>11. DiagnosticsRight'
    BY <1>1, SettlingStays DEF DiagnosticsRight
  <1>12. NothingDroppedAtExit'
    BY <1>1 DEF NothingDroppedAtExit
  <1> QED
    BY <1>5, <1>6, <1>7, <1>8, <1>9, <1>10, <1>11, <1>12

\* The message at the end of the pipe.
LEMMA NextMessage ==
    ASSUME IInv, mode = "serving", receiver # <<>>
    PROVE  LET msg == Head(receiver) IN
           /\ msg \in Messages /\ msg.kind \in {"Request", "Sync", "Cancel"}
           /\ MessageRight(msg, sentTexts, sentOpen, sentIds)
           /\ Numbered(msg) => /\ msg.n = arrived + 1 /\ arrived + 1 <= sent
                               /\ PipeRight(Tail(pipe), arrived + 1, sentTexts, sentOpen, sentIds)
           /\ ~Numbered(msg) => PipeRight(Tail(pipe), arrived, sentTexts, sentOpen, sentIds)
  <1> DEFINE msg == Head(receiver)
  <1>1. /\ stdin \in Seq(Messages) /\ receiver \in Seq(Messages) /\ arrived \in Nat
        /\ sentTexts \in Seq(Texts)
    BY DEF IInv, Types, TypeOK, Texts, Numbers
  <1>2. pipe \in Seq(Messages) /\ pipe # <<>> /\ Head(pipe) = msg
    BY <1>1, PipeParts DEF pipe
  <1>3. PipeRight(pipe, arrived, sentTexts, sentOpen, sentIds)
    BY DEF IInv, OnTheWay
  <1>4. /\ MessageRight(msg, sentTexts, sentOpen, sentIds)
        /\ Numbered(msg) => /\ msg.n = arrived + 1
                            /\ PipeRight(Tail(pipe), arrived + 1, sentTexts, sentOpen, sentIds)
        /\ ~Numbered(msg) => PipeRight(Tail(pipe), arrived, sentTexts, sentOpen, sentIds)
    BY <1>1, <1>2, <1>3, PipeReceive
  <1>5. msg \in Messages
    BY SMTT(30), <1>1
  <1>6. msg.kind # "Exit"
    <2>1. 1 \in 1..Len(pipe) /\ pipe[1] = msg
      BY SMTT(30), <1>2
    <2> QED
      BY <2>1 DEF IInv, ExitAnnounced
  <1>7. msg.kind \in {"Request", "Sync", "Cancel"}
    BY <1>5, <1>6 DEF Messages
  <1>8. Numbered(msg) => msg.n \in 1..Len(sentTexts)
    BY <1>4 DEF MessageRight, Numbered, RequestSent, SyncSent
  <1>9. Numbered(msg) => arrived + 1 <= sent
    BY SMTT(30), <1>1, <1>4, <1>8 DEF sent
  <1> QED
    BY <1>4, <1>5, <1>7, <1>9

LEMMA ReceiveMessageStep ==
    ASSUME IInv, ReceiveMessage
    PROVE  IInv' /\ Queue!Next
  <1> DEFINE msg == Head(receiver)
  <1>1. /\ mode = "serving" /\ receiver # <<>> /\ receiver' = Tail(receiver)
        /\ UNCHANGED <<clientVars, stdin, mode, worldVars, evalVars, outVars>>
    BY DEF ReceiveMessage
  <1>2. /\ msg \in Messages /\ msg.kind \in {"Request", "Sync", "Cancel"}
        /\ MessageRight(msg, sentTexts, sentOpen, sentIds)
        /\ Numbered(msg) => /\ msg.n = arrived + 1 /\ arrived + 1 <= sent
                            /\ PipeRight(Tail(pipe), arrived + 1, sentTexts, sentOpen, sentIds)
        /\ ~Numbered(msg) => PipeRight(Tail(pipe), arrived, sentTexts, sentOpen, sentIds)
    BY <1>1, NextMessage
  <1>3. /\ requestOrSync \in Seq(Queue!ReqOrSync) /\ arrived \in Nat /\ taken \in Nat
        /\ openFiles \subseteq Files /\ arrived <= sent
        /\ QueueRight(requestOrSync, taken, arrived, sentTexts, sentOpen, sentIds)
    BY DEF IInv, Types, OnTheWay
  <1>4. CASE msg.kind = "Request"
    <2> DEFINE item == [tag |-> "Request", op |-> msg.op, uri |-> msg.uri, id |-> msg.id,
                        n |-> arrived + 1]
    <2>1. Queue!QueueRequest(msg.op, msg.uri, msg.id)
      BY <1>4 DEF ReceiveMessage
    <2>2. /\ requestOrSync' = Append(requestOrSync, item) /\ arrived' = arrived + 1
          /\ UNCHANGED <<openFiles, staleDiagnostics, taken, dispatched, refused>>
      BY <2>1 DEF Queue!QueueRequest, Queue!PushBack
    <2>3. RequestSent(msg, sentTexts, sentOpen, sentIds) /\ Numbered(msg)
      BY <1>2, <1>4 DEF MessageRight, Numbered
    <2>4. /\ msg.id \in Ids /\ msg.uri \in Files /\ msg.op \in Queue!RequestOps
      BY <2>3 DEF RequestSent, Category, Queue!RequestOps
    <2>5. item \in Queue!ReqOrSync /\ item.n = arrived + 1
      BY SMTT(30), <2>4, <1>3 DEF Queue!ReqOrSync
    <2>6. RequestSent(item, sentTexts, sentOpen, sentIds)
      BY <2>3, <1>2 DEF RequestSent
    <2>7. ItemRight(item, sentTexts, sentOpen, sentIds)
      BY <2>6 DEF ItemRight
    <2> HIDE DEF item
    <2>8. QueueRight(requestOrSync', taken, arrived', sentTexts, sentOpen, sentIds)
      BY <1>3, <2>2, <2>5, <2>7, QueuePush
    <2>9. requestOrSync' \in Seq(Queue!ReqOrSync) /\ arrived' \in Nat /\ arrived' <= sent
      BY SMTT(30), <1>2, <1>3, <2>2, <2>3, <2>5
    <2>10. IInv'
      BY <1>1, <1>2, <1>3, <2>2, <2>3, <2>8, <2>9, ReceiveKeeps
    <2>11. Queue!Next
      BY <2>1, <2>4 DEF Queue!Next, Queue!QueueMessage
    <2> QED
      BY <2>10, <2>11
  <1>5. CASE msg.kind = "Sync"
    <2> DEFINE item == [tag |-> "DocumentSync", op |-> msg.op, uri |-> msg.uri, id |-> NoId,
                        n |-> arrived + 1]
    <2>1. Queue!QueueSync(msg.op, msg.uri)
      BY <1>5 DEF ReceiveMessage
    <2>2. /\ requestOrSync' = Append(requestOrSync, item) /\ arrived' = arrived + 1
          /\ UNCHANGED <<staleDiagnostics, taken, dispatched, refused>>
      BY <2>1 DEF Queue!QueueSync, Queue!PushBack
    <2>3. SyncSent(msg, sentTexts, sentOpen, sentIds) /\ Numbered(msg)
      BY <1>2, <1>5 DEF MessageRight, Numbered
    <2>4. msg.uri \in Files /\ msg.op \in Queue!SyncOps
      BY <2>3 DEF SyncSent
    <2>5. item \in Queue!ReqOrSync /\ item.n = arrived + 1
      BY SMTT(30), <2>4, <1>3 DEF Queue!ReqOrSync
    <2>6. SyncSent(item, sentTexts, sentOpen, sentIds)
      BY <2>3, <1>2 DEF SyncSent
    <2>7. ItemRight(item, sentTexts, sentOpen, sentIds)
      BY <2>6 DEF ItemRight
    <2> HIDE DEF item
    <2>8. QueueRight(requestOrSync', taken, arrived', sentTexts, sentOpen, sentIds)
      BY <1>3, <2>2, <2>5, <2>7, QueuePush
    <2>9. requestOrSync' \in Seq(Queue!ReqOrSync) /\ arrived' \in Nat /\ arrived' <= sent
      BY SMTT(30), <1>2, <1>3, <2>2, <2>3, <2>5
    <2>10. openFiles' \subseteq Files
      BY <1>3, <2>1, <2>4 DEF Queue!QueueSync, Queue!SyncOps
    <2>11. IInv'
      BY <1>1, <1>2, <2>2, <2>3, <2>8, <2>9, <2>10, ReceiveKeeps
    <2>12. Queue!Next
      BY <2>1, <2>4 DEF Queue!Next, Queue!QueueMessage
    <2> QED
      BY <2>11, <2>12
  <1>6. CASE msg.kind = "Cancel"
    <2>1. Queue!QueueCancel(msg.id)
      BY <1>6 DEF ReceiveMessage
    <2>2. msg.id \in Ids /\ Method[msg.id] # "shutdown" /\ ~Numbered(msg)
      BY <1>2, <1>6 DEF MessageRight, Numbered
    <2>3. UNCHANGED <<openFiles, staleDiagnostics, arrived, taken, dispatched, refused>>
      BY <2>1 DEF Queue!QueueCancel
    <2>4. requestOrSync' =
            [i \in DOMAIN requestOrSync |->
               IF requestOrSync[i].tag = "Request" /\ requestOrSync[i].id = msg.id
               THEN [requestOrSync[i] EXCEPT !.tag = "CanceledRequest"]
               ELSE requestOrSync[i]]
      BY <2>1 DEF Queue!QueueCancel
    <2>5. /\ requestOrSync' \in Seq(Queue!ReqOrSync)
          /\ QueueRight(requestOrSync', taken, arrived, sentTexts, sentOpen, sentIds)
      BY SMTT(30), <1>3, <2>2, <2>4, QueueCanceled
    <2>6. IInv'
      BY <1>1, <1>2, <1>3, <2>2, <2>3, <2>5, ReceiveKeeps
    <2>7. Queue!Next
      BY <2>1, <2>2 DEF Queue!Next, Queue!QueueMessage
    <2> QED
      BY <2>6, <2>7
  <1> QED
    BY <1>2, <1>4, <1>5, <1>6

\* An analysis of the texts that the server has is one.
LEMMA TextsOfType ==
    ASSUME IInv, NEW f \in Files
    PROVE  /\ TextsOf(f) \in [Deps[f] -> Numbers] /\ TextsOf(f) # NoTexts
           /\ Deps[f] \subseteq Files /\ f \in Deps[f]
  <1>1. docs \in [Files -> Numbers] /\ Deps[f] \subseteq Files
    BY NlsAssumption DEF IInv, Types, TypeOK, Numbers
  <1>2. TextsOf(f) \in [Deps[f] -> Numbers]
    BY <1>1 DEF TextsOf
  <1>3. TextsOf(f) \in [Deps[f] -> Nat]
    BY SMTT(30), <1>2, NlsAssumption DEF Numbers
  <1> QED
    BY <1>1, <1>2, <1>3, NlsAssumption

\* The parts of the invariant that speak of the client, the pipe and the
\* queue only.
LEMMA QueueSideStays ==
    ASSUME IInv,
           UNCHANGED <<requestOrSync, arrived, taken, dispatched, refused, clientVars, pipeVars,
                       mode, replies>>
    PROVE  ClientRight' /\ OnTheWay' /\ ExitAnnounced' /\ Answered' /\ NothingDroppedAtExit'
  <1> USE DEF IInv, clientVars, pipeVars
  <1>1. ClientRight'
    BY DEF ClientRight, sent
  <1>2. OnTheWay'
    BY DEF OnTheWay, sent, pipe
  <1>3. ExitAnnounced'
    BY DEF ExitAnnounced, pipe, ShutdownSent
  <1>4. Answered'
    BY DEF Answered
  <1>5. NothingDroppedAtExit'
    BY DEF NothingDroppedAtExit
  <1> QED
    BY <1>1, <1>2, <1>3, <1>4, <1>5

LEMMA EvaluateStep ==
    ASSUME IInv, NEW f \in Files, Evaluate(f)
    PROVE  IInv'
  <1> DEFINE res == [uri |-> f, texts |-> pendingEval[f]]
  <1>1. /\ pendingEval[f] # NoTexts
        /\ results' = Append(results, res)
        /\ pendingEval' = [pendingEval EXCEPT ![f] = NoTexts]
        /\ UNCHANGED <<requestOrSync, openFiles, staleDiagnostics, arrived, taken, withdrawn,
                       dispatched, refused, clientOpen, clientTexts, sentTexts, sentOpen,
                       sentIds, cancelSent, connected, stdin, receiver, mode, docs, known,
                       analyzed, replies, shown>>
    BY DEF Evaluate, taskVars, clientVars, pipeVars, worldVars, outVars
  <1>2. ClientRight' /\ OnTheWay' /\ ExitAnnounced' /\ Answered' /\ NothingDroppedAtExit'
    BY <1>1, QueueSideStays DEF clientVars, pipeVars
  <1>3. pendingEval[f] \in [Deps[f] -> Numbers]
    BY <1>1 DEF IInv, Types, TypeOK, Numbers
  <1>4. res \in Results /\ res.uri = f /\ res.texts = pendingEval[f]
    BY <1>3 DEF Results, AnyTexts
  <1> HIDE DEF res
  <1>5. results \in Seq(Results) /\ results' \in Seq(Results) /\ DOMAIN pendingEval = Files
    BY SMTT(30), <1>1, <1>4 DEF IInv, Types
  <1>6. Types'
    <2>1. \A g \in Files : pendingEval'[g] \in {pendingEval[g], NoTexts}
      BY <1>1, <1>5
    <2>2. DOMAIN pendingEval' = Files
      BY <1>1, <1>5
    <2> QED
      BY SMTT(30), <1>1, <1>5, <2>1, <2>2 DEF IInv, Types, TypeOK
  <1>7. WorldRight'
    BY <1>1 DEF IInv, WorldRight, TextsOf
  <1>8. ASSUME NEW g \in Files, Settling(g)
        PROVE  Settling(g)'
    <2>1. TextsOf(g)' = TextsOf(g)
      BY <1>1 DEF TextsOf
    <2>2. /\ Len(results') = Len(results) + 1 /\ Len(results) \in Nat
          /\ results'[Len(results) + 1] = res
          /\ \A i \in 1..Len(results) : results'[i] = results[i]
      BY SMTT(30), <1>1, <1>4, <1>5
    <2>3. \A i \in 1..Len(results') : i \in 1..Len(results) \/ i = Len(results) + 1
      BY SMTT(30), <2>2
    <2>4. CASE g = f
      <3>1. pendingEval[f] = TextsOf(f)
        BY <1>1, <1>8, <2>4 DEF Settling
      <3>2. pendingEval'[f] = NoTexts
        BY <1>1, <1>5
      <3>3. /\ Len(results) + 1 \in 1..Len(results')
            /\ \A j \in 1..Len(results') : ~(j > Len(results) + 1)
        BY SMTT(30), <2>2
      <3> QED
        BY <1>4, <2>1, <2>2, <2>4, <3>1, <3>2, <3>3 DEF Settling
    <2>5. CASE g # f
      <3>1. pendingEval'[g] = pendingEval[g] /\ shown'[g] = shown[g] /\ res.uri # g
        BY <1>1, <1>4, <1>5, <2>5
      <3>2. 1..Len(results) \subseteq 1..Len(results')
        BY SMTT(30), <2>2
      <3>3. CASE pendingEval[g] = TextsOf(g)
        BY <3>3, <2>1, <3>1 DEF Settling
      <3>4. CASE /\ pendingEval[g] = NoTexts
                 /\ \E i \in 1..Len(results) :
                      /\ results[i].uri = g /\ results[i].texts = TextsOf(g)
                      /\ \A j \in 1..Len(results) : j > i => results[j].uri # g
        <4>1. PICK i \in 1..Len(results) :
                      /\ results[i].uri = g /\ results[i].texts = TextsOf(g)
                      /\ \A j \in 1..Len(results) : j > i => results[j].uri # g
          BY <3>4
        <4>2. \A j \in 1..Len(results') : j > i => results'[j].uri # g
          BY <4>1, <2>2, <2>3, <3>1
        <4> QED
          BY <3>1, <3>2, <3>4, <4>1, <4>2, <2>1, <2>2 DEF Settling
      <3>5. CASE /\ pendingEval[g] = NoTexts
                 /\ \A i \in 1..Len(results) : results[i].uri # g
                 /\ shown[g] = TextsOf(g)
        <4>1. \A i \in 1..Len(results') : results'[i].uri # g
          BY <3>5, <2>2, <2>3, <3>1
        <4> QED
          BY <3>1, <3>5, <4>1, <2>1 DEF Settling
      <3> QED
        BY <1>8, <3>3, <3>4, <3>5 DEF Settling
    <2> QED
      BY <2>4, <2>5
  <1>9. DiagnosticsRight'
    <2>1. OpenAt(taken, sentOpen) \subseteq Files
      BY DEF IInv, WorldRight, Types, TypeOK
    <2> QED
      BY <1>1, <1>8, <2>1 DEF IInv, DiagnosticsRight
  <1> QED
    BY <1>2, <1>6, <1>7, <1>9 DEF IInv

LEMMA PublishStep ==
    ASSUME IInv, PublishBackgroundDiagnostics
    PROVE  IInv'
  <1> DEFINE res == Head(results)
  <1>1. /\ results # <<>>
        /\ results' = Tail(results)
        /\ shown' = [shown EXCEPT ![res.uri] = res.texts]
        /\ UNCHANGED <<requestOrSync, openFiles, staleDiagnostics, arrived, taken, withdrawn,
                       dispatched, refused, clientOpen, clientTexts, sentTexts, sentOpen,
                       sentIds, cancelSent, connected, stdin, receiver, mode, docs, known,
                       analyzed, pendingEval, replies>>
    BY DEF PublishBackgroundDiagnostics, taskVars, clientVars, pipeVars, worldVars
  <1>2. ClientRight' /\ OnTheWay' /\ ExitAnnounced' /\ Answered' /\ NothingDroppedAtExit'
    BY <1>1, QueueSideStays DEF clientVars, pipeVars
  <1>3. /\ results \in Seq(Results) /\ DOMAIN shown = Files
    BY DEF IInv, Types
  <1>4. res \in Results /\ res = results[1] /\ results' \in Seq(Results)
    BY SMTT(30), <1>1, <1>3
  <1>5. res.uri \in Files /\ res.texts \in [Deps[res.uri] -> Numbers]
    BY <1>4 DEF Results
  <1>6. Types'
    <2>1. \A g \in Files : shown'[g] = shown[g] \/ shown'[g] \in [Deps[g] -> Numbers]
      BY <1>1, <1>3, <1>5
    <2>2. DOMAIN shown' = Files
      BY <1>1, <1>3
    <2> QED
      BY SMTT(30), <1>1, <1>4, <2>1, <2>2 DEF IInv, Types, TypeOK, Numbers
  <1>7. WorldRight'
    BY <1>1 DEF IInv, WorldRight, TextsOf
  <1>8. ASSUME NEW g \in Files, Settling(g)
        PROVE  Settling(g)'
    <2>1. TextsOf(g)' = TextsOf(g) /\ pendingEval'[g] = pendingEval[g]
      BY <1>1 DEF TextsOf
    <2>2. /\ Len(results') = Len(results) - 1 /\ Len(results) \in Nat \ {0}
          /\ \A i \in 1..Len(results') : i + 1 \in 1..Len(results) /\ results'[i] = results[i + 1]
          /\ \A i \in 1..Len(results) :
               i # 1 => i - 1 \in 1..Len(results') /\ results'[i - 1] = results[i]
      BY SMTT(30), <1>1, <1>3
    <2>3. CASE pendingEval[g] = TextsOf(g)
      BY <2>1, <2>3 DEF Settling
    <2>4. CASE /\ pendingEval[g] = NoTexts
               /\ \E i \in 1..Len(results) :
                    /\ results[i].uri = g /\ results[i].texts = TextsOf(g)
                    /\ \A j \in 1..Len(results) : j > i => results[j].uri # g
      <3>1. PICK i \in 1..Len(results) :
                    /\ results[i].uri = g /\ results[i].texts = TextsOf(g)
                    /\ \A j \in 1..Len(results) : j > i => results[j].uri # g
        BY <2>4
      <3>2. CASE i = 1
        <4>1. shown'[g] = TextsOf(g)
          BY <1>1, <1>3, <1>4, <3>1, <3>2
        <4>2. \A j \in 1..Len(results') : results'[j].uri # g
          <5> SUFFICES ASSUME NEW j \in 1..Len(results') PROVE results'[j].uri # g
            OBVIOUS
          <5>1. j + 1 \in 1..Len(results) /\ results'[j] = results[j + 1] /\ j + 1 > i
            BY SMTT(30), <2>2, <3>2
          <5> QED
            BY <5>1, <3>1
        <4> QED
          BY <2>1, <2>4, <4>1, <4>2 DEF Settling
      <3>3. CASE i # 1
        <4>1. i - 1 \in 1..Len(results') /\ results'[i - 1] = results[i]
          BY <2>2, <3>3
        <4>2. ASSUME NEW j \in 1..Len(results'), j > i - 1 PROVE results'[j].uri # g
          <5>1. j + 1 \in 1..Len(results) /\ results'[j] = results[j + 1] /\ j + 1 > i
            BY SMTT(30), <2>2, <4>2
          <5> QED
            BY <5>1, <3>1
        <4> QED
          BY <2>1, <2>4, <3>1, <4>1, <4>2 DEF Settling
      <3> QED
        BY <3>2, <3>3
    <2>5. CASE /\ pendingEval[g] = NoTexts
               /\ \A i \in 1..Len(results) : results[i].uri # g
               /\ shown[g] = TextsOf(g)
      <3>1. res.uri # g
        BY SMTT(30), <1>4, <2>2, <2>5
      <3>2. shown'[g] = shown[g]
        BY <1>1, <1>3, <3>1
      <3>3. \A i \in 1..Len(results') : results'[i].uri # g
        BY <2>2, <2>5
      <3> QED
        BY <2>1, <2>5, <3>2, <3>3 DEF Settling
    <2> QED
      BY <1>8, <2>3, <2>4, <2>5 DEF Settling
  <1>9. DiagnosticsRight'
    <2>1. OpenAt(taken, sentOpen) \subseteq Files
      BY DEF IInv, WorldRight, Types, TypeOK
    <2> QED
      BY <1>1, <1>8, <2>1 DEF IInv, DiagnosticsRight
  <1> QED
    BY <1>2, <1>6, <1>7, <1>9 DEF IInv

(***************************************************************************)
(* An analysis of f and of what it imports, as diagnostics and the eval    *)
(* command make one.                                                       *)
(***************************************************************************)
Analyzes(f) ==
    IF f \in known
    THEN /\ known' = known \cup (Deps[f] \cap OnDisk)
         /\ analyzed' = [g \in Files |-> IF g \in Deps[f] \cap known'
                                         THEN TextsOf(g) ELSE analyzed[g]]
    ELSE UNCHANGED <<known, analyzed>>

LEMMA AnalysisRight ==
    ASSUME IInv, NEW f \in Files, Analyzes(f), docs' = docs,
           staleDiagnostics' = staleDiagnostics \ {f}
    PROVE  /\ known' \subseteq Files /\ known \subseteq known'
           /\ DOMAIN analyzed' = Files
           /\ \A g \in Files : analyzed'[g] \in [Deps[g] -> Numbers] \cup {NoTexts}
           /\ \A g \in known' : g \in staleDiagnostics' \/ analyzed'[g] = TextsOf(g)'
           /\ \A g \in Files \ known' : analyzed'[g] = NoTexts
           /\ f \in known => analyzed'[f] = TextsOf(f)
  <1>1. /\ known \subseteq Files /\ DOMAIN analyzed = Files
        /\ \A g \in Files : analyzed[g] \in [Deps[g] -> Numbers] \cup {NoTexts}
        /\ OnDisk \subseteq Files
    BY NlsAssumption DEF IInv, Types, TypeOK, Numbers
  <1>2. /\ \A g \in known : g \in staleDiagnostics \/ analyzed[g] = TextsOf(g)
        /\ \A g \in Files \ known : analyzed[g] = NoTexts
    BY DEF IInv, WorldRight
  <1>3. \A g : TextsOf(g)' = TextsOf(g)
    BY DEF TextsOf
  <1>4. \A g \in Files : TextsOf(g) \in [Deps[g] -> Numbers] /\ g \in Deps[g]
    BY TextsOfType
  <1> QED
    <2>1. CASE f \in known
      <3>1. /\ known' = known \cup (Deps[f] \cap OnDisk)
            /\ analyzed' = [g \in Files |-> IF g \in Deps[f] \cap known'
                                            THEN TextsOf(g) ELSE analyzed[g]]
        BY <2>1 DEF Analyzes
      <3>2. /\ known' \subseteq Files /\ known \subseteq known' /\ DOMAIN analyzed' = Files
        BY <3>1, <1>1
      <3>3. \A g \in Files : analyzed'[g] = IF g \in Deps[f] \cap known'
                                            THEN TextsOf(g) ELSE analyzed[g]
        BY <3>1
      <3>4. \A g \in Files : analyzed'[g] \in [Deps[g] -> Numbers] \cup {NoTexts}
        BY <3>3, <1>1, <1>4
      <3>5. \A g \in known' : g \in staleDiagnostics' \/ analyzed'[g] = TextsOf(g)'
        BY <3>1, <3>2, <3>3, <1>2, <1>3, <1>4
      <3>6. \A g \in Files \ known' : analyzed'[g] = NoTexts
        BY <3>2, <3>3, <1>2
      <3>7. analyzed'[f] = TextsOf(f)
        BY <2>1, <3>2, <3>3, <1>4
      <3> QED
        BY <3>2, <3>4, <3>5, <3>6, <3>7
    <2>2. CASE f \notin known
      <3>1. known' = known /\ analyzed' = analyzed
        BY <2>2 DEF Analyzes
      <3> QED
        BY <2>2, <3>1, <1>1, <1>2, <1>3
    <2> QED
      BY <2>1, <2>2

\* run_diagnostics_on_file: what is shown at last is what is analysed now.
LEMMA DiagnosticsKeep ==
    ASSUME IInv, NEW f \in Files, RunDiagnosticsOnFile(f), results = <<>>,
           staleDiagnostics' = staleDiagnostics \ {f},
           UNCHANGED <<requestOrSync, openFiles, arrived, taken, withdrawn, dispatched, refused>>,
           UNCHANGED <<clientVars, pipeVars, mode, docs, results, replies>>
    PROVE  IInv'
  <1>1. ClientRight' /\ OnTheWay' /\ ExitAnnounced' /\ Answered' /\ NothingDroppedAtExit'
    BY QueueSideStays
  <1>2. UNCHANGED <<clientOpen, clientTexts, sentTexts, sentOpen, sentIds, cancelSent,
                    connected, stdin, receiver>>
    BY DEF clientVars, pipeVars
  <1>3. Analyzes(f)
    BY DEF Analyzes, RunDiagnosticsOnFile
  <1>4. /\ known' \subseteq Files /\ known \subseteq known'
        /\ DOMAIN analyzed' = Files
        /\ \A g \in Files : analyzed'[g] \in [Deps[g] -> Numbers] \cup {NoTexts}
        /\ \A g \in known' : g \in staleDiagnostics' \/ analyzed'[g] = TextsOf(g)'
        /\ \A g \in Files \ known' : analyzed'[g] = NoTexts
    BY <1>3, AnalysisRight
  <1>5. /\ DOMAIN shown = Files /\ DOMAIN pendingEval = Files
        /\ TextsOf(f) \in [Deps[f] -> Numbers]
        /\ \A g \in Files : {shown[g], pendingEval[g]} \subseteq [Deps[g] -> Numbers] \cup {NoTexts}
    BY TextsOfType DEF IInv, Types, TypeOK, Numbers
  <1>6. /\ DOMAIN shown' = Files /\ DOMAIN pendingEval' = Files
        /\ f \in known => shown'[f] = TextsOf(f) /\ pendingEval'[f] = TextsOf(f)
        /\ f \notin known => shown'[f] = shown[f] /\ pendingEval'[f] = pendingEval[f]
        /\ \A g \in Files \ {f} : shown'[g] = shown[g] /\ pendingEval'[g] = pendingEval[g]
    BY <1>5 DEF RunDiagnosticsOnFile
  <1>7. \A g \in Files : {shown'[g], pendingEval'[g]} \subseteq [Deps[g] -> Numbers] \cup {NoTexts}
    BY <1>5, <1>6
  <1>8. Types'
    BY <1>2, <1>4, <1>6, <1>7 DEF IInv, Types, TypeOK, Numbers
  <1>9. WorldRight'
    BY <1>2, <1>4 DEF IInv, WorldRight
  <1>10. DiagnosticsRight'
    <2>1. OpenAt(taken, sentOpen) \subseteq known /\ known \subseteq Files
      BY DEF IInv, WorldRight, Types, TypeOK
    <2>2. ASSUME NEW g \in OpenAt(taken, sentOpen), g \in staleDiagnostics \/ Settling(g)
          PROVE  g \in staleDiagnostics' \/ Settling(g)'
      <3>1. TextsOf(g)' = TextsOf(g)
        BY DEF TextsOf
      <3>2. CASE g = f
        BY <2>1, <3>1, <3>2, <1>6 DEF Settling
      <3>3. CASE g # f
        BY SMTT(30), <2>1, <2>2, <3>1, <3>3, <1>6 DEF Settling
      <3> QED
        BY <3>2, <3>3
    <2> QED
      BY <1>2, <2>2 DEF IInv, DiagnosticsRight
  <1> QED
    BY <1>1, <1>8, <1>9, <1>10 DEF IInv

LEMMA FrontFacts ==
    ASSUME IInv, requestOrSync # <<>>
    PROVE  /\ Front \in Queue!ReqOrSync /\ Queue!Front = Front
           /\ Front.n = taken + 1 /\ taken + 1 <= arrived
           /\ ItemRight(Front, sentTexts, sentOpen, sentIds)
           /\ Tail(requestOrSync) \in Seq(Queue!ReqOrSync)
           /\ QueueRight(Tail(requestOrSync), taken + 1, arrived, sentTexts, sentOpen, sentIds)
           /\ Front.uri \in Files
  <1>1. /\ requestOrSync \in Seq(Queue!ReqOrSync) /\ arrived \in Nat /\ taken \in Nat
        /\ QueueRight(requestOrSync, taken, arrived, sentTexts, sentOpen, sentIds)
    BY DEF IInv, Types, OnTheWay
  <1>2. /\ Front \in Queue!ReqOrSync /\ Queue!Front = Front
        /\ Front.n = taken + 1 /\ taken + 1 <= arrived
        /\ ItemRight(Front, sentTexts, sentOpen, sentIds)
        /\ Tail(requestOrSync) \in Seq(Queue!ReqOrSync)
        /\ QueueRight(Tail(requestOrSync), taken + 1, arrived, sentTexts, sentOpen, sentIds)
    BY <1>1, QueuePop DEF Front, Queue!Front
  <1>3. Front.uri \in Files
    BY <1>2 DEF Queue!ReqOrSync
  <1> QED
    BY <1>2, <1>3

LEMMA DiagnosticsTaskStep ==
    ASSUME IInv, DiagnosticsTask
    PROVE  IInv' /\ Queue!Next
  <1>1. /\ results = <<>>
        /\ UNCHANGED <<clientVars, pipeVars, mode, docs, results, replies>>
    BY DEF DiagnosticsTask, CanTakeTask
  <1>2. CASE Queue!DiagnosticsForRequest /\ RunDiagnosticsOnFile(Front.uri)
    <2>1. requestOrSync # <<>>
      BY <1>2 DEF Queue!DiagnosticsForRequest, Queue!FrontIs
    <2>2. Front.uri \in Files /\ Queue!Front = Front
      BY <2>1, FrontFacts
    <2>3. /\ staleDiagnostics' = staleDiagnostics \ {Front.uri}
          /\ UNCHANGED <<requestOrSync, openFiles, arrived, taken, withdrawn, dispatched, refused>>
      BY <1>2, <2>2 DEF Queue!DiagnosticsForRequest
    <2>4. IInv'
      BY <1>1, <1>2, <2>2, <2>3, DiagnosticsKeep
    <2>5. Queue!Next
      BY <1>2 DEF Queue!Next, Queue!NextTask
    <2> QED
      BY <2>4, <2>5
  <1>3. ASSUME NEW f \in Files, Queue!NextDiagnostic(f), RunDiagnosticsOnFile(f)
        PROVE  IInv' /\ Queue!Next
    <2>1. /\ staleDiagnostics' = staleDiagnostics \ {f}
          /\ UNCHANGED <<requestOrSync, openFiles, arrived, taken, withdrawn, dispatched, refused>>
      BY <1>3 DEF Queue!NextDiagnostic
    <2>2. IInv'
      BY <1>1, <1>3, <2>1, DiagnosticsKeep
    <2>3. Queue!Next
      BY <1>3 DEF Queue!Next, Queue!NextTask
    <2> QED
      BY <2>2, <2>3
  <1> QED
    BY <1>2, <1>3 DEF DiagnosticsTask

(***************************************************************************)
(* Taking a message for good.                                              *)
(***************************************************************************)
\* What does not depend on which message it was.
LEMMA TakenKeeps ==
    ASSUME IInv, requestOrSync # <<>>,
           requestOrSync' = Tail(requestOrSync), taken' = Front.n,
           UNCHANGED <<openFiles, arrived, clientVars, pipeVars>>
    PROVE  /\ ClientRight'
           /\ arrived' <= sent'
           /\ QueueRight(requestOrSync', taken', arrived', sentTexts', sentOpen', sentIds')
           /\ PipeRight(pipe, arrived, sentTexts, sentOpen, sentIds)
                => PipeRight(pipe', arrived', sentTexts', sentOpen', sentIds')
           /\ requestOrSync' \in Seq(Queue!ReqOrSync)
           /\ taken' = taken + 1 /\ taken' \in 1..sent /\ taken' - 1 = taken
           /\ pipe' = pipe
  <1>1. UNCHANGED <<clientOpen, clientTexts, sentTexts, sentOpen, sentIds, cancelSent,
                    connected, stdin, receiver, arrived>>
    BY DEF clientVars, pipeVars
  <1>2. /\ Front.n = taken + 1 /\ taken + 1 <= arrived
        /\ Tail(requestOrSync) \in Seq(Queue!ReqOrSync)
        /\ QueueRight(Tail(requestOrSync), taken + 1, arrived, sentTexts, sentOpen, sentIds)
    BY FrontFacts
  <1>3. /\ taken \in Nat /\ arrived \in Nat /\ sent \in Nat /\ arrived <= sent
    BY SentIsNat DEF IInv, Types, OnTheWay
  <1>4. ClientRight'
    BY <1>1 DEF IInv, ClientRight, sent
  <1>5. sent' = sent /\ pipe' = pipe
    BY <1>1 DEF sent, pipe
  <1>6. taken' = taken + 1 /\ taken' \in 1..sent /\ taken' - 1 = taken
    BY SMTT(30), <1>2, <1>3
  <1>7. QueueRight(requestOrSync', taken', arrived', sentTexts', sentOpen', sentIds')
    BY <1>1, <1>2, <1>6
  <1> QED
    BY <1>1, <1>2, <1>3, <1>4, <1>5, <1>6, <1>7

LEMMA HandleDocumentSyncStep ==
    ASSUME IInv, HandleDocumentSync
    PROVE  IInv' /\ Queue!Next
  <1> DEFINE f == Front.uri
             exists == Front.op # "Close" \/ f \in OnDisk
             marked == Invalid(f) \cup (IF exists THEN {f} ELSE {})
  <1>1. /\ requestOrSync # <<>> /\ mode = "serving" /\ Queue!Front.tag = "DocumentSync"
        /\ Queue!TakeSync(marked)
        /\ docs' = [docs EXCEPT ![f] = Front.n]
        /\ known' = IF exists THEN known \cup {f} ELSE known \ {f}
        /\ analyzed' = [analyzed EXCEPT ![f] = NoTexts]
        /\ shown' = IF exists THEN shown ELSE [shown EXCEPT ![f] = NoTexts]
        /\ UNCHANGED <<clientVars, pipeVars, mode, evalVars, replies>>
    BY DEF HandleDocumentSync, Queue!FrontIs, CanTakeTask
  <1>2. /\ Front \in Queue!ReqOrSync /\ Queue!Front = Front
        /\ Front.n = taken + 1 /\ taken + 1 <= arrived
        /\ ItemRight(Front, sentTexts, sentOpen, sentIds)
        /\ f \in Files
    BY <1>1, FrontFacts
  <1>3. /\ requestOrSync' = Tail(requestOrSync) /\ taken' = Front.n
        /\ staleDiagnostics' = staleDiagnostics \cup marked
        /\ UNCHANGED <<openFiles, arrived, withdrawn, dispatched, refused>>
    BY <1>1, <1>2 DEF Queue!TakeSync, Queue!PopFront
  <1>4. /\ ClientRight'
        /\ arrived' <= sent'
        /\ QueueRight(requestOrSync', taken', arrived', sentTexts', sentOpen', sentIds')
        /\ PipeRight(pipe, arrived, sentTexts, sentOpen, sentIds)
             => PipeRight(pipe', arrived', sentTexts', sentOpen', sentIds')
        /\ requestOrSync' \in Seq(Queue!ReqOrSync)
        /\ taken' = taken + 1 /\ taken' \in 1..sent /\ taken' - 1 = taken
        /\ pipe' = pipe
    BY <1>1, <1>3, TakenKeeps
  <1>5. UNCHANGED <<clientOpen, clientTexts, sentTexts, sentOpen, sentIds, cancelSent,
                    connected, stdin, receiver, pendingEval, results, replies, mode, arrived>>
    BY <1>1, <1>3 DEF clientVars, pipeVars, evalVars
  <1>6. SyncSent(Front, sentTexts, sentOpen, sentIds)
    BY <1>1, <1>2 DEF ItemRight
  <1>7. /\ Front.op \in Queue!SyncOps
        /\ \A id \in Ids : sentIds[id] # taken + 1
        /\ sentTexts[taken + 1] = [TextsAt(taken, sentTexts) EXCEPT ![f] = taken + 1]
        /\ sentOpen[taken + 1] = OpenAfter(Front.op, f, OpenAt(taken, sentOpen))
    BY <1>2, <1>3, <1>4, <1>6 DEF SyncSent
  <1>8. /\ taken \in Nat /\ docs \in Texts /\ known \subseteq Files
        /\ DOMAIN analyzed = Files /\ DOMAIN shown = Files
        /\ staleDiagnostics \subseteq Files /\ sentTexts \in Seq(Texts)
        /\ sentIds \in [Ids -> Numbers]
        /\ \A g \in Files : {analyzed[g], shown[g]} \subseteq [Deps[g] -> Numbers] \cup {NoTexts}
    BY DEF IInv, Types, TypeOK, Texts, Numbers
  <1>9. /\ docs = TextsAt(taken, sentTexts)
        /\ OpenAt(taken, sentOpen) \subseteq known
        /\ \A g \in known : g \in staleDiagnostics \/ analyzed[g] = TextsOf(g)
        /\ \A g \in Files \ known : analyzed[g] = NoTexts
    BY DEF IInv, WorldRight
  <1>10. marked \subseteq Files
    BY <1>2 DEF Invalid
  <1>11. docs' = TextsAt(taken', sentTexts') /\ docs' \in Texts
    <2>1. docs' = sentTexts[taken + 1]
      BY <1>1, <1>2, <1>7, <1>9
    <2>2. taken + 1 \in 1..Len(sentTexts)
      BY <1>4 DEF sent
    <2>3. sentTexts[taken + 1] \in Texts
      BY SMTT(30), <1>8, <2>2
    <2>4. taken' = taken + 1 /\ taken \in Nat
      BY <1>4, <1>8
    <2>5. taken' # 0
      BY SMT, <2>4
    <2> QED
      BY <1>5, <2>1, <2>3, <2>4, <2>5 DEF TextsAt
  <1>12. OpenAt(taken', sentOpen') = OpenAfter(Front.op, f, OpenAt(taken, sentOpen))
    BY SMTT(30), <1>4, <1>5, <1>7, <1>8 DEF OpenAt
  <1>13. /\ \A g \in Files : g # f => /\ analyzed'[g] = analyzed[g] /\ shown'[g] = shown[g]
                                      /\ g \in known' <=> g \in known
         /\ analyzed'[f] = NoTexts /\ DOMAIN analyzed' = Files /\ DOMAIN shown' = Files
         /\ shown'[f] = shown[f] \/ shown'[f] = NoTexts
         /\ f \in known' <=> exists
    BY <1>1, <1>2, <1>8
  <1>14. known' \subseteq Files
    BY <1>1, <1>2, <1>8
  <1>15. \A g \in Files : f \notin Deps[g] => TextsOf(g)' = TextsOf(g)
    BY <1>1, <1>2, <1>8, NlsAssumption DEF TextsOf, Texts
  <1>16. ASSUME NEW g \in known, g # f, f \in Deps[g]
         PROVE  g \in staleDiagnostics'
    <2>1. g \in Files
      BY <1>8
    <2>2. CASE g \in staleDiagnostics
      BY <2>2, <1>3
    <2>3. CASE analyzed[g] = TextsOf(g)
      <3>1. analyzed[g] # NoTexts
        BY <2>1, <2>3, TextsOfType
      <3>2. g \in Invalid(f)
        BY <1>16, <2>1, <3>1 DEF Invalid
      <3> QED
        BY <3>2, <1>3
    <2> QED
      BY <2>2, <2>3, <1>9
  <1>17. exists => f \in staleDiagnostics'
    BY <1>3
  <1> HIDE DEF f, exists, marked
  <1>18. Types'
    <2>1. ASSUME NEW g \in Files
          PROVE  {analyzed'[g], shown'[g]} \subseteq [Deps[g] -> Numbers] \cup {NoTexts}
      <3>1. {analyzed[g], shown[g]} \subseteq [Deps[g] -> Numbers] \cup {NoTexts}
        BY <1>8
      <3>2. analyzed'[g] \in {analyzed[g], NoTexts} /\ shown'[g] \in {shown[g], NoTexts}
        BY <1>13
      <3> QED
        BY SMT, <3>1, <3>2
    <2>2. staleDiagnostics' \subseteq Files
      BY <1>3, <1>8, <1>10
    <2>3. taken' \in Nat
      <3>1. taken' = taken + 1 /\ taken \in Nat
        BY <1>4, <1>8
      <3> QED
        BY SMT, <3>1
    <2>4. docs' \in [Files -> 0..MaxMsgs]
      BY <1>11 DEF Texts, Numbers
    <2>5. \A g \in Files : {analyzed'[g], shown'[g], pendingEval'[g]} \subseteq
                               [Deps[g] -> 0..MaxMsgs] \cup {NoTexts}
      BY <1>5, <2>1 DEF IInv, Types, TypeOK, Numbers
    <2>6. TypeOK'
      BY <1>5, <1>14, <2>4, <2>5 DEF IInv, Types, TypeOK
    <2> QED
      BY <1>3, <1>4, <1>5, <1>13, <2>2, <2>3, <2>6 DEF IInv, Types
  <1>19. OnTheWay'
    BY <1>1, <1>4, <1>5 DEF IInv, OnTheWay
  <1>20. ExitAnnounced'
    BY <1>1, <1>4, <1>5 DEF IInv, ExitAnnounced, ShutdownSent
  <1>21. Answered'
    <2>1. \A id \in Ids : sentIds[id] \in 1..taken' <=> sentIds[id] \in 1..taken
      <3>1. /\ taken' = taken + 1 /\ taken \in Nat
            /\ \A id \in Ids : sentIds[id] # taken + 1
        BY <1>4, <1>7, <1>8
      <3> QED
        BY SMT, <3>1, IdNumbers
    <2> QED
      BY <1>3, <1>5, <2>1 DEF IInv, Answered
  <1>22. WorldRight'
    <2>1. OpenAt(taken', sentOpen') \subseteq known'
      <3> SUFFICES ASSUME NEW g \in OpenAt(taken', sentOpen') PROVE g \in known'
        OBVIOUS
      <3>1. CASE g = f
        <4>1. Front.op # "Close"
          BY <1>12, <3>1, <1>7 DEF OpenAfter, Queue!SyncOps
        <4> QED
          BY <3>1, <4>1, <1>13 DEF exists
      <3>2. CASE g # f
        <4>1. g \in OpenAt(taken, sentOpen)
          BY <1>12, <3>2, <1>7 DEF OpenAfter, Queue!SyncOps
        <4> QED
          BY <3>2, <4>1, <1>8, <1>9, <1>13
      <3> QED
        BY <3>1, <3>2
    <2>2. ASSUME NEW g \in known'
          PROVE  g \in staleDiagnostics' \/ analyzed'[g] = TextsOf(g)'
      <3>1. CASE g = f
        BY <2>2, <3>1, <1>13, <1>17
      <3>2. CASE g # f
        <4>1. g \in Files /\ g \in known /\ analyzed'[g] = analyzed[g]
          BY <2>2, <3>2, <1>13, <1>14
        <4>2. CASE f \in Deps[g]
          BY <3>2, <4>1, <4>2, <1>16
        <4>3. CASE f \notin Deps[g]
          BY <4>1, <4>3, <1>3, <1>9, <1>15
        <4> QED
          BY <4>2, <4>3
      <3> QED
        BY <3>1, <3>2
    <2>3. \A g \in Files \ known' : analyzed'[g] = NoTexts
      BY SMTT(30), <1>9, <1>13
    <2> QED
      BY <1>11, <2>1, <2>2, <2>3 DEF WorldRight
  <1>23. DiagnosticsRight'
    <2> SUFFICES ASSUME \A id \in dispatched : Method[id] # "eval",
                        NEW g \in OpenAt(taken', sentOpen')
                 PROVE  g \in staleDiagnostics' \/ Settling(g)'
      BY <1>3 DEF DiagnosticsRight
    <2>1. CASE g = f
      <3>1. Front.op # "Close"
        BY <1>12, <2>1, <1>7 DEF OpenAfter, Queue!SyncOps
      <3> QED
        BY <2>1, <3>1, <1>17 DEF exists
    <2>2. CASE g # f
      <3>1. g \in OpenAt(taken, sentOpen)
        BY <1>12, <2>2, <1>7 DEF OpenAfter, Queue!SyncOps
      <3>2. g \in known /\ g \in Files
        BY <3>1, <1>8, <1>9
      <3>3. CASE f \in Deps[g]
        BY <2>2, <3>2, <3>3, <1>16
      <3>4. CASE f \notin Deps[g]
        <4>1. TextsOf(g)' = TextsOf(g) /\ shown'[g] = shown[g]
          BY <2>2, <3>2, <3>4, <1>13, <1>15
        <4>2. g \in staleDiagnostics \/ Settling(g)
          BY <3>1 DEF IInv, DiagnosticsRight
        <4>3. Settling(g) => Settling(g)'
          BY <4>1, <1>5 DEF Settling
        <4> QED
          BY <4>2, <4>3, <1>3
      <3> QED
        BY <3>3, <3>4
    <2> QED
      BY <2>1, <2>2
  <1>24. NothingDroppedAtExit'
    BY <1>1, <1>5 DEF NothingDroppedAtExit
  <1>25. Queue!Next
    BY <1>1, <1>10 DEF Queue!Next, Queue!NextTask
  <1> QED
    BY <1>4, <1>18, <1>19, <1>20, <1>21, <1>22, <1>23, <1>24, <1>25 DEF IInv

\* A request that is taken was sent with the texts that the server has.
LEMMA RequestTaken ==
    ASSUME IInv, requestOrSync # <<>>, Front.tag \in {"Request", "CanceledRequest"},
           requestOrSync' = Tail(requestOrSync), taken' = Front.n,
           UNCHANGED <<openFiles, arrived, clientVars, pipeVars, docs>>
    PROVE  /\ Front.id \in Ids /\ Front.uri \in Files /\ Front.op = Category(Front.id)
           /\ sentIds[Front.id] = taken' /\ Front.id \notin dispatched \cup refused
           /\ \A id \in Ids : sentIds[id] \in 1..taken' <=> sentIds[id] \in 1..taken \/ id = Front.id
           /\ sentTexts[taken'] = docs
           /\ docs' = TextsAt(taken', sentTexts')
           /\ OpenAt(taken', sentOpen') = OpenAt(taken, sentOpen)
           /\ Front.uri \in OpenAt(taken, sentOpen)
           /\ taken' \in Nat
  <1>1. /\ Front.n = taken + 1 /\ ItemRight(Front, sentTexts, sentOpen, sentIds)
    BY FrontFacts
  <1>2. /\ taken' = taken + 1 /\ taken' \in 1..sent /\ taken' - 1 = taken
    BY TakenKeeps
  <1>3. UNCHANGED <<sentTexts, sentOpen, sentIds>>
    BY DEF clientVars
  <1>4. RequestSent(Front, sentTexts, sentOpen, sentIds)
    BY <1>1 DEF ItemRight
  <1>5. /\ Front.id \in Ids /\ Front.uri \in Files /\ Front.op = Category(Front.id)
        /\ sentIds[Front.id] = taken + 1
        /\ \A id \in Ids : sentIds[id] = taken + 1 => id = Front.id
        /\ sentTexts[taken + 1] = TextsAt(taken, sentTexts)
        /\ sentOpen[taken + 1] = OpenAt(taken, sentOpen)
        /\ Front.uri \in sentOpen[taken + 1]
    BY <1>1, <1>2, <1>4 DEF RequestSent
  <1>6. /\ taken \in Nat /\ sentIds \in [Ids -> Numbers] /\ docs = TextsAt(taken, sentTexts)
        /\ \A id \in Ids : id \in dispatched \cup refused <=> sentIds[id] \in 1..taken
    BY DEF IInv, Types, TypeOK, WorldRight, Answered, Numbers
  <1>7. \A id \in Ids : sentIds[id] \in 1..taken' <=> sentIds[id] \in 1..taken \/ id = Front.id
    BY SMTT(30), <1>2, <1>5, <1>6 DEF Numbers
  <1>8. Front.id \notin dispatched \cup refused
    BY SMTT(30), <1>5, <1>6
  <1>9. TextsAt(taken', sentTexts') = docs
    BY SMTT(30), <1>2, <1>3, <1>5, <1>6 DEF TextsAt
  <1>10. OpenAt(taken', sentOpen') = OpenAt(taken, sentOpen)
    BY SMTT(30), <1>2, <1>3, <1>5, <1>6 DEF OpenAt
  <1> QED
    BY SMTT(30), <1>2, <1>5, <1>6, <1>7, <1>8, <1>9, <1>10

LEMMA CancelRequestStep ==
    ASSUME IInv, CancelRequest
    PROVE  IInv' /\ Queue!Next
  <1>1. /\ requestOrSync # <<>> /\ mode = "serving" /\ Queue!TakeCanceled
        /\ replies' = [replies EXCEPT ![Front.id] = @ + 1]
        /\ UNCHANGED <<clientVars, pipeVars, mode, worldVars, evalVars, shown>>
    BY DEF CancelRequest, Queue!TakeCanceled, Queue!FrontIs, CanTakeTask, Reply
  <1>2. Queue!Front = Front /\ ItemRight(Front, sentTexts, sentOpen, sentIds)
    BY <1>1, FrontFacts
  <1>3. /\ Front.tag = "CanceledRequest"
        /\ requestOrSync' = Tail(requestOrSync) /\ taken' = Front.n
        /\ refused' = refused \cup {Front.id}
        /\ UNCHANGED <<openFiles, staleDiagnostics, arrived, withdrawn, dispatched>>
    BY <1>1, <1>2 DEF Queue!TakeCanceled, Queue!PopFront, Queue!FrontIs
  <1>4. UNCHANGED <<clientOpen, clientTexts, sentTexts, sentOpen, sentIds, cancelSent,
                    connected, stdin, receiver, docs, known, analyzed, pendingEval, results,
                    mode, shown>>
    BY <1>1 DEF clientVars, pipeVars, worldVars, evalVars
  <1>5. /\ ClientRight'
        /\ arrived' <= sent'
        /\ QueueRight(requestOrSync', taken', arrived', sentTexts', sentOpen', sentIds')
        /\ PipeRight(pipe, arrived, sentTexts, sentOpen, sentIds)
             => PipeRight(pipe', arrived', sentTexts', sentOpen', sentIds')
        /\ requestOrSync' \in Seq(Queue!ReqOrSync)
        /\ pipe' = pipe
    BY <1>1, <1>3, TakenKeeps
  <1>6. /\ Front.id \in Ids /\ Front.id \notin dispatched \cup refused
        /\ \A id \in Ids : sentIds[id] \in 1..taken' <=> sentIds[id] \in 1..taken \/ id = Front.id
        /\ docs' = TextsAt(taken', sentTexts')
        /\ OpenAt(taken', sentOpen') = OpenAt(taken, sentOpen)
        /\ taken' \in Nat
    BY <1>1, <1>3, <1>4, RequestTaken
  <1>7. Method[Front.id] # "shutdown"
    BY <1>2, <1>3 DEF ItemRight
  <1>8. replies \in [Ids -> 0..2] /\ replies[Front.id] = 0
    BY <1>6, <1>7 DEF IInv, Types, TypeOK, Answered
  <1>9. /\ replies' \in [Ids -> 0..2] /\ replies'[Front.id] = 1
        /\ \A id \in Ids : id # Front.id => replies'[id] = replies[id]
    BY SMTT(30), <1>1, <1>6, <1>8
  <1>10. Types'
    <2>1. TypeOK'
      BY <1>4, <1>9 DEF IInv, Types, TypeOK
    <2> QED
      BY <1>3, <1>4, <1>5, <1>6, <2>1 DEF IInv, Types
  <1>11. OnTheWay'
    BY <1>1, <1>4, <1>5 DEF IInv, OnTheWay
  <1>12. ExitAnnounced'
    BY <1>1, <1>4, <1>5, <1>7, <1>9 DEF IInv, ExitAnnounced, ShutdownSent
  <1>13. Answered'
    BY <1>1, <1>3, <1>4, <1>6, <1>7, <1>9 DEF IInv, Answered
  <1>14. WorldRight'
    BY <1>3, <1>4, <1>6 DEF IInv, WorldRight, TextsOf
  <1>15. DiagnosticsRight'
    BY <1>3, <1>4, <1>6, SettlingStays DEF IInv, DiagnosticsRight
  <1>16. NothingDroppedAtExit'
    BY <1>1, <1>4 DEF NothingDroppedAtExit
  <1>17. Queue!Next
    BY <1>1 DEF Queue!Next, Queue!NextTask
  <1> QED
    BY <1>5, <1>10, <1>11, <1>12, <1>13, <1>14, <1>15, <1>16, <1>17 DEF IInv

\* With nothing on the way, everything that was sent is taken.
LEMMA NothingOnTheWay ==
    ASSUME IInv, mode = "serving", requestOrSync = <<>>, stdin = <<>>, receiver = <<>>
    PROVE  taken = sent
  <1>1. /\ arrived <= sent /\ arrived \in Nat /\ sent \in Nat /\ taken \in Nat
        /\ QueueRight(<<>>, taken, arrived, sentTexts, sentOpen, sentIds)
        /\ PipeRight(pipe, arrived, sentTexts, sentOpen, sentIds)
    BY SentIsNat DEF IInv, OnTheWay, Types
  <1>2. pipe = <<>> /\ Len(pipe) = 0
    BY SMTT(30) DEF pipe
  <1>3. taken = arrived
    BY SMTT(30), <1>1 DEF QueueRight
  <1>4. arrived + 1 \notin (arrived + 1)..Len(sentTexts)
    BY SMTT(30), <1>1, <1>2 DEF PipeRight
  <1> QED
    BY SMTT(30), <1>1, <1>3, <1>4 DEF sent

\* What the eval command shows at once it has analysed anew.
LEMMA HandleRequestStep ==
    ASSUME IInv, HandleRequest
    PROVE  /\ IInv' /\ Queue!Next
           /\ dispatched' = dispatched \cup {Front.id}
           /\ Method[Front.id] \in {"position", "eval"} =>
                analyzed'[Front.uri] = [g \in Deps[Front.uri] |-> sentTexts[sentIds[Front.id]][g]]
  <1> DEFINE id == Front.id
             f == Front.uri
  <1>1. /\ requestOrSync # <<>> /\ mode = "serving" /\ Queue!TakeRequest
        /\ IF Method[id] = "eval" THEN EvalCommand(f)
                                  ELSE UNCHANGED <<known, analyzed, shown, pendingEval>>
        /\ replies' = IF Method[id] = "silent" THEN replies ELSE [replies EXCEPT ![id] = @ + 1]
        /\ mode' = IF Method[id] = "shutdown" THEN "exiting" ELSE mode
        /\ UNCHANGED <<clientVars, pipeVars, docs, results>>
    BY DEF HandleRequest, Queue!TakeRequest, Queue!FrontIs, CanTakeTask, Reply
  <1>2. Queue!Front = Front
    BY <1>1, FrontFacts
  <1>3. /\ Front.tag = "Request" /\ ~(Front.op = "TextDocumentUri" /\ f \in staleDiagnostics)
        /\ requestOrSync' = Tail(requestOrSync) /\ taken' = Front.n
        /\ dispatched' = dispatched \cup {id}
        /\ staleDiagnostics' = IF Front.op = "EvalCommand" THEN staleDiagnostics \ {f}
                                                           ELSE staleDiagnostics
        /\ UNCHANGED <<openFiles, arrived, withdrawn, refused>>
    BY <1>1, <1>2 DEF Queue!TakeRequest, Queue!PopFront, Queue!FrontIs, Queue!NeedsDiagnostics
  <1>4. UNCHANGED <<clientOpen, clientTexts, sentTexts, sentOpen, sentIds, cancelSent,
                    connected, stdin, receiver, docs, results>>
    BY <1>1 DEF clientVars, pipeVars
  <1>5. /\ ClientRight'
        /\ arrived' <= sent'
        /\ QueueRight(requestOrSync', taken', arrived', sentTexts', sentOpen', sentIds')
        /\ PipeRight(pipe, arrived, sentTexts, sentOpen, sentIds)
             => PipeRight(pipe', arrived', sentTexts', sentOpen', sentIds')
        /\ requestOrSync' \in Seq(Queue!ReqOrSync)
        /\ taken' \in 1..sent /\ pipe' = pipe
    BY <1>1, <1>3, TakenKeeps
  <1>6. /\ id \in Ids /\ f \in Files /\ Front.op = Category(id)
        /\ sentIds[id] = taken' /\ id \notin dispatched \cup refused
        /\ \A x \in Ids : sentIds[x] \in 1..taken' <=> sentIds[x] \in 1..taken \/ x = id
        /\ sentTexts[taken'] = docs
        /\ docs' = TextsAt(taken', sentTexts')
        /\ OpenAt(taken', sentOpen') = OpenAt(taken, sentOpen)
        /\ f \in OpenAt(taken, sentOpen)
        /\ taken' \in Nat
    BY <1>1, <1>3, <1>4, RequestTaken
  <1>7. /\ f \in known /\ OpenAt(taken, sentOpen) \subseteq known /\ known \subseteq Files
        /\ \A g \in known : g \in staleDiagnostics \/ analyzed[g] = TextsOf(g)
        /\ \A g \in Files \ known : analyzed[g] = NoTexts
    BY <1>6 DEF IInv, WorldRight, Types, TypeOK
  <1>8. Front.op = "EvalCommand" <=> Method[id] = "eval"
    BY <1>6 DEF Category
  <1>9. Method[id] = "position" => Front.op = "TextDocumentUri"
    BY <1>6 DEF Category
  <1>10. TextsOf(f) = [g \in Deps[f] |-> sentTexts[sentIds[id]][g]]
    BY <1>6 DEF TextsOf
  <1>11. \A g : TextsOf(g)' = TextsOf(g)
    BY <1>4 DEF TextsOf
  <1>12. Queue!Next
    BY <1>1 DEF Queue!Next, Queue!NextTask
  <1>13. replies \in [Ids -> 0..2] /\ replies[id] = 0 /\ Method[id] \in Methods
    <2>1. replies \in [Ids -> 0..2]
      BY DEF IInv, Types, TypeOK
    <2>2. CASE Method[id] = "shutdown"
      BY <1>1, <1>6, <2>1, <2>2, NlsAssumption DEF IInv, ExitAnnounced
    <2>3. CASE Method[id] # "shutdown"
      BY <1>6, <2>1, <2>3, NlsAssumption DEF IInv, Answered
    <2> QED
      BY <2>2, <2>3
  <1>14. /\ replies' \in [Ids -> 0..2]
         /\ replies'[id] = IF Method[id] = "silent" THEN 0 ELSE 1
         /\ \A x \in Ids : x # id => replies'[x] = replies[x]
    BY SMTT(30), <1>1, <1>6, <1>13
  <1>15. mode' \in {"serving", "exiting"} /\ (mode' = "exiting" <=> Method[id] = "shutdown")
    BY <1>1
  \* the world and what is shown, with and without the eval command
  <1>16. /\ known' \subseteq Files /\ known \subseteq known'
         /\ DOMAIN analyzed' = Files /\ DOMAIN shown' = Files /\ DOMAIN pendingEval' = Files
         /\ \A g \in Files : {analyzed'[g], shown'[g], pendingEval'[g]} \subseteq
                                [Deps[g] -> 0..MaxMsgs] \cup {NoTexts}
         /\ \A g \in known' : g \in staleDiagnostics' \/ analyzed'[g] = TextsOf(g)'
         /\ \A g \in Files \ known' : analyzed'[g] = NoTexts
         /\ Method[id] = "eval" => analyzed'[f] = TextsOf(f)
    <2>1. /\ DOMAIN analyzed = Files /\ DOMAIN shown = Files /\ DOMAIN pendingEval = Files
          /\ \A g \in Files : {analyzed[g], shown[g], pendingEval[g]} \subseteq
                                [Deps[g] -> 0..MaxMsgs] \cup {NoTexts}
      BY DEF IInv, Types, TypeOK
    <2>2. CASE Method[id] = "eval"
      <3>1. EvalCommand(f) /\ staleDiagnostics' = staleDiagnostics \ {f}
        BY <1>1, <1>3, <1>8, <2>2
      <3>2. /\ Analyzes(f) /\ shown' = [shown EXCEPT ![f] = TextsOf(f)]
            /\ pendingEval' = pendingEval
        BY <1>7, <3>1 DEF EvalCommand, Analyzes
      <3>3. /\ known' \subseteq Files /\ known \subseteq known'
            /\ DOMAIN analyzed' = Files
            /\ \A g \in Files : analyzed'[g] \in [Deps[g] -> Numbers] \cup {NoTexts}
            /\ \A g \in known' : g \in staleDiagnostics' \/ analyzed'[g] = TextsOf(g)'
            /\ \A g \in Files \ known' : analyzed'[g] = NoTexts
            /\ analyzed'[f] = TextsOf(f)
        BY <1>4, <1>6, <1>7, <3>1, <3>2, AnalysisRight
      <3>4. TextsOf(f) \in [Deps[f] -> Numbers]
        BY <1>6, TextsOfType
      <3>5. \A g \in Files : shown'[g] = shown[g] \/ shown'[g] \in [Deps[g] -> Numbers]
        BY <1>6, <2>1, <3>2, <3>4
      <3>6. DOMAIN shown' = Files
        BY <2>1, <3>2
      <3>7. ASSUME NEW g \in Files
            PROVE  {analyzed'[g], shown'[g], pendingEval'[g]} \subseteq
                                [Deps[g] -> 0..MaxMsgs] \cup {NoTexts}
        <4>1. analyzed'[g] \in [Deps[g] -> 0..MaxMsgs] \cup {NoTexts}
          BY <3>3 DEF Numbers
        <4>2. shown'[g] \in [Deps[g] -> 0..MaxMsgs] \cup {NoTexts}
          BY <2>1, <3>5 DEF Numbers
        <4>3. pendingEval'[g] \in [Deps[g] -> 0..MaxMsgs] \cup {NoTexts}
          BY <2>1, <3>2
        <4> QED
          BY <4>1, <4>2, <4>3
      <3> QED
        BY <2>1, <3>2, <3>3, <3>6, <3>7
    <2>3. CASE Method[id] # "eval"
      <3>1. UNCHANGED <<known, analyzed, shown, pendingEval, staleDiagnostics>>
        BY <1>1, <1>3, <1>8, <2>3
      <3> QED
        BY <1>7, <1>11, <2>1, <2>3, <3>1
    <2> QED
      BY <2>2, <2>3
  <1>17. Method[id] = "position" => analyzed'[f] = TextsOf(f)
    <2> SUFFICES ASSUME Method[id] = "position" PROVE analyzed'[f] = TextsOf(f)
      OBVIOUS
    <2>1. analyzed' = analyzed /\ f \notin staleDiagnostics
      BY <1>1, <1>3, <1>9
    <2> QED
      BY <2>1, <1>7
  <1> HIDE DEF id, f
  <1>18. Types'
    <2>1. TypeOK'
      BY <1>4, <1>14, <1>15, <1>16 DEF IInv, Types, TypeOK
    <2>2. staleDiagnostics' \subseteq Files /\ dispatched' \subseteq Ids
      BY <1>3, <1>6 DEF IInv, Types
    <2> QED
      BY <1>3, <1>4, <1>5, <1>6, <1>16, <2>1, <2>2 DEF IInv, Types
  <1>19. OnTheWay'
    BY <1>1, <1>5, <1>15 DEF IInv, OnTheWay
  <1>20. ExitAnnounced'
    <2>1. mode' = "serving" => Method[id] # "shutdown"
      BY <1>15
    <2>2. mode' = "serving" => \A x \in Ids : Method[x] = "shutdown" => replies'[x] = 0
      BY <1>1, <1>14, <2>1 DEF IInv, ExitAnnounced
    <2>3. mode' # "serving" => ShutdownSent'
      <3>1. sentIds'[id] = taken' /\ taken' \in 1..sent
        BY <1>4, <1>5, <1>6
      <3>2. sentIds'[id] # 0
        BY SMT, <3>1
      <3> QED
        BY <1>6, <1>15, <3>2 DEF ShutdownSent
    <2> QED
      BY <1>1, <1>5, <2>2, <2>3 DEF IInv, ExitAnnounced
  <1>21. Answered'
    <2>1. \A x \in Ids : x \in dispatched' \cup refused' <=> sentIds'[x] \in 1..taken'
      BY <1>3, <1>4, <1>6 DEF IInv, Answered
    <2>2. \A x \in Ids : Method[x] # "shutdown" =>
            replies'[x] = IF x \in refused' \/ (x \in dispatched' /\ Method[x] # "silent")
                          THEN 1 ELSE 0
      BY <1>3, <1>6, <1>14 DEF IInv, Answered
    <2>3. \A x \in Ids : Method[x] = "shutdown" => x \notin dispatched
      BY <1>1 DEF IInv, Answered
    <2>4. \A x \in Ids : Method[x] = "shutdown" =>
            /\ x \notin refused'
            /\ x \in dispatched' => replies'[x] # 0 /\ mode' # "serving"
            /\ replies'[x] <= 1
      <3> SUFFICES ASSUME NEW x \in Ids, Method[x] = "shutdown"
                   PROVE  /\ x \notin refused'
                          /\ x \in dispatched' => replies'[x] # 0 /\ mode' # "serving"
                          /\ replies'[x] <= 1
        OBVIOUS
      <3>1. x \notin refused'
        BY <1>3 DEF IInv, Answered
      <3>2. CASE x = id
        BY SMTT(30), <3>1, <3>2, <1>14, <1>15
      <3>3. CASE x # id
        <4>1. x \notin dispatched'
          BY <3>3, <2>3, <1>3
        <4>2. replies'[x] = 0
          BY <3>3, <1>1, <1>14 DEF IInv, ExitAnnounced
        <4> QED
          BY SMTT(30), <3>1, <4>1, <4>2
      <3> QED
        BY <3>2, <3>3
    <2>5. mode' = "exiting" => \E x \in dispatched' : Method[x] = "shutdown"
      BY <1>3, <1>15
    <2> QED
      BY <1>15, <2>1, <2>2, <2>4, <2>5 DEF Answered
  <1>22. WorldRight'
    BY <1>6, <1>7, <1>16 DEF WorldRight
  <1>23. DiagnosticsRight'
    <2>1. CASE Method[id] = "eval"
      BY <2>1, <1>3 DEF DiagnosticsRight
    <2>2. CASE Method[id] # "eval"
      <3>1. UNCHANGED <<shown, pendingEval, staleDiagnostics>>
        BY <1>1, <1>3, <1>8, <2>2 DEF id
      <3> QED
        BY <1>3, <1>4, <1>6, <3>1, SettlingStays DEF IInv, DiagnosticsRight
    <2> QED
      BY <2>1, <2>2
  <1>24. NothingDroppedAtExit'
    <2> SUFFICES ASSUME Method[id] = "shutdown", NEW x \in Ids, sentIds'[x] # 0,
                        Method[x] # "silent"
                 PROVE  replies'[x] # 0
      BY <1>15 DEF NothingDroppedAtExit
    <2>0. sentIds[id] \in {0, sent} /\ sentIds[x] <= sent
      BY <1>6 DEF IInv, ClientRight
    <2>1. sentIds[id] = sent
      BY SMT, <1>6, <2>0
    <2>2. sentIds[x] \in 1..sent
      BY SMT, <1>4, <2>0, IdNumbers
    <2>3. x \in dispatched' \cup refused'
      BY <1>4, <1>6, <1>21, <2>1, <2>2 DEF Answered
    <2> QED
      BY SMTT(30), <1>21, <2>3 DEF Answered
  <1>25. /\ dispatched' = dispatched \cup {Front.id}
         /\ Method[Front.id] \in {"position", "eval"} =>
              analyzed'[Front.uri] = [g \in Deps[Front.uri] |-> sentTexts[sentIds[Front.id]][g]]
    BY <1>3, <1>10, <1>16, <1>17 DEF id, f
  <1> QED
    BY <1>5, <1>12, <1>18, <1>19, <1>20, <1>21, <1>22, <1>23, <1>24, <1>25 DEF IInv

LEMMA ExitStep ==
    ASSUME IInv, Exit
    PROVE  IInv' /\ UNCHANGED <<taskVars, analyzed>>
  <1>1. /\ mode = "exiting" /\ mode' = "stopped"
        /\ UNCHANGED <<requestOrSync, openFiles, staleDiagnostics, arrived, taken, withdrawn,
                       dispatched, refused, clientOpen, clientTexts, sentTexts, sentOpen,
                       sentIds, cancelSent, connected, stdin, docs, known, analyzed,
                       pendingEval, results, shown>>
    BY DEF Exit, taskVars, clientVars, worldVars, evalVars
  <1>2. \/ receiver' = Tail(receiver) /\ receiver # <<>> /\ replies' = replies
        \/ /\ receiver' = receiver
           /\ \E id \in Ids : /\ Method[id] = "shutdown"
                              /\ replies' = [replies EXCEPT ![id] = @ + 1]
    BY DEF Exit, Reply
  <1>3. /\ receiver \in Seq(Messages) /\ Len(receiver) <= BufferSize /\ BufferSize \in Nat
        /\ replies \in [Ids -> 0..2]
        /\ \A id \in Ids : Method[id] = "shutdown" => replies[id] \in 0..1
    <2>1. receiver \in Seq(Messages) /\ Len(receiver) <= BufferSize /\ BufferSize \in Nat
      BY NlsAssumption DEF IInv, Types, TypeOK
    <2>2. replies \in [Ids -> 0..2]
      BY DEF IInv, Types, TypeOK
    <2>3. \A id \in Ids : Method[id] = "shutdown" => replies[id] <= 1
      BY <1>1 DEF IInv, Answered
    <2>4. \A id \in Ids : Method[id] = "shutdown" => replies[id] \in 0..1
      BY SMT, <2>2, <2>3
    <2> QED
      BY <2>1, <2>2, <2>4
  <1>4. receiver' \in Seq(Messages) /\ Len(receiver') <= BufferSize
    BY SMTT(30), <1>2, <1>3
  <1>5. /\ replies' \in [Ids -> 0..2]
        /\ \A id \in Ids : Method[id] # "shutdown" => replies'[id] = replies[id]
        /\ \A id \in Ids : replies'[id] >= replies[id]
    BY SMTT(30), <1>2, <1>3
  <1>6. Types'
    <2>1. TypeOK'
      BY <1>1, <1>4, <1>5 DEF IInv, Types, TypeOK
    <2> QED
      BY <1>1, <1>4, <2>1 DEF IInv, Types
  <1>7. ClientRight'
    BY <1>1 DEF IInv, ClientRight, sent
  <1>8. OnTheWay'
    BY <1>1 DEF IInv, OnTheWay, sent
  <1>9. ExitAnnounced'
    BY <1>1 DEF IInv, ExitAnnounced, ShutdownSent
  <1>10. \A id \in Ids : replies[id] # 0 => replies'[id] # 0
    BY SMTT(30), <1>3, <1>5
  <1>11. Answered'
    <2>1. \A id \in Ids : replies'[id] <= 2
      BY SMTT(30), <1>5
    <2> QED
      BY <1>1, <1>5, <1>10, <2>1 DEF IInv, Answered
  <1>12. WorldRight'
    BY <1>1 DEF IInv, WorldRight, TextsOf
  <1>13. DiagnosticsRight'
    BY <1>1, SettlingStays DEF IInv, DiagnosticsRight
  <1>14. NothingDroppedAtExit'
    BY <1>1, <1>10 DEF IInv, NothingDroppedAtExit
  <1> QED
    BY <1>1, <1>6, <1>7, <1>8, <1>9, <1>11, <1>12, <1>13, <1>14 DEF IInv, taskVars

LEMMA ExitOnDisconnectStep ==
    ASSUME IInv, ExitOnDisconnect
    PROVE  IInv'
  <1>1. /\ mode = "serving" /\ mode' = "stopped" /\ ~connected
        /\ requestOrSync = <<>> /\ stdin = <<>> /\ receiver = <<>>
        /\ UNCHANGED <<requestOrSync, openFiles, staleDiagnostics, arrived, taken, withdrawn,
                       dispatched, refused, clientOpen, clientTexts, sentTexts, sentOpen,
                       sentIds, cancelSent, connected, stdin, receiver, docs, known, analyzed,
                       pendingEval, results, shown, replies>>
    BY DEF ExitOnDisconnect, CanTakeTask, taskVars, clientVars, pipeVars, worldVars, evalVars,
           outVars
  <1>2. Types'
    <2>1. TypeOK'
      BY <1>1 DEF IInv, Types, TypeOK
    <2> QED
      BY <1>1, <2>1 DEF IInv, Types
  <1>3. ClientRight'
    BY <1>1 DEF IInv, ClientRight, sent
  <1>4. OnTheWay'
    BY <1>1 DEF IInv, OnTheWay, sent
  <1>5. ExitAnnounced'
    BY <1>1 DEF IInv, ExitAnnounced
  <1>6. Answered'
    <2>0. replies \in [Ids -> 0..2]
      BY DEF IInv, Types, TypeOK
    <2>1. \A id \in Ids : Method[id] = "shutdown" => replies[id] <= 2
      BY SMTT(30), <2>0
    <2> QED
      BY <1>1, <2>1 DEF IInv, Answered
  <1>7. WorldRight'
    BY <1>1 DEF IInv, WorldRight, TextsOf
  <1>8. DiagnosticsRight'
    BY <1>1, SettlingStays DEF IInv, DiagnosticsRight
  <1>9. taken = sent
    BY <1>1, NothingOnTheWay
  <1>10. NothingDroppedAtExit'
    <2> SUFFICES ASSUME NEW x \in Ids, sentIds[x] # 0, Method[x] # "silent"
                 PROVE  replies[x] # 0
      BY <1>1 DEF NothingDroppedAtExit
    <2>0. sentIds[x] <= sent
      BY DEF IInv, ClientRight
    <2>1. sentIds[x] \in 1..taken
      BY SMT, <1>9, <2>0, IdNumbers
    <2>2. x \in dispatched \cup refused
      BY <2>1 DEF IInv, Answered
    <2> QED
      BY SMTT(30), <2>2 DEF IInv, Answered
  <1> QED
    BY <1>2, <1>3, <1>4, <1>5, <1>6, <1>7, <1>8, <1>10 DEF IInv

----------------------------------------------------------------------------
(***************************************************************************)
(* The theorems.                                                           *)
(***************************************************************************)
\* Every step of the client, of the two threads and of the evaluator keeps the
\* inductive invariant, and what it does to the queue the queue allows.
THEOREM NextIInv == IInv /\ [Next]_vars => IInv' /\ [Queue!Next]_taskVars
  <1> SUFFICES ASSUME IInv, [Next]_vars
               PROVE  IInv' /\ [Queue!Next]_taskVars
    OBVIOUS
  <1>1. CASE UNCHANGED vars
    <2>1. UNCHANGED <<taskVars, clientOpen, clientTexts, sentTexts, sentOpen, sentIds, mode,
                      worldVars, evalVars, outVars>>
      BY <1>1 DEF vars, clientVars
    <2>2. UNCHANGED <<stdin, receiver, cancelSent, connected, pipe>>
      BY <1>1 DEF vars, clientVars, pipeVars, pipe
    <2>3. /\ stdin \in Seq(Messages) /\ receiver \in Seq(Messages)
          /\ Len(receiver) <= BufferSize /\ cancelSent \subseteq Ids /\ connected \in BOOLEAN
          /\ mode # "stopped" => PipeRight(pipe, arrived, sentTexts, sentOpen, sentIds)
          /\ mode = "serving" => \A i \in 1..Len(pipe) : pipe[i].kind # "Exit"
      BY DEF IInv, Types, TypeOK, OnTheWay, ExitAnnounced
    <2> QED
      BY <2>1, <2>2, <2>3, PipeStep
  <1>2. CASE ClientStep
    <2>1. UNCHANGED taskVars
      BY <1>2 DEF ClientStep, ClientSync, ClientRequest, ClientCancel, ClientExit,
                  ClientDisconnect, SendNumbered, Send
    <2>2. IInv'
      BY <1>2, ClientSyncStep, ClientRequestStep, ClientCancelStep, ClientExitStep,
         ClientDisconnectStep DEF ClientStep
    <2> QED
      BY <2>1, <2>2
  <1>3. CASE Forward
    BY <1>3, ForwardStep DEF Forward
  <1>4. CASE \E f \in Files : Evaluate(f)
    BY <1>4, EvaluateStep DEF Evaluate
  <1>5. CASE ServerStep
    <2>1. CASE PublishBackgroundDiagnostics
      BY <2>1, PublishStep DEF PublishBackgroundDiagnostics
    <2>2. CASE Exit
      BY <2>2, ExitStep
    <2>3. CASE ExitOnDisconnect
      BY <2>3, ExitOnDisconnectStep DEF ExitOnDisconnect
    <2>4. CASE ReceiveMessage \/ DiagnosticsTask \/ HandleDocumentSync \/ CancelRequest
                \/ HandleRequest
      BY <2>4, ReceiveMessageStep, DiagnosticsTaskStep, HandleDocumentSyncStep,
         CancelRequestStep, HandleRequestStep
    <2> QED
      BY <1>5, <2>1, <2>2, <2>3, <2>4 DEF ServerStep
  <1> QED
    BY <1>1, <1>2, <1>3, <1>4, <1>5 DEF Next

\* The variables keep their types, and the buffer of main.rs never holds more
\* messages than it has room for.
THEOREM TypeCorrect == Spec => []TypeOK
  <1>1. IInv => TypeOK
    BY DEF IInv, Types
  <1> QED
    BY <1>1, InitIInv, NextIInv, PTL DEF Spec

\* The main loop around the task queue (run, handle_task) implements TaskQueue:
\* whatever the client sends, the queue makes no step that TaskQueue does not
\* have, so what is proved of TaskQueue holds in the server.
THEOREM LoopImplementsQueue == Spec => ImplementsTaskQueue
  <1>1. Init => Queue!Init
    BY DEF Init
  <1> QED
    BY <1>1, InitIInv, NextIInv, PTL DEF Spec, ImplementsTaskQueue

\* handle_request works on an analysis of exactly the texts that the client had
\* when it sent the request, of the document and of all it imports, with any
\* number of edits, cancellations and other requests in the pipe.
THEOREM RequestsSeeTheirTexts == Spec => RequestSeesItsTexts
  <1> DEFINE A == \A id \in dispatched' \ dispatched :
                    Method[id] \in {"position", "eval"} =>
                      analyzed'[Front.uri] =
                        [g \in Deps[Front.uri] |-> sentTexts[sentIds[id]][g]]
  <1>1. IInv /\ [Next]_vars => [A]_vars
    <2> SUFFICES ASSUME IInv, Next PROVE A
      OBVIOUS
    <2>1. CASE HandleRequest
      BY <2>1, HandleRequestStep
    <2>2. CASE ~HandleRequest
      <3>1. dispatched' = dispatched
        <4>1. CASE ClientStep
          BY <4>1 DEF ClientStep, ClientSync, ClientRequest, ClientCancel, ClientExit,
                      ClientDisconnect, SendNumbered, Send, taskVars
        <4>2. CASE Forward \/ (\E f \in Files : Evaluate(f)) \/ PublishBackgroundDiagnostics
                    \/ Exit \/ ExitOnDisconnect
          BY <4>2 DEF Forward, Evaluate, PublishBackgroundDiagnostics, Exit, ExitOnDisconnect,
                      taskVars
        <4>3. CASE ReceiveMessage
          <5>1. Head(receiver).kind \in {"Request", "Sync", "Cancel"}
            BY <4>3, NextMessage DEF ReceiveMessage
          <5> QED
            BY <4>3, <5>1 DEF ReceiveMessage, Queue!QueueRequest, Queue!QueueSync,
                              Queue!QueueCancel, Queue!PushBack
        <4>4. CASE DiagnosticsTask \/ HandleDocumentSync \/ CancelRequest
          BY <4>4 DEF DiagnosticsTask, HandleDocumentSync, CancelRequest,
                      Queue!DiagnosticsForRequest, Queue!NextDiagnostic, Queue!TakeSync,
                      Queue!TakeCanceled
        <4> QED
          BY <2>2, <4>1, <4>2, <4>3, <4>4 DEF Next, ServerStep
      <3> QED
        BY <3>1
    <2> QED
      BY <2>1, <2>2
  <1>2. RequestSeesItsTexts <=> [][A]_vars
    BY DEF RequestSeesItsTexts
  <1> QED
    BY <1>1, <1>2, InitIInv, NextIInv, PTL DEF Spec

\* When the loop has worked off everything, what publish_diagnostics and the
\* background results left on the screen is about the texts that the client
\* has, unless an eval command (command.rs) withdrew an update.
THEOREM ScreenCurrent == Spec => []ShownCurrentWithoutEval
  <1>1. IInv => ShownCurrentWithoutEval
    <2> SUFFICES ASSUME IInv, \A id \in dispatched : Method[id] # "eval", Quiescent,
                        NEW f \in clientOpen
                 PROVE  shown[f] = [g \in Deps[f] |-> clientTexts[g]]
      BY DEF ShownCurrentWithoutEval, ShownCurrent
    <2>1. taken = sent
      BY NothingOnTheWay DEF Quiescent
    <2>2. /\ docs = clientTexts /\ f \in OpenAt(taken, sentOpen) /\ f \in Files
      BY <2>1 DEF IInv, ClientRight, WorldRight, Types, TypeOK
    <2>3. Settling(f)
      BY <2>2 DEF IInv, DiagnosticsRight, Quiescent
    <2>4. TextsOf(f) # NoTexts
      BY <2>2, TextsOfType
    <2>5. shown[f] = TextsOf(f)
      <3>1. pendingEval[f] = NoTexts /\ results = <<>>
        BY <2>2 DEF Quiescent
      <3>2. \A i \in 1..Len(results) : FALSE
        BY SMT, <3>1
      <3> QED
        BY <2>3, <2>4, <3>1, <3>2 DEF Settling
    <2> QED
      BY <2>2, <2>5 DEF TextsOf
  <1> QED
    BY <1>1, InitIInv, NextIInv, PTL DEF Spec

\* No request but the shutdown request gets two responses, one that was
\* cancelled late included (reply, cancel_request).
THEOREM OneAnswer == Spec => []AnsweredOnce
  <1>1. IInv => AnsweredOnce
    <2> SUFFICES ASSUME IInv, NEW id \in Ids, Method[id] # "shutdown"
                 PROVE  replies[id] <= 1
      BY DEF AnsweredOnce
    <2>1. replies[id] \in {0, 1}
      BY DEF IInv, Answered
    <2> QED
      BY SMT, <2>1
  <1> QED
    BY <1>1, InitIInv, NextIInv, PTL DEF Spec

\* handle_shutdown and the end of the loop leave no request without its
\* response, other than those that handle_request never answers.
THEOREM ExitAfterAnswers == Spec => []NothingDroppedAtExit
  <1>1. IInv => NothingDroppedAtExit
    BY DEF IInv
  <1> QED
    BY <1>1, InitIInv, NextIInv, PTL DEF Spec
=============================================================================
