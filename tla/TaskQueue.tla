------------------------------ MODULE TaskQueue ------------------------------
(***************************************************************************)
(* The task queue of the language server (lsp/nls/src/task_queue.rs).      *)
(*                                                                         *)
(* The queue turns the client's messages into tasks.  Requests and         *)
(* document synchronisations keep their order of arrival; a cancellation   *)
(* rewrites a queued request in place; diagnostics are a set of stale      *)
(* files, served when no message is queued or when a request needs them.   *)
(*                                                                         *)
(* What a handler does to the rest of the server is not this module's      *)
(* business: a document synchronisation marks any set of files stale       *)
(* (Nls says which), and a request is answered or not.                     *)
(***************************************************************************)
EXTENDS Integers, Sequences

CONSTANTS
    Files,      \* document URIs
    Ids,        \* request identifiers: the client uses each one once
    NoId,       \* the id field of a queued document synchronisation
    MaxMsgs     \* bound: requests and synchronisations the client sends

\* What the proofs ask of the constants.
NoIdDistinct == NoId \notin Ids

(***************************************************************************)
(* A queued item.  n is its arrival number; it changes nothing and lets    *)
(* the properties speak of order and of document versions.                 *)
(***************************************************************************)
RequestOps == {"EvalCommand", "TextDocumentUri", "Other"}
SyncOps == {"Open", "Close", "Change"}

ReqOrSync ==
    [tag : {"Request", "CanceledRequest"}, op : RequestOps, uri : Files,
     id : Ids, n : Nat]
    \cup
    [tag : {"DocumentSync"}, op : SyncOps, uri : Files,
     id : {NoId}, n : Nat]

VARIABLES
    requestOrSync,      \* requests and synchronisations, oldest first
    openFiles,          \* files open in the editor, as of the last message
    staleDiagnostics,   \* files that need new diagnostics
    arrived,            \* messages queued so far
    taken,              \* arrival number of the last item taken for good
    withdrawn,          \* ids cancelled while they were queued
    dispatched,         \* ids handed to a request handler
    refused             \* ids answered with "Request cancelled"

queueVars == <<requestOrSync, openFiles, staleDiagnostics>>
taskVars == <<queueVars, arrived, taken, withdrawn, dispatched, refused>>

\* Every variable keeps its type: what is queued is a request, a cancelled one or
\* a document synchronisation (ReqOrSync).
TypeOK ==
    /\ requestOrSync \in Seq(ReqOrSync)
    /\ openFiles \subseteq Files
    /\ staleDiagnostics \subseteq Files
    /\ arrived \in Nat
    /\ taken \in Nat
    /\ withdrawn \subseteq Ids
    /\ dispatched \subseteq Ids
    /\ refused \subseteq Ids

Init ==
    /\ requestOrSync = <<>>
    /\ openFiles = {}
    /\ staleDiagnostics = {}
    /\ arrived = 0
    /\ taken = 0
    /\ withdrawn = {}
    /\ dispatched = {}
    /\ refused = {}

QueuedIds == {requestOrSync[i].id : i \in DOMAIN requestOrSync}
UsedIds == QueuedIds \cup dispatched \cup refused

(***************************************************************************)
(* queue_message and queue_notification.                                   *)
(***************************************************************************)
PushBack(item) ==
    /\ arrived < MaxMsgs
    /\ arrived' = arrived + 1
    /\ requestOrSync' = Append(requestOrSync, item)
    /\ UNCHANGED <<staleDiagnostics, taken, withdrawn, dispatched, refused>>

QueueRequest(op, f, id) ==
    /\ id \notin UsedIds
    /\ PushBack([tag |-> "Request", op |-> op, uri |-> f, id |-> id,
                 n |-> arrived + 1])
    /\ UNCHANGED openFiles

QueueSync(op, f) ==
    /\ PushBack([tag |-> "DocumentSync", op |-> op, uri |-> f, id |-> NoId,
                 n |-> arrived + 1])
    /\ openFiles' = CASE op = "Open"   -> openFiles \cup {f}
                      [] op = "Close"  -> openFiles \ {f}
                      [] op = "Change" -> openFiles

QueueCancel(id) ==
    /\ requestOrSync' =
         [i \in DOMAIN requestOrSync |->
            IF requestOrSync[i].tag = "Request" /\ requestOrSync[i].id = id
            THEN [requestOrSync[i] EXCEPT !.tag = "CanceledRequest"]
            ELSE requestOrSync[i]]
    /\ withdrawn' = withdrawn \cup ({id} \cap QueuedIds)
    /\ UNCHANGED <<openFiles, staleDiagnostics, arrived, taken, dispatched,
                   refused>>

(***************************************************************************)
(* next_task, with what the server does at once with each task.            *)
(***************************************************************************)
Front == Head(requestOrSync)

FrontIs(tag) ==
    /\ requestOrSync # <<>>
    /\ Front.tag = tag

PopFront ==
    /\ requestOrSync' = Tail(requestOrSync)
    /\ taken' = Front.n

TakeSync(invalid) ==
    /\ FrontIs("DocumentSync")
    /\ PopFront
    /\ staleDiagnostics' = staleDiagnostics \cup invalid
    /\ UNCHANGED <<openFiles, arrived, withdrawn, dispatched, refused>>

TakeCanceled ==
    /\ FrontIs("CanceledRequest")
    /\ PopFront
    /\ refused' = refused \cup {Front.id}
    /\ UNCHANGED <<openFiles, staleDiagnostics, arrived, withdrawn, dispatched>>

NeedsDiagnostics ==
    Front.op = "TextDocumentUri" /\ Front.uri \in staleDiagnostics

TakeRequest ==
    /\ FrontIs("Request")
    /\ ~NeedsDiagnostics
    /\ PopFront
    /\ dispatched' = dispatched \cup {Front.id}
    /\ staleDiagnostics' = IF Front.op = "EvalCommand"
                           THEN staleDiagnostics \ {Front.uri}
                           ELSE staleDiagnostics
    /\ UNCHANGED <<openFiles, arrived, withdrawn, refused>>

\* The request is popped and put back at the front: the queue is unchanged.
DiagnosticsForRequest ==
    /\ FrontIs("Request")
    /\ NeedsDiagnostics
    /\ staleDiagnostics' = staleDiagnostics \ {Front.uri}
    /\ UNCHANGED <<requestOrSync, openFiles, arrived, taken, withdrawn,
                   dispatched, refused>>

NextDiagnostic(f) ==
    /\ requestOrSync = <<>>
    /\ f \in staleDiagnostics
    /\ openFiles \cap staleDiagnostics # {} => f \in openFiles
    /\ staleDiagnostics' = staleDiagnostics \ {f}
    /\ UNCHANGED <<requestOrSync, openFiles, arrived, taken, withdrawn,
                   dispatched, refused>>

NextTask ==
    \/ \E invalid \in SUBSET Files : TakeSync(invalid)
    \/ TakeCanceled
    \/ TakeRequest
    \/ DiagnosticsForRequest
    \/ \E f \in Files : NextDiagnostic(f)

QueueMessage ==
    \/ \E op \in RequestOps, f \in Files, id \in Ids : QueueRequest(op, f, id)
    \/ \E op \in SyncOps, f \in Files : QueueSync(op, f)
    \/ \E id \in Ids : QueueCancel(id)

Next == QueueMessage \/ NextTask

(***************************************************************************)
(* The server takes the next task whenever it is idle; nothing is assumed  *)
(* of the client.                                                          *)
(***************************************************************************)
Spec == Init /\ [][Next]_taskVars /\ WF_taskVars(NextTask)

(***************************************************************************)
(* Nothing is lost, duplicated or reordered between the client and the     *)
(* handlers, although a request may be popped, put back and popped again   *)
(* and although cancellations rewrite the queue: the queue holds exactly   *)
(* the messages that arrived after the last one taken, in order.           *)
(***************************************************************************)
ArrivalOrder ==
    /\ arrived = taken + Len(requestOrSync)
    /\ \A i \in DOMAIN requestOrSync : requestOrSync[i].n = taken + i

(***************************************************************************)
(* A request is disposed of once: it is queued, handled or refused, never  *)
(* two of these, and two queued items never carry the same id.             *)
(***************************************************************************)
DisposedOnce ==
    /\ dispatched \cap refused = {}
    /\ QueuedIds \cap (dispatched \cup refused) = {}
    /\ \A i, j \in DOMAIN requestOrSync :
         requestOrSync[i].id = requestOrSync[j].id =>
            i = j \/ requestOrSync[i].id = NoId

(***************************************************************************)
(* A request that is cancelled while queued never reaches a handler, even  *)
(* when it had been put back to wait for diagnostics; until it is refused  *)
(* it is in the queue as a CanceledRequest.                                *)
(***************************************************************************)
CancelHolds ==
    /\ withdrawn \cap dispatched = {}
    /\ \A i \in DOMAIN requestOrSync :
         requestOrSync[i].tag = "CanceledRequest"
            <=> requestOrSync[i].id \in withdrawn
=============================================================================
