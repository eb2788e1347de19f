-------------------------------- MODULE Nls --------------------------------
(***************************************************************************)
(* The language server as a whole (lsp/nls/src/main.rs, server.rs,         *)
(* files.rs, command.rs): the client, the thread that buffers its          *)
(* messages, the server's main loop around the task queue, and an          *)
(* evaluator that answers in its own time.                                 *)
(*                                                                         *)
(* The queue's variables and actions are those of TaskQueue; this module   *)
(* says what the loop lets happen when, and what handling a task does.     *)
(* The n-th request or synchronisation of the client has number n, and the *)
(* text of a document is the number of the synchronisation that set it.    *)
(* Only the properties read the number in a message.                       *)
(***************************************************************************)
EXTENDS Integers, Sequences

CONSTANTS
    Files, Ids, NoId, MaxMsgs,  \* as in TaskQueue
    Deps,           \* file -> the files its analysis reads, itself included
    OnDisk,         \* the files that exist when they are not open
    Method,         \* id -> what the request with this id asks for
    BufferSize,     \* capacity of the message buffer
    NoTexts         \* nothing was analysed, or shown

Methods == {"position", "eval", "silent", "shutdown", "other"}

ASSUME NlsAssumption ==
    /\ NoId \notin Ids
    /\ MaxMsgs \in Nat
    /\ BufferSize \in Nat
    /\ Deps \in [Files -> SUBSET Files]
    /\ \A f \in Files : f \in Deps[f] /\ NoTexts \notin [Deps[f] -> Nat]
    /\ OnDisk \subseteq Files
    /\ Method \in [Ids -> Methods]

VARIABLES
    \* the task queue
    requestOrSync, openFiles, staleDiagnostics,
    arrived, taken, withdrawn, dispatched, refused,
    \* the client and the pipe to the server
    clientOpen,     \* documents the client has open
    clientTexts,    \* file -> text the client has
    sentTexts,      \* the n-th element: clientTexts when message n was sent
    sentOpen,       \* the n-th element: clientOpen when message n was sent
    sentIds,        \* id -> number of the request with this id, or 0
    cancelSent,     \* ids the client cancelled
    connected,      \* the client has not closed the connection
    stdin,          \* messages sent and not buffered
    receiver,       \* the buffered connection
    replies,        \* id -> responses sent to the client
    shown,          \* file -> texts the last published diagnostics are about
    \* the server
    mode,           \* "serving", "exiting" (a shutdown is answered), "stopped"
    docs,           \* file -> text the server has
    known,          \* files that have a file id
    analyzed,       \* file -> texts its analysis is about
    pendingEval,    \* file -> texts sent to the evaluator, not evaluated yet
    results         \* the channel of background diagnostics

Queue == INSTANCE TaskQueue

taskVars == <<requestOrSync, openFiles, staleDiagnostics, arrived, taken, withdrawn,
              dispatched, refused>>
clientVars == <<clientOpen, clientTexts, sentTexts, sentOpen, sentIds, cancelSent, connected>>
pipeVars == <<stdin, receiver>>
worldVars == <<docs, known, analyzed>>
evalVars == <<pendingEval, results>>
outVars == <<replies, shown>>
vars == <<taskVars, clientVars, pipeVars, mode, worldVars, evalVars, outVars>>

\* The task queue's category of a request (categorize).
Category(id) ==
    CASE Method[id] = "eval" -> "EvalCommand"
      [] Method[id] \in {"position", "silent"} -> "TextDocumentUri"
      [] OTHER -> "Other"

Init ==
    /\ Queue!Init
    /\ clientOpen = {}
    /\ clientTexts = [f \in Files |-> 0]
    /\ sentTexts = <<>>
    /\ sentOpen = <<>>
    /\ sentIds = [id \in Ids |-> 0]
    /\ cancelSent = {}
    /\ connected = TRUE
    /\ stdin = <<>>
    /\ receiver = <<>>
    /\ replies = [id \in Ids |-> 0]
    /\ shown = [f \in Files |-> NoTexts]
    /\ mode = "serving"
    /\ docs = [f \in Files |-> 0]
    /\ known = {}
    /\ analyzed = [f \in Files |-> NoTexts]
    /\ pendingEval = [f \in Files |-> NoTexts]
    /\ results = <<>>

(***************************************************************************)
(* The client.  It synchronises documents in protocol order, asks about    *)
(* open documents, sends nothing but exit after a shutdown request, and    *)
(* may go away at any time.                                                *)
(***************************************************************************)
ShutdownSent == \E id \in Ids : Method[id] = "shutdown" /\ sentIds[id] # 0

Send(msg) ==
    /\ connected
    /\ stdin' = Append(stdin, msg)
    /\ UNCHANGED <<taskVars, connected, receiver, mode, worldVars, evalVars, outVars>>

SendNumbered(kind, op, f, id) ==
    /\ ~ShutdownSent
    /\ Len(sentTexts) < MaxMsgs
    /\ Send([kind |-> kind, op |-> op, uri |-> f, id |-> id,
             n |-> Len(sentTexts) + 1])
    /\ sentTexts' = Append(sentTexts, clientTexts')
    /\ sentOpen' = Append(sentOpen, clientOpen')
    /\ UNCHANGED cancelSent

ClientSync(op, f) ==
    /\ op = "Open" <=> f \notin clientOpen
    /\ clientOpen' = CASE op = "Open"   -> clientOpen \cup {f}
                       [] op = "Close"  -> clientOpen \ {f}
                       [] op = "Change" -> clientOpen
    /\ clientTexts' = [clientTexts EXCEPT ![f] = Len(sentTexts) + 1]
    /\ SendNumbered("Sync", op, f, NoId)
    /\ UNCHANGED sentIds

ClientRequest(id, f) ==
    /\ f \in clientOpen
    /\ sentIds[id] = 0
    /\ UNCHANGED <<clientOpen, clientTexts>>
    /\ SendNumbered("Request", Category(id), f, id)
    /\ sentIds' = [sentIds EXCEPT ![id] = Len(sentTexts) + 1]

ClientCancel(id) ==
    /\ sentIds[id] # 0
    /\ id \notin cancelSent
    /\ ~ShutdownSent
    /\ Send([kind |-> "Cancel", op |-> "Cancel", uri |-> NoId, id |-> id, n |-> 0])
    /\ cancelSent' = cancelSent \cup {id}
    /\ UNCHANGED <<clientOpen, clientTexts, sentTexts, sentOpen, sentIds>>

ClientExit ==
    /\ connected
    /\ \E id \in Ids : Method[id] = "shutdown" /\ replies[id] # 0
    /\ stdin' = Append(stdin, [kind |-> "Exit", op |-> "Exit", uri |-> NoId, id |-> NoId,
                               n |-> 0])
    /\ connected' = FALSE
    /\ UNCHANGED <<taskVars, clientOpen, clientTexts, sentTexts, sentOpen, sentIds,
                   cancelSent, receiver, mode, worldVars, evalVars, outVars>>

ClientDisconnect ==
    /\ connected
    /\ connected' = FALSE
    /\ UNCHANGED <<taskVars, clientOpen, clientTexts, sentTexts, sentOpen, sentIds,
                   cancelSent, pipeVars, mode, worldVars, evalVars, outVars>>

\* The thread LspMessageBuffer moves a message while there is room.
Forward ==
    /\ stdin # <<>>
    /\ Len(receiver) < BufferSize
    /\ receiver' = Append(receiver, Head(stdin))
    /\ stdin' = Tail(stdin)
    /\ UNCHANGED <<taskVars, clientVars, mode, worldVars, evalVars, outVars>>

\* The evaluator answers about the texts it was last sent for a file.
Evaluate(f) ==
    /\ pendingEval[f] # NoTexts
    /\ results' = Append(results, [uri |-> f, texts |-> pendingEval[f]])
    /\ pendingEval' = [pendingEval EXCEPT ![f] = NoTexts]
    /\ UNCHANGED <<taskVars, clientVars, pipeVars, mode, worldVars, outVars>>

(***************************************************************************)
(* The main loop (run): a message goes before a background result, a       *)
(* result before a task.                                                   *)
(***************************************************************************)
\* Mutant: a cancelled request is removed from the queue.
ReceiveMessageCancelRemoves ==
    /\ mode = "serving"
    /\ receiver # <<>>
    /\ LET msg == Head(receiver) IN
         CASE msg.kind = "Request" -> Queue!QueueRequest(msg.op, msg.uri, msg.id)
           [] msg.kind = "Sync"    -> Queue!QueueSync(msg.op, msg.uri)
           [] msg.kind = "Cancel"  ->
                /\ requestOrSync' = SelectSeq(requestOrSync, LAMBDA r : r.id # msg.id)
                /\ UNCHANGED <<openFiles, staleDiagnostics, arrived, taken, withdrawn,
                               dispatched, refused>>
    /\ receiver' = Tail(receiver)
    /\ UNCHANGED <<clientVars, stdin, mode, worldVars, evalVars, outVars>>

ReceiveMessage ==
    /\ mode = "serving"
    /\ receiver # <<>>
    /\ LET msg == Head(receiver) IN
         CASE msg.kind = "Request" -> Queue!QueueRequest(msg.op, msg.uri, msg.id)
           [] msg.kind = "Sync"    -> Queue!QueueSync(msg.op, msg.uri)
           [] msg.kind = "Cancel"  -> Queue!QueueCancel(msg.id)
    /\ receiver' = Tail(receiver)
    /\ UNCHANGED <<clientVars, stdin, mode, worldVars, evalVars, outVars>>

PublishBackgroundDiagnostics ==
    /\ mode = "serving"
    /\ receiver = <<>>
    /\ results # <<>>
    /\ shown' = [shown EXCEPT ![Head(results).uri] = Head(results).texts]
    /\ results' = Tail(results)
    /\ UNCHANGED <<taskVars, clientVars, pipeVars, mode, worldVars, pendingEval,
                   replies>>

CanTakeTask == mode = "serving" /\ receiver = <<>> /\ results = <<>>

Front == Head(requestOrSync)
Reply(id) == replies' = [replies EXCEPT ![id] = @ + 1]
TextsOf(f) == [g \in Deps[f] |-> docs[g]]

\* Mutant: an evaluation that is pending is not replaced.
RunDiagnosticsOnFileOnce(f) ==
    IF f \in known
    THEN /\ known' = known \cup (Deps[f] \cap OnDisk)
         /\ analyzed' = [g \in Files |-> IF g \in Deps[f] \cap known'
                                         THEN TextsOf(g) ELSE analyzed[g]]
         /\ shown' = [shown EXCEPT ![f] = TextsOf(f)]
         /\ pendingEval' = [pendingEval EXCEPT ![f] = IF @ = NoTexts THEN TextsOf(f) ELSE @]
    ELSE UNCHANGED <<known, analyzed, shown, pendingEval>>

\* run_diagnostics_on_file: analyse the file and what it imports, publish, and
\* ask for an evaluation.  A file without a file id is skipped.
RunDiagnosticsOnFile(f) ==
    IF f \in known
    THEN /\ known' = known \cup (Deps[f] \cap OnDisk)
         /\ analyzed' = [g \in Files |-> IF g \in Deps[f] \cap known'
                                         THEN TextsOf(g) ELSE analyzed[g]]
         /\ shown' = [shown EXCEPT ![f] = TextsOf(f)]
         /\ pendingEval' = [pendingEval EXCEPT ![f] = TextsOf(f)]
    ELSE UNCHANGED <<known, analyzed, shown, pendingEval>>

DiagnosticsTask ==
    /\ CanTakeTask
    /\ \/ /\ Queue!DiagnosticsForRequest
          /\ RunDiagnosticsOnFile(Front.uri)
       \/ \E f \in Files :
            /\ Queue!NextDiagnostic(f)
            /\ RunDiagnosticsOnFile(f)
    /\ UNCHANGED <<clientVars, pipeVars, mode, docs, results, replies>>

\* The files whose analysis reads f: what World's invalidation returns.
Invalid(f) == {g \in Files \ {f} : f \in Deps[g] /\ analyzed[g] # NoTexts}

\* handle_document_sync: apply the text and mark what it concerns.  Closing
\* a file that is not on disk clears its diagnostics.
HandleDocumentSync ==
    /\ CanTakeTask
    /\ Queue!FrontIs("DocumentSync")
    /\ LET f == Front.uri
           exists == Front.op # "Close" \/ f \in OnDisk
       IN  /\ Queue!TakeSync(Invalid(f) \cup (IF exists THEN {f} ELSE {}))
           /\ docs' = [docs EXCEPT ![f] = Front.n]
           /\ known' = IF exists THEN known \cup {f} ELSE known \ {f}
           /\ analyzed' = [analyzed EXCEPT ![f] = NoTexts]
           /\ shown' = IF exists THEN shown ELSE [shown EXCEPT ![f] = NoTexts]
    /\ UNCHANGED <<clientVars, pipeVars, mode, evalVars, replies>>

\* Mutant: a cancelled request is put back.
CancelRequestPutsBack ==
    /\ CanTakeTask
    /\ Queue!FrontIs("CanceledRequest")
    /\ UNCHANGED vars

CancelRequest ==
    /\ CanTakeTask
    /\ Queue!TakeCanceled
    /\ Reply(Front.id)
    /\ UNCHANGED <<clientVars, pipeVars, mode, worldVars, evalVars, shown>>

\* Mutant: the command evaluates without analysing anew.
EvalCommandOnly(f) ==
    /\ shown' = [shown EXCEPT ![f] = TextsOf(f)]
    /\ UNCHANGED <<known, analyzed, pendingEval>>

\* The eval command (command::eval) analyses, evaluates and publishes in the
\* server's own thread.
EvalCommand(f) ==
    IF f \in known
    THEN /\ known' = known \cup (Deps[f] \cap OnDisk)
         /\ analyzed' = [g \in Files |-> IF g \in Deps[f] \cap known'
                                         THEN TextsOf(g) ELSE analyzed[g]]
         /\ shown' = [shown EXCEPT ![f] = TextsOf(f)]
         /\ UNCHANGED pendingEval
    ELSE UNCHANGED <<known, analyzed, shown, pendingEval>>

\* handle_task and handle_request.  A handler answers, or its error is the
\* answer.  An unknown method is not answered, nor is a completion that a dot
\* in an import path triggered.
HandleRequest ==
    /\ CanTakeTask
    /\ Queue!TakeRequest
    /\ IF Method[Front.id] = "eval"
       THEN EvalCommand(Front.uri)
       ELSE UNCHANGED <<known, analyzed, shown, pendingEval>>
    /\ IF Method[Front.id] = "silent"
       THEN UNCHANGED replies
       ELSE Reply(Front.id)
    /\ mode' = IF Method[Front.id] = "shutdown" THEN "exiting" ELSE mode
    /\ UNCHANGED <<clientVars, pipeVars, docs, results>>

\* handle_shutdown has answered and waits for exit, the one message a client
\* sends after that.  Nothing in time, or a closed connection, is an error
\* that is sent to the client as well.
Exit ==
    /\ mode = "exiting"
    /\ \/ /\ receiver # <<>>
          /\ receiver' = Tail(receiver)
          /\ UNCHANGED replies
       \/ /\ receiver = <<>>
          /\ \E id \in Ids : Method[id] = "shutdown" /\ Reply(id)
          /\ UNCHANGED receiver
    /\ mode' = "stopped"
    /\ UNCHANGED <<taskVars, clientVars, stdin, worldVars, evalVars, shown>>

\* Nothing is left to do and the client is gone.
ExitOnDisconnect ==
    /\ CanTakeTask
    /\ requestOrSync = <<>> /\ staleDiagnostics = {}
    /\ ~connected /\ stdin = <<>>
    /\ mode' = "stopped"
    /\ UNCHANGED <<taskVars, clientVars, pipeVars, worldVars, evalVars, outVars>>

ServerStep ==
    \/ ReceiveMessage
    \/ PublishBackgroundDiagnostics
    \/ DiagnosticsTask
    \/ HandleDocumentSync
    \/ CancelRequest
    \/ HandleRequest
    \/ Exit
    \/ ExitOnDisconnect

ClientStep ==
    \/ \E op \in Queue!SyncOps, f \in Files : ClientSync(op, f)
    \/ \E id \in Ids, f \in Files : ClientRequest(id, f)
    \/ \E id \in Ids : ClientCancel(id)
    \/ ClientExit
    \/ ClientDisconnect

Next ==
    \/ ClientStep
    \/ Forward
    \/ \E f \in Files : Evaluate(f)
    \/ ServerStep

\* The threads of the server keep running; nothing is asked of the client or
\* of the evaluator.
Spec == Init /\ [][Next]_vars /\ WF_vars(Forward) /\ WF_vars(ServerStep)

----------------------------------------------------------------------------
\* Every variable keeps its type, and the message buffer of main.rs stays within
\* its capacity.
TypeOK ==
    /\ clientOpen \subseteq Files
    /\ clientTexts \in [Files -> 0..MaxMsgs]
    /\ sentTexts \in Seq([Files -> 0..MaxMsgs])
    /\ sentIds \in [Ids -> 0..MaxMsgs]
    /\ cancelSent \subseteq Ids
    /\ connected \in BOOLEAN
    /\ Len(receiver) <= BufferSize
    /\ replies \in [Ids -> 0..2]
    /\ mode \in {"serving", "exiting", "stopped"}
    /\ docs \in [Files -> 0..MaxMsgs]
    /\ known \subseteq Files
    /\ \A f \in Files :
         {analyzed[f], shown[f], pendingEval[f]} \subseteq
            [Deps[f] -> 0..MaxMsgs] \cup {NoTexts}

\* The loop uses the queue as TaskQueue says, so what is shown of the queue
\* alone holds in the server: the steps of the server are steps of TaskQueue
\* or leave the queue alone.
ImplementsTaskQueue == Queue!Init /\ [][Queue!Next]_taskVars

\* A request about a document is handled with an analysis of exactly the
\* texts the client had when it sent the request: of the document and of
\* what it imports, whatever was sent, cancelled or evaluated in between.
RequestSeesItsTexts ==
    [][\A id \in dispatched' \ dispatched :
         Method[id] \in {"position", "eval"} =>
            analyzed'[Front.uri] =
                [g \in Deps[Front.uri] |-> sentTexts[sentIds[id]][g]]]_vars

\* A request is answered at most once, also when it is cancelled late.  (The
\* shutdown request is answered twice when exit does not follow.)
AnsweredOnce ==
    \A id \in Ids : Method[id] # "shutdown" => replies[id] <= 1

\* The server does not exit over an unanswered request: all that were sent
\* before the shutdown request, or before the connection closed, are
\* answered.
NothingDroppedAtExit ==
    mode # "serving" =>
        \A id \in Ids : sentIds[id] # 0 /\ Method[id] # "silent" => replies[id] # 0

\* Every request that is to be answered is answered: again and again no
\* request is waiting (the client sends finitely many).
EveryRequestAnswered ==
    []<>(\A id \in Ids : sentIds[id] # 0 /\ Method[id] # "silent" => replies[id] # 0)

Quiescent ==
    /\ mode = "serving" /\ stdin = <<>> /\ receiver = <<>>
    /\ requestOrSync = <<>> /\ staleDiagnostics = {}
    /\ results = <<>> /\ \A f \in Files : pendingEval[f] = NoTexts

\* When everything is worked off, the diagnostics on the client's screen are
\* about the texts it has: those of the document and of what it imports.
ShownCurrent ==
    Quiescent => \A f \in clientOpen :
        shown[f] = [g \in Deps[f] |-> clientTexts[g]]

\* The same as long as no eval command was handled.
ShownCurrentWithoutEval ==
    (\A id \in dispatched : Method[id] # "eval") => ShownCurrent
=============================================================================
