----------------------------- MODULE Background -----------------------------
(***************************************************************************)
(* Background evaluation (lsp/nls/src/background.rs): the server sends     *)
(* files to evaluate over a channel to a supervisor thread, which keeps    *)
(* two stacks of pending evaluations, runs one worker process at a time    *)
(* under a timeout, sends the diagnostics back over a second channel, and  *)
(* blacklists the files whose worker failed.                               *)
(*                                                                         *)
(* The sources that are sent along are abstracted to a version: request    *)
(* number v of a file carries the v-th text.                               *)
(***************************************************************************)
EXTENDS Integers, Sequences

CONSTANTS
    Files,          \* URIs of files to evaluate
    HighFiles,      \* files whose evaluation is requested with high priority
    NormalFiles,    \* files whose evaluation is requested with normal priority
    None,           \* no worker is running
    MaxVersion      \* bound: requests per file

ASSUME BackgroundAssumption ==
    /\ MaxVersion \in Nat
    /\ None \notin [eval : Files, version : 1..MaxVersion, highPriority : BOOLEAN]

VARIABLES
    requested,          \* file -> number of evaluations requested
    evalRx,             \* the channel of requests
    evalStack,          \* eval_stack, top last
    priorityEvalStack,  \* priority_eval_stack, top last
    bannedFiles,        \* files within their blacklist_duration
    pc,                 \* where the supervisor's loop is
    running,            \* the evaluation whose worker runs, or None
    responses,          \* the channel of diagnostics
    published,          \* file -> the diagnostics the client was sent last
    lost                \* file -> newest version refused or failed

\* The priorities the evaluation of a file is requested with: both, if it is
\* opened or a request is made for it, say, while a normal one is pending.
PrioritiesOf == [f \in Files |-> {high \in BOOLEAN : f \in IF high THEN HighFiles ELSE NormalFiles}]

queueVars == <<evalStack, priorityEvalStack>>
vars == <<requested, evalRx, queueVars, bannedFiles, pc, running, responses,
          published, lost>>

Shown == [version : 0..MaxVersion, evaluated : BOOLEAN]
Eval == [eval : Files, version : 1..MaxVersion, highPriority : BOOLEAN]

Init ==
    /\ requested = [f \in Files |-> 0]
    /\ evalRx = <<>>
    /\ evalStack = <<>>
    /\ priorityEvalStack = <<>>
    /\ bannedFiles = {}
    /\ pc = "loop"
    /\ running = None
    /\ responses = <<>>
    /\ published = [f \in Files |-> [version |-> 0, evaluated |-> FALSE]]
    /\ lost = [f \in Files |-> 0]

(***************************************************************************)
(* The server: run_diagnostics_on_file publishes parse and type errors at  *)
(* once and sends the file to be evaluated; publish_background_diagnostics *)
(* shows a result.  Either replaces all diagnostics of the file.           *)
(***************************************************************************)
RunDiagnosticsOnFile(f, high) ==
    /\ requested[f] < MaxVersion
    /\ requested' = [requested EXCEPT ![f] = @ + 1]
    /\ published' = [published EXCEPT ![f] = [version |-> requested'[f],
                                             evaluated |-> FALSE]]
    /\ evalRx' = Append(evalRx, [eval |-> f, version |-> requested'[f],
                                 highPriority |-> high])
    /\ UNCHANGED <<queueVars, bannedFiles, pc, running, responses, lost>>

PublishBackgroundDiagnostics ==
    /\ responses # <<>>
    /\ published' = [published EXCEPT ![Head(responses).eval] =
                         [version |-> Head(responses).version, evaluated |-> TRUE]]
    /\ responses' = Tail(responses)
    /\ UNCHANGED <<requested, evalRx, queueVars, bannedFiles, pc, running, lost>>

(***************************************************************************)
(* handle_eval: a blacklisted file is refused; otherwise the evaluation    *)
(* goes on top of its stack and replaces an older one there.               *)
(***************************************************************************)
Position(stack, f) ==
    CHOOSE i \in DOMAIN stack :
        stack[i].eval = f /\ \A j \in 1..i-1 : stack[j].eval # f
Without(stack, f) ==
    IF \E i \in DOMAIN stack : stack[i].eval = f
    THEN SubSeq(stack, 1, Position(stack, f) - 1)
           \o SubSeq(stack, Position(stack, f) + 1, Len(stack))
    ELSE stack

\* Mutant: an evaluation that is already pending is not replaced.
HandleEvalDropsNew(e) ==
    IF e.eval \in bannedFiles
    THEN /\ lost' = [lost EXCEPT ![e.eval] = e.version]
         /\ UNCHANGED queueVars
    ELSE /\ IF e.highPriority
            THEN /\ priorityEvalStack' =
                      IF Without(priorityEvalStack, e.eval) = priorityEvalStack
                      THEN Append(priorityEvalStack, e) ELSE priorityEvalStack
                 /\ UNCHANGED evalStack
            ELSE /\ evalStack' = IF Without(evalStack, e.eval) = evalStack
                                 THEN Append(evalStack, e) ELSE evalStack
                 /\ UNCHANGED priorityEvalStack
         /\ UNCHANGED lost

HandleEval(e) ==
    IF e.eval \in bannedFiles
    THEN /\ lost' = [lost EXCEPT ![e.eval] = e.version]
         /\ UNCHANGED queueVars
    ELSE /\ IF e.highPriority
            THEN /\ priorityEvalStack' = Append(Without(priorityEvalStack, e.eval), e)
                 /\ UNCHANGED evalStack
            ELSE /\ evalStack' = Append(Without(evalStack, e.eval), e)
                 /\ UNCHANGED priorityEvalStack
         /\ UNCHANGED lost

(***************************************************************************)
(* The supervisor's loop (run).  Receive blocks while nothing is pending;  *)
(* DrainQueue takes one request after the other until it sees the channel  *)
(* empty; what arrives after that waits for the next round.                *)
(***************************************************************************)
NothingPending == evalStack = <<>> /\ priorityEvalStack = <<>>

Receive ==
    /\ pc = "loop"
    /\ IF NothingPending
       THEN /\ evalRx # <<>>
            /\ HandleEval(Head(evalRx))
            /\ evalRx' = Tail(evalRx)
       ELSE UNCHANGED <<evalRx, queueVars, lost>>
    /\ pc' = "drain"
    /\ UNCHANGED <<requested, bannedFiles, running, responses, published>>

DrainQueue ==
    /\ pc = "drain"
    /\ evalRx # <<>>
    /\ HandleEval(Head(evalRx))
    /\ evalRx' = Tail(evalRx)
    /\ UNCHANGED <<requested, bannedFiles, pc, running, responses, published>>

DrainEnds ==
    /\ pc = "drain"
    /\ evalRx = <<>>
    /\ pc' = "pick"
    /\ UNCHANGED <<requested, evalRx, queueVars, bannedFiles, running, responses,
                   published, lost>>

Top(stack) == stack[Len(stack)]
Pop(stack) == SubSeq(stack, 1, Len(stack) - 1)

StartEval ==
    /\ pc = "pick"
    /\ IF priorityEvalStack # <<>>
       THEN /\ running' = Top(priorityEvalStack)
            /\ priorityEvalStack' = Pop(priorityEvalStack)
            /\ pc' = "eval"
            /\ UNCHANGED evalStack
       ELSE IF evalStack # <<>>
       THEN /\ running' = Top(evalStack)
            /\ evalStack' = Pop(evalStack)
            /\ pc' = "eval"
            /\ UNCHANGED priorityEvalStack
       ELSE /\ pc' = "loop"
            /\ UNCHANGED <<running, queueVars>>
    /\ UNCHANGED <<requested, evalRx, bannedFiles, responses, published, lost>>

\* Mutant: a result overtakes those that wait.
EvalDoneOvertakes ==
    /\ pc = "eval"
    /\ responses' = <<running>> \o responses
    /\ running' = None
    /\ pc' = "loop"
    /\ UNCHANGED <<requested, evalRx, queueVars, bannedFiles, published, lost>>

\* eval returns the worker's diagnostics, or an error: a timeout, a crash.
EvalDone ==
    /\ pc = "eval"
    /\ responses' = Append(responses, running)
    /\ running' = None
    /\ pc' = "loop"
    /\ UNCHANGED <<requested, evalRx, queueVars, bannedFiles, published, lost>>

\* Mutant: the evaluation is tried again.
EvalFailedRetries ==
    /\ pc = "eval"
    /\ HandleEval(running)
    /\ running' = None
    /\ pc' = "loop"
    /\ UNCHANGED <<requested, evalRx, bannedFiles, responses, published>>

EvalFailed ==
    /\ pc = "eval"
    /\ bannedFiles' = bannedFiles \cup {running.eval}
    /\ lost' = [lost EXCEPT ![running.eval] = running.version]
    /\ running' = None
    /\ pc' = "loop"
    /\ UNCHANGED <<requested, evalRx, queueVars, responses, published>>

BanExpires(f) ==
    /\ f \in bannedFiles
    /\ bannedFiles' = bannedFiles \ {f}
    /\ UNCHANGED <<requested, evalRx, queueVars, pc, running, responses, published, lost>>

Supervisor == Receive \/ DrainQueue \/ DrainEnds \/ StartEval \/ EvalDone \/ EvalFailed

Next ==
    \/ \E f \in Files : \E high \in PrioritiesOf[f] : RunDiagnosticsOnFile(f, high)
    \/ PublishBackgroundDiagnostics
    \/ Supervisor
    \/ \E f \in Files : BanExpires(f)

\* Both threads keep running, and a worker answers or is given up after
\* eval_limits.timeout.
Spec ==
    /\ Init /\ [][Next]_vars
    /\ WF_vars(Supervisor)
    /\ WF_vars(PublishBackgroundDiagnostics)

----------------------------------------------------------------------------
\* Every variable keeps its type, and the supervisor is at its blocking call (run)
\* exactly while a worker runs.
TypeOK ==
    /\ requested \in [Files -> 0..MaxVersion]
    /\ published \in [Files -> Shown]
    /\ lost \in [Files -> 0..MaxVersion]
    /\ \A s \in {evalRx, evalStack, priorityEvalStack, responses} : s \in Seq(Eval)
    /\ bannedFiles \subseteq Files
    /\ pc \in {"loop", "drain", "pick", "eval"}
    /\ running \in Eval \cup {None}
    /\ pc = "eval" <=> running # None

\* The file is always requested with the same priority, so that a new request
\* for it replaces the pending one.
OnePriority(f) == \A h1, h2 \in PrioritiesOf[f] : h1 = h2

\* Results of a file come in the order of the texts they are about: no
\* evaluation of an older text is started after that of a newer one (run).  With
\* two priorities, an older text may be pending in the other stack.
NewestWins ==
    LET evaluated == IF running = None THEN responses ELSE Append(responses, running)
    IN  \A i, j \in DOMAIN evaluated :
            i < j /\ evaluated[i].eval = evaluated[j].eval /\ OnePriority(evaluated[i].eval) =>
                evaluated[i].version < evaluated[j].version

Settled(f) ==
    \/ published[f] = [version |-> requested[f], evaluated |-> TRUE]
    \/ lost[f] = requested[f]

\* When everything has been worked off, a file with one priority shows the
\* evaluation of its latest text unless that evaluation was refused or failed.
\* (Only then may the client be left with the result for an older text.)
ResultsCurrent ==
    evalRx = <<>> /\ NothingPending /\ running = None /\ responses = <<>> =>
        \A f \in Files : OnePriority(f) => Settled(f)

\* Every requested text of a file with one priority is dealt with: its
\* evaluation is shown, refused or failed, or a newer text is requested (run).
EveryEvalSettled ==
    \A f \in Files : \A v \in 1..MaxVersion :
        OnePriority(f) /\ requested[f] = v ~> Settled(f) \/ requested[f] > v
=============================================================================
