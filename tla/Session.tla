------------------------------- MODULE Session -------------------------------
(***************************************************************************)
(* The two long-lived users of a cache hub: the REPL backend (core/src/    *)
(* repl/mod.rs, ReplImpl), which prepares one input after the other and    *)
(* grows a typing and an evaluation environment, and a program (core/src/  *)
(* program.rs, eval/mod.rs), which may be typechecked and evaluated again. *)
(*                                                                         *)
(* A command reads the disk twice: when the typechecker resolves imports   *)
(* and when the imports of the terms are resolved.  It is two steps, and   *)
(* another program may write a file in between.  Only the properties read  *)
(* `calm`, whether the caches were sound when a command started, and       *)
(* `raced`, whether a file was written after a file importing it had been  *)
(* typechecked and before the imports of that file's term were resolved.   *)
(***************************************************************************)
EXTENDS CacheHub

CONSTANTS
    Inputs,         \* texts entered at the REPL
    ContentsOf,     \* for every path, the texts it may be given
    InitialDisks,   \* what may be on disk at the start
    Main,           \* the main file of a program
    Idle,           \* no command is under way
    MaxCommands,    \* bound on the number of commands
    MaxWrites       \* bound on the number of writes to the disk

ASSUME SessionAssumption == Main \in Nickel

VARIABLES
    user,       \* "repl" or "program"
    disk,       \* path -> text and time stamp
    hub,        \* the caches
    typeEnv,    \* variable -> the id whose type it has, or None
    evalEnv,    \* variable -> the id whose value it has, or None
    pending,    \* the command that has been typechecked, or Idle
    last,       \* the outcome of the last command
    commands,   \* number of commands so far
    writes,     \* number of writes so far
    raced       \* whether one of them came between two readings

vars == <<user, disk, hub, typeEnv, evalEnv, pending, last, commands, writes,
          raced>>

Slots == {"ReplInput", "ReplTypecheck", "ReplQuery"}
Unbound == [x \in Vars |-> None]
Started == [kind |-> "start", id |-> 0, out |-> "ok", calm |-> TRUE]

\* A program reads its main file when it is created.
Init ==
    /\ user \in {"repl", "program"}
    /\ disk \in InitialDisks
    /\ user = "program" => disk[Main] # NoFile
    /\ LET empty == NewHub(Paths \cup Slots) IN
       hub = IF user = "program"
             THEN AddSource(empty, Main, disk[Main].text, disk[Main].ts)
             ELSE empty
    /\ typeEnv = Unbound /\ evalEnv = Unbound
    /\ pending = Idle /\ last = Started
    /\ commands = 0 /\ writes = 0 /\ raced = FALSE

-----------------------------------------------------------------------------
(* What soundness of the caches means: see the properties below.           *)

\* What the slot of the typecheck command is recorded to import, now or from
\* an earlier text.
SlotImports(h) ==
    IF h.ids["ReplTypecheck"] = NoEntry THEN {}
    ELSE h.files[h.ids["ReplTypecheck"].id].imports

\* The files that commands to come can meet: those in the name-id table, the
\* imports of the slot, and what these are recorded to import.  Inputs of the
\* REPL are never met again.
Live(h) ==
    LET imports == [i \in DOMAIN h.files |-> h.files[i].imports]
        tabled == {n \in Paths : h.ids[n] # NoEntry}
    IN  Closure(imports, {h.ids[n].id : n \in tabled} \cup SlotImports(h))

\* No live entry is left under way, and an entry that is done has imports
\* that are done.
Sound(h) ==
    /\ \A i \in Live(h) :
        LET file == h.files[i] IN
        /\ file.ast # "Typechecking"
        /\ file.term \notin {"ImportsResolving", "Transforming"}
        /\ file.ast = "Typechecked" =>
             \A j \in file.imports : IsNickel(h.files[j]) => h.files[j].ast = "Typechecked"
        /\ \A state \in {"ImportsResolved", "Transformed"} :
             AtLeast(TermStates, file.term, state) =>
               \A j \in file.imports : AtLeast(TermStates, h.files[j].term, state)
    /\ \A j \in SlotImports(h) : IsNickel(h.files[j]) => h.files[j].ast # None

-----------------------------------------------------------------------------
(* Commands                                                                *)

MayStart(who) ==
    user = who /\ pending = Idle /\ last.out # "panic" /\ commands < MaxCommands

\* Every caller of the hub unwraps the error that says an entry is missing.
Outcome(out) == IF out = "IncompatibleState" THEN "panic" ELSE out

Finish(kind, id, out, calm) ==
    /\ pending' = Idle
    /\ last' = [kind |-> kind, id |-> id, out |-> Outcome(out), calm |-> calm]

\* Mutant: the variable of a let is given a type before the let is checked.
TypecheckStepBindsFirst(kind, id, parsed, binds, flipped) ==
    LET checked == Then(parsed, LAMBDA h : Typecheck(h, disk, typeEnv, id, flipped)) IN
    /\ hub' = checked.hub
    /\ commands' = commands + 1
    /\ typeEnv' = IF binds = NoVar THEN typeEnv ELSE [typeEnv EXCEPT ![binds] = id]
    /\ IF checked.out = "ok"
       THEN /\ pending' = [kind |-> kind, id |-> id, flipped |-> flipped, calm |-> Sound(hub)]
            /\ last' = last
       ELSE Finish(kind, id, checked.out, Sound(hub))
    /\ UNCHANGED <<user, disk, evalEnv, writes, raced>>

\* The first half of a command: the file is typechecked with its imports,
\* and a toplevel let then has a type (add_type_binding).
TypecheckStep(kind, id, parsed, binds, flipped) ==
    LET checked == Then(parsed, LAMBDA h : Typecheck(h, disk, typeEnv, id, flipped)) IN
    /\ hub' = checked.hub
    /\ commands' = commands + 1
    /\ IF checked.out = "ok"
       THEN /\ pending' = [kind |-> kind, id |-> id, flipped |-> flipped, calm |-> Sound(hub)]
            /\ typeEnv' = IF binds = NoVar THEN typeEnv ELSE [typeEnv EXCEPT ![binds] = id]
            /\ last' = last
       ELSE /\ Finish(kind, id, checked.out, Sound(hub))
            /\ typeEnv' = typeEnv
    /\ UNCHANGED <<user, disk, evalEnv, writes, raced>>

\* prepare_repl up to the typechecker.  parse_repl fills both caches.
PrepareRepl(kind, h, id, flipped) ==
    LET text == h.files[id].text
        parsed == IF text.parses
                  THEN Ret(Populate(SetAst(h, id, "Parsed"), id), "ok")
                  ELSE Ret(h, "ParseErrors")
    IN  TypecheckStep(kind, id, parsed, text.binds, flipped)

NewId == Len(hub.files) + 1

\* eval, eval_full
ReplEval(text, flipped) ==
    /\ MayStart("repl")
    /\ PrepareRepl("eval", AddSource(hub, "ReplInput", text, 0), NewId, flipped)

\* load: the file gets a new id whether or not it is cached.
ReplLoad(path, flipped) ==
    /\ MayStart("repl")
    /\ disk[path] # NoFile
    /\ PrepareRepl("load", AddSource(hub, path, disk[path].text, disk[path].ts), NewId, flipped)

\* query, of a field path that starts with a variable
ReplQuery(x, flipped) ==
    LET text == [parses |-> TRUE, closed |-> TRUE, binds |-> NoVar, walk |-> <<x>>,
                 fields |-> {}, declared |-> {}]
        h == ReplaceString(hub, "ReplQuery", text)
    IN  /\ MayStart("repl")
        /\ PrepareRepl("query", h, h.ids["ReplQuery"].id, flipped)

\* typecheck: there is no second half.  type_of finds the file typechecked.
ReplTypecheck(text, flipped) ==
    LET h == ReplaceString(hub, "ReplTypecheck", text)
        id == h.ids["ReplTypecheck"].id
        checked == Then(ParseToAst(h, id), LAMBDA g : Typecheck(g, disk, typeEnv, id, flipped))
    IN  /\ MayStart("repl")
        /\ hub' = checked.hub
        /\ commands' = commands + 1
        /\ Finish("typecheck", id, checked.out, Sound(hub))
        /\ UNCHANGED <<user, disk, typeEnv, evalEnv, writes, raced>>

\* Program::typecheck, and prepare_impl up to the typechecker
ProgramStart(kind, flipped) ==
    /\ MayStart("program")
    /\ TypecheckStep(kind, 1, ParseToAst(hub, 1), NoVar, flipped)

Bind(env, xs, id) == [x \in Vars |-> IF x \in xs THEN id ELSE env[x]]

\* The second half of a REPL command: the rest of prepare_repl, then a let is
\* bound, and anything else is evaluated.  The fields of a loaded record are
\* given types, those with a value also values.
CompleteRepl ==
    LET id == pending.id
        text == hub.files[id].text
        isLet == pending.kind = "eval" /\ text.binds # NoVar
    IN  /\ user = "repl" /\ pending # Idle
        /\ \E ready \in {CompileAndTransform(hub, disk, id, pending.flipped)} :
           \E out \in {IF ready.out # "ok" \/ isLet THEN ready.out
                      ELSE Evaluate(ready.hub, evalEnv, id)} :
               /\ hub' = ready.hub
               /\ Finish(pending.kind, id, out, pending.calm)
               /\ evalEnv' = CASE out # "ok" -> evalEnv
                               [] isLet -> Bind(evalEnv, {text.binds}, id)
                               [] pending.kind = "load" -> Bind(evalEnv, text.fields, id)
                               [] OTHER -> evalEnv
               /\ typeEnv' = IF out = "ok" /\ pending.kind = "load"
                             THEN Bind(typeEnv, text.fields \cup text.declared, id)
                             ELSE typeEnv
        /\ UNCHANGED <<user, disk, commands, writes, raced>>

\* The second half for a program: typecheck is done, eval transforms,
\* closurizes and evaluates.
CompleteProgram ==
    LET id == pending.id IN
        /\ user = "program" /\ pending # Idle
        /\ IF pending.kind = "typecheck"
           THEN hub' = hub /\ Finish(pending.kind, id, "ok", pending.calm)
           ELSE \E ready \in {Then(CompileAndTransform(hub, disk, id, pending.flipped),
                                   LAMBDA h : Closurize(h, id))} :
                    /\ hub' = ready.hub
                    /\ Finish(pending.kind, id,
                              IF ready.out = "ok" THEN Evaluate(ready.hub, evalEnv, id)
                              ELSE ready.out,
                              pending.calm)
        /\ UNCHANGED <<user, disk, typeEnv, evalEnv, commands, writes, raced>>

\* A file that has been typechecked, or tried to, and has yet to have its
\* imports resolved.
Ahead(file) ==
    /\ \/ file.ast = "Typechecked" /\ file.name # "ReplTypecheck"
       \/ file.ast = "Typechecking" /\ file.name \in Paths
    /\ ~AtLeast(TermStates, file.term, "ImportsResolving")

\* Another program writes a file.
Write(path, text) ==
    /\ writes < MaxWrites
    /\ last.out # "panic"
    /\ disk[path] # NoFile => disk[path].text # text
    /\ disk' = [disk EXCEPT ![path] = [text |-> text, ts |-> writes + 1]]
    /\ writes' = writes + 1
    /\ raced' = (raced \/ \E i \in DOMAIN hub.files :
                              /\ Ahead(hub.files[i])
                              /\ path \in ToSet(hub.files[i].text.walk))
    /\ UNCHANGED <<user, hub, typeEnv, evalEnv, pending, last, commands>>

\* Which names are iterated backwards matters for those that have more than
\* one import.
Orders ==
    LET several(texts) == \E t \in texts : Len(ImportsOf(t)) > 1
        slots == IF several(Inputs) THEN {"ReplInput", "ReplTypecheck"} ELSE {}
    IN  SUBSET (slots \cup {p \in Nickel : several(ContentsOf[p])})

Next ==
    \/ \E flipped \in Orders :
        \/ \E text \in Inputs : ReplEval(text, flipped) \/ ReplTypecheck(text, flipped)
        \/ \E path \in Nickel : ReplLoad(path, flipped)
        \/ \E x \in Vars : ReplQuery(x, flipped)
        \/ \E kind \in {"typecheck", "eval"} : ProgramStart(kind, flipped)
    \/ CompleteRepl
    \/ CompleteProgram
    \/ \E path \in Paths : \E text \in ContentsOf[path] : Write(path, text)

Spec == Init /\ [][Next]_vars

-----------------------------------------------------------------------------
(* Properties                                                              *)

\* What a file is recorded to import, directly or not.
Imported(h, id) ==
    Closure([i \in DOMAIN h.files |-> h.files[i].imports], h.files[id].imports)

\* The text of a file gives no reason to reject it, and the files it imports
\* were found when it was walked.
Flawless(h, i) ==
    LET text == h.files[i].text IN
    /\ text.parses /\ text.closed
    /\ ToSet(text.walk) \subseteq Paths
    /\ AtLeast(AstStates, h.files[i].ast, "Typechecking") =>
         \A p \in ToSet(text.walk) : \E j \in h.files[i].imports : h.files[j].name = p

\* A command that starts on sound caches, with no file written between the
\* readings, neither panics nor meets a missing import when it evaluates; and when it
\* is accepted, every file its term refers to parses, typechecks, is
\* transformed, and has its own imports resolved (prepare_repl, prepare_impl).
SoundCommandsRight ==
    pending = Idle /\ last.calm /\ ~raced /\ last.kind # "start" =>
        /\ last.out \notin {"panic", "InternalError"}
        /\ last.out = "ok" /\ last.kind # "typecheck" =>
             \A i \in Referred(hub, last.id) :
                LET file == hub.files[i] IN
                /\ file.text.parses /\ file.text.closed
                /\ TypeError \notin ToSet(file.text.walk)
                /\ IsNickel(file) => file.ast = "Typechecked"
                /\ AtLeast(TermStates, file.term, "Transformed")
                /\ Len(file.refs) = Len(ImportsOf(file.text))

\* Between commands the two environments of the REPL agree: a variable has the
\* type of the very binding it has the value of, save for the fields without
\* value of a loaded record and for a let that was typed but then rejected
\* because of a faulty file among its imports (add_type_binding and env_add,
\* add_repl_bindings and env_add_record, with fallible steps between them).
EnvironmentsAgree ==
    pending = Idle /\ ~raced =>
        \A x \in Vars :
            \/ typeEnv[x] = evalEnv[x]
            \/ /\ typeEnv[x] # None
               /\ \/ x \in hub.files[typeEnv[x]].text.declared
                  \/ \E i \in Imported(hub, typeEnv[x]) : ~Flawless(hub, i)

\* An accepted input of the REPL sees the files it imports directly as they
\* are on disk when its imports are resolved, whatever was cached before
\* (get_or_add_file on the path of the import).
FreshImports ==
    [][pending # Idle /\ pending' = Idle /\ last'.kind = "eval" /\ user = "repl"
         /\ last'.out = "ok" =>
         LET file == hub'.files[last'.id]
             paths == ImportsOf(file.text)
         IN  \A k \in DOMAIN paths :
                hub'.files[file.refs[k]].text = disk[paths[k]].text]_vars

\* No command panics: "since we compiled `file_id`, the term cache must be
\* populated" (compile_and_transform), and the other unwrapped results.
NoPanic == last.out # "panic"

=============================================================================
