------------------------------ MODULE CacheHub ------------------------------
(***************************************************************************)
(* The caches behind one interpreter (core/src/cache.rs, CacheHub): which  *)
(* file ids there are, how far the syntax tree and the runtime term of     *)
(* each one have been processed, and which files import which.  Operators  *)
(* map a hub and a disk to what a method leaves and returns.               *)
(*                                                                         *)
(* A hub is a record                                                       *)
(*     files : a sequence; a file id is an index.  A file has a text, the  *)
(*             state of its AST entry and of its term entry, the ids it is *)
(*             recorded to import (import_data.imports), and the ids its   *)
(*             term refers to since its imports were resolved              *)
(*     ids   : the name-id table, from names to an id and a time stamp     *)
(* A text is whether it parses, whether its types are closed, the variable *)
(* it binds if it is a toplevel let, the fields it defines or declares if  *)
(* it is a record, and `walk`: the imports, variables and type errors in   *)
(* the order in which the typechecker and the traversals meet them.        *)
(***************************************************************************)
EXTENDS Integers, SequencesExt, FiniteSetsExt

CONSTANTS
    Paths,      \* files on disk
    Nickel,     \* those in the Nickel format; the others are data
    Vars,       \* identifiers
    NoVar,      \* a text that is not a toplevel let
    TypeError,  \* a step of `walk`: a static type error
    NoFile,     \* a path with nothing on disk
    NoEntry,    \* a name without entry in the name-id table
    None        \* the position of an id in a cache that does not hold it

ASSUME CacheHubAssumption ==
    /\ Nickel \subseteq Paths
    /\ NoVar \notin Vars
    /\ Paths \cap Vars = {}
    /\ TypeError \notin Paths \cup Vars

AstStates == <<"Parsed", "Typechecking", "Typechecked">>
TermStates == <<"Populated", "ImportsResolving", "ImportsResolved",
                "Transforming", "Transformed", "Closurized">>

\* The derived order of the states of an entry.
AtLeast(order, s, t) ==
    s # None /\ \E i, j \in DOMAIN order : order[i] = s /\ order[j] = t /\ i >= j

IsNickel(file) == file.name \notin Paths \ Nickel
ImportsOf(text) == SelectSeq(text.walk, LAMBDA step : step \in Paths)
UsesOf(text) == {text.walk[i] : i \in DOMAIN text.walk} \cap Vars

NewFile(name, text) ==
    [name |-> name, text |-> text, ast |-> None, term |-> None,
     imports |-> {}, refs |-> <<>>]

NewHub(names) == [files |-> <<>>, ids |-> [n \in names |-> NoEntry]]

\* What a method returns besides the hub: "ok" or the kind of its error.
Ret(hub, out) == [hub |-> hub, out |-> out]

\* The ? operator: the rest runs only if nothing failed so far.
Then(r, Rest(_)) == IF r.out = "ok" THEN Rest(r.hub) ELSE r

SetAst(hub, id, state) == [hub EXCEPT !.files[id].ast = state]
SetTerm(hub, id, state) == [hub EXCEPT !.files[id].term = state]

\* A new term entry, in the default state, whose imports are not resolved.
Populate(hub, id) == [hub EXCEPT !.files[id].term = "Populated", !.files[id].refs = <<>>]

\* add_string, and add_normalized_file: a fresh id takes over the name.
AddSource(hub, name, text, ts) ==
    [files |-> Append(hub.files, NewFile(name, text)),
     ids |-> [hub.ids EXCEPT ![name] = [id |-> Len(hub.files) + 1, ts |-> ts]]]

\* CacheHub::replace_string: the id of the name is reused, what the AST and
\* the term cache hold for it is dropped, what it imported is not.
ReplaceString(hub, name, text) ==
    IF hub.ids[name] = NoEntry
    THEN AddSource(hub, name, text, 0)
    ELSE [hub EXCEPT !.files[hub.ids[name].id] =
            [@ EXCEPT !.text = text, !.ast = None, !.term = None, !.refs = <<>>]]

\* Mutant: a file is read once, and never again.
GetOrAddFileOnce(hub, disk, path) ==
    IF hub.ids[path] # NoEntry
    THEN Ret(hub, "ok")
    ELSE IF disk[path] = NoFile
    THEN Ret(hub, "ImportError")
    ELSE Ret(AddSource(hub, path, disk[path].text, disk[path].ts), "ok")

\* get_or_add_file: the id of the path if its time stamp is the one on disk,
\* else a new id.  A file that does not exist is an error even when cached.
GetOrAddFile(hub, disk, path) ==
    IF disk[path] = NoFile
    THEN Ret(hub, "ImportError")
    ELSE IF hub.ids[path] # NoEntry /\ hub.ids[path].ts = disk[path].ts
    THEN Ret(hub, "ok")
    ELSE Ret(AddSource(hub, path, disk[path].text, disk[path].ts), "ok")

\* Both resolvers record the import before they look at the imported text.
RecordImport(hub, parent, path) ==
    [hub EXCEPT !.files[parent].imports = @ \cup {hub.ids[path].id}]

\* parse_to_ast and AstCache::parse_nickel.
ParseToAst(hub, id) ==
    IF hub.files[id].ast # None
    THEN Ret(hub, "ok")
    ELSE IF hub.files[id].text.parses
    THEN Ret(SetAst(hub, id, "Parsed"), "ok")
    ELSE Ret(hub, "ParseErrors")

\* AstResolver::resolve: data files are left for later.
AstResolve(hub, disk, parent, path) ==
    Then(GetOrAddFile(hub, disk, path), LAMBDA h1 :
        LET h2 == RecordImport(h1, parent, path) IN
        IF path \in Nickel THEN ParseToAst(h2, h2.ids[path].id) ELSE Ret(h2, "ok"))

\* typecheck::typecheck in Walk mode, as far as it concerns the caches.
WalkAst(hub, disk, typeEnv, id) ==
    LET Step(r, step) ==
            Then(r, LAMBDA h :
                IF step \in Paths THEN AstResolve(h, disk, id, step)
                ELSE IF step \in Vars /\ typeEnv[step] # None THEN Ret(h, "ok")
                ELSE Ret(h, "TypecheckError"))
    IN  FoldLeft(Step, Ret(hub, "ok"), hub.files[id].text.walk)

\* A HashSet of ids in one of its iteration orders: ascending, or descending
\* for the names in `flipped`.
Iterated(hub, id, flipped) ==
    LET up == SetToSortSeq(hub.files[id].imports, <)
    IN  IF hub.files[id].name \in flipped THEN Reverse(up) ELSE up

RECURSIVE Typecheck(_, _, _, _, _)

\* Mutant: only the file itself is checked, the imports are found already
\* under way.
TypecheckSkipsImports(hub, disk, typeEnv, id, flipped) ==
    IF hub.files[id].ast = None
    THEN Ret(hub, "IncompatibleState")
    ELSE IF AtLeast(AstStates, hub.files[id].ast, "Typechecking")
    THEN Ret(hub, "ok")
    ELSE Then(WalkAst(SetAst(hub, id, "Typechecking"), disk, typeEnv, id),
              LAMBDA h : Ret(SetAst(h, id, "Typechecked"), "ok"))

\* AstCache::typecheck.  The state is set before the file is walked, and is
\* left there when the walk, or an import, fails.
Typecheck(hub, disk, typeEnv, id, flipped) ==
    IF hub.files[id].ast = None
    THEN Ret(hub, "IncompatibleState")
    ELSE IF AtLeast(AstStates, hub.files[id].ast, "Typechecking")
    THEN Ret(hub, "ok")
    ELSE Then(WalkAst(SetAst(hub, id, "Typechecking"), disk, typeEnv, id), LAMBDA h :
            LET Import(r, i) == Then(r, LAMBDA g : Typecheck(g, disk, typeEnv, i, flipped))
                nickel == SelectSeq(Iterated(h, id, flipped), LAMBDA i : IsNickel(h.files[i]))
            IN  Then(FoldLeft(Import, Ret(h, "ok"), nickel),
                     LAMBDA g : Ret(SetAst(g, id, "Typechecked"), "ok")))

RECURSIVE CompileLoop(_, _, _)

\* The loop of compile over its stack of files to convert.  The main file
\* counts as Nickel whatever its format.
CompileLoop(hub, main, stack) ==
    IF stack = <<>> THEN Ret(hub, "ok") ELSE
    LET id == Last(stack)
        file == hub.files[id]
        rest == Front(stack) \o SetToSortSeq(file.imports, <)
    IN  IF file.term # None
        THEN CompileLoop(hub, main, Front(stack))
        ELSE IF id = main \/ IsNickel(file)
        THEN IF file.ast = None
             THEN Ret(hub, "IncompatibleState")
             ELSE CompileLoop(Populate(hub, id), main, rest)
        ELSE IF file.text.parses
        THEN CompileLoop(Populate(hub, id), main, rest)
        ELSE Ret(hub, "ImportError")

Compile(hub, main) ==
    IF hub.files[main].term # None THEN Ret(hub, "ok") ELSE CompileLoop(hub, main, <<main>>)

\* parse_to_term: a Nickel file that cannot be compiled from the AST cache is
\* parsed again, whatever compile has done until then.
ParseToTerm(hub, id) ==
    LET Parsed(h) == IF h.files[id].text.parses
                     THEN Ret(Populate(h, id), "ok")
                     ELSE Ret(h, "ParseErrors")
        OrParsed(compiled) == IF compiled.out = "ok" THEN compiled ELSE Parsed(compiled.hub)
    IN  IF hub.files[id].term # None THEN Ret(hub, "ok")
        ELSE IF IsNickel(hub.files[id]) THEN OrParsed(Compile(hub, id))
        ELSE Parsed(hub)

\* The ImportResolver of CacheHub.
TermResolve(hub, disk, parent, path) ==
    LET Imported(r) == Ret(r.hub, IF r.out = "ok" THEN "ok" ELSE "ImportError")
    IN  Then(GetOrAddFile(hub, disk, path), LAMBDA h :
            Imported(ParseToTerm(RecordImport(h, parent, path), h.ids[path].id)))

\* import_resolution::strict: every import is tried, the first error counts.
StrictResolve(hub, disk, id) ==
    LET Joined(acc, path, r) ==
            [hub |-> r.hub,
             out |-> IF acc.out = "ok" THEN r.out ELSE acc.out,
             refs |-> IF r.out = "ok" THEN Append(acc.refs, r.hub.ids[path].id)
                      ELSE acc.refs]
        Step(acc, path) == Joined(acc, path, TermResolve(acc.hub, disk, id, path))
    IN  FoldLeft(Step, [hub |-> hub, out |-> "ok", refs |-> <<>>],
                 ImportsOf(hub.files[id].text))

RECURSIVE ResolveImports(_, _, _)

\* CacheHub::resolve_imports.
ResolveImports(hub, disk, id) ==
    LET file == hub.files[id]
        Import(r, i) == Then(r, LAMBDA h : ResolveImports(h, disk, i))
        Started(resolved) ==
            Ret([resolved.hub EXCEPT !.files[id].term = "ImportsResolving",
                                     !.files[id].refs = resolved.refs], "ok")
        Continue(resolved) ==
            IF resolved.out # "ok" THEN Ret(resolved.hub, resolved.out)
            ELSE Then(FoldLeft(Import, Started(resolved), resolved.refs),
                      LAMBDA h : Ret(SetTerm(h, id, "ImportsResolved"), "ok"))
    IN  IF file.term = None
        THEN Ret(hub, "IncompatibleState")
        ELSE IF AtLeast(TermStates, file.term, "ImportsResolving")
        THEN Ret(hub, "ok")
        ELSE IF ~IsNickel(file)
        THEN Ret(SetTerm(hub, id, "ImportsResolved"), "ok")
        ELSE Continue(StrictResolve(hub, disk, id))

RECURSIVE Transform(_, _, _)

\* TermCache::transform.  The entry is taken out, and lost when an unbound
\* type variable makes the transformation of the file itself fail.
Transform(hub, id, flipped) ==
    LET file == hub.files[id]
        Import(r, i) == Then(r, LAMBDA h : Transform(h, i, flipped))
    IN  IF file.term = None
        THEN Ret(hub, "IncompatibleState")
        ELSE IF AtLeast(TermStates, file.term, "Transforming")
        THEN Ret(hub, "ok")
        ELSE IF ~file.text.closed
        THEN Ret(SetTerm(hub, id, None), "UnboundTypeVariable")
        ELSE Then(FoldLeft(Import, Ret(SetTerm(hub, id, "Transforming"), "ok"),
                           Iterated(hub, id, flipped)),
                  LAMBDA h : Ret(SetTerm(h, id, "Transformed"), "ok"))

CompileAndTransform(hub, disk, id, flipped) ==
    Then(Compile(hub, id), LAMBDA h1 :
        Then(ResolveImports(h1, disk, id), LAMBDA h2 : Transform(h2, id, flipped)))

RECURSIVE Closurize(_, _)

\* TermCache::closurize.
Closurize(hub, id) ==
    LET Import(r, i) == Then(r, LAMBDA h : Closurize(h, i)) IN
    IF hub.files[id].term = None
    THEN Ret(hub, "IncompatibleState")
    ELSE IF hub.files[id].term = "Closurized"
    THEN Ret(hub, "ok")
    ELSE FoldLeft(Import, Ret(SetTerm(hub, id, "Closurized"), "ok"),
                  SetToSortSeq(hub.files[id].imports, <))

\* transitive_imports, along `next`, a function from ids to sets of ids.
RECURSIVE Closure(_, _)
Closure(next, S) ==
    LET T == S \cup UNION {next[i] : i \in S}
    IN  IF T = S THEN S ELSE Closure(next, T)

\* The files a term refers to, through the terms of its imports.
Referred(hub, id) ==
    Closure([i \in DOMAIN hub.files |-> ToSet(hub.files[i].refs)], {id})

\* Evaluating a term to the end: a variable is looked up in the environment
\* of the session or, inside an imported file, in the standard library alone;
\* an import is looked up in the term cache.
Evaluate(hub, evalEnv, id) ==
    LET reached == Referred(hub, id)
        unresolved(i) == Len(hub.files[i].refs) # Len(ImportsOf(hub.files[i].text))
    IN  IF \E i \in reached : hub.files[i].term = None \/ unresolved(i)
        THEN "InternalError"
        ELSE IF \/ \E x \in UsesOf(hub.files[id].text) : evalEnv[x] = None
                \/ \E i \in reached \ {id} : UsesOf(hub.files[i].text) # {}
        THEN "UnboundIdentifier"
        ELSE "ok"
=============================================================================
