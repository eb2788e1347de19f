------------------------------ MODULE Pipeline ------------------------------
(***************************************************************************)
(* From a parsed program to its result: the typechecker accepts it, it is  *)
(* translated, and the translation runs (CacheHub and Session model the    *)
(* caches around these steps).  A program in strict mode is typechecked as *)
(* a whole; otherwise only its annotated parts are.  Before that, an       *)
(* editor may ask the language server to rename what is at the cursor or   *)
(* to complete it, and the program is the edited one.                      *)
(***************************************************************************)
EXTENDS Typecheck, Lowering, Analysis

CONSTANTS Candidates, \* families of programs
          Renamed,    \* the programs in which an editor renames
          Completed,  \* the programs in which it completes
          NewName,    \* the name given by a renaming
          ObserveDepth \* how deep a result is looked at

VARIABLES prog,    \* the program
          mode,    \* how it is typechecked
          stage,   \* what has been done with it
          result,  \* what running it gives
          edit     \* the request it was edited by
vars == <<prog, mode, stage, result, edit>>

NoEdit == [k |-> "none"]
Init ==
  /\ \/ \E family \in Candidates : prog \in family /\ mode \in {"Walk", "Enforce"}
     \/ prog \in Renamed \cup Completed /\ mode = "Walk"
  /\ stage = "parsed"
  /\ result = <<>>
  /\ edit = NoEdit

\* The language server answers, and the editor applies the answer.
Rename ==
  /\ stage = "parsed" /\ edit = NoEdit /\ prog \in Renamed
  /\ \E w \in {Analysis(Locate(prog))} :
         \E cur \in Cursors(w) :
           /\ prog' = EditAst(Replacing(handle_rename(w, cur), NewName), prog, "")
           /\ edit' = [k |-> "rename", of |-> prog, old |-> ident(cur.loc)]
  /\ UNCHANGED <<mode, stage, result>>

\* A variable in scope is taken in the place of another one.
CompleteVariable ==
  /\ stage = "parsed" /\ edit = NoEdit /\ prog \in Completed
  /\ \E w \in {Analysis(Locate(prog))} :
         \E cur \in Cursors(w) :
           /\ cur.t.n = "Var"
           /\ \E names \in {handle_completion(w, cur)} :
                  /\ edit' = [k |-> "variable", of |-> prog, offered |-> names, own |-> ident(cur.loc)]
                  /\ \E x \in names : prog' = EditAst(Replacing({cur.loc}, x), prog, "")
  /\ UNCHANGED <<mode, stage, result>>

\* The terms that show in the result, and where.
RECURSIVE Shows(_, _)
Shows(t, path) ==
  {[t |-> t, path |-> path]} \cup
  CASE t.n = "Let" -> Shows(t.body, path)
    [] t.n = "Op" /\ t.op = "Merge" -> {s \in Shows(t.args[1], path) \cup Shows(t.args[2], path) : s.t.n = "Record"}
    [] t.n = "Annot" -> {s \in Shows(t.inner, path) : s.t.n = "Record"}
    [] t.n = "Record" ->
         UNION {Shows(d.value, path \o Names(d, Len(d.path))) :
                d \in {e \in Range(t.defs) : e.value # NoAst /\ StaticUpTo(e, Len(e.path))}}
    [] OTHER -> {}

\* The fields of a record are offered, after the record and a dot or for the
\* last name of a definition; the rest of the program is there already.  The
\* name may be written or not.
CompleteField ==
  /\ stage = "parsed" /\ edit = NoEdit /\ prog \in Completed
  /\ \E w \in {Analysis(Locate(prog))} :
         \E shown \in Shows(Locate(prog), <<>>) : \E cur \in CursorsOf(shown.t) :
           LET n == Len(cur.piece.def.path)
               place == IF IsAccess(cur.t) THEN cur.t.pos ELSE DefAt(cur)
               cut == Analysis(EditAst(Cutting(place), prog, ""))
               At_(a) == Cursor("", FALSE, CHOOSE t \in a.terms : t.n = "ParseError", NoPiece)
           IN  /\ IsAccess(cur.t) \/ (cur.piece # NoPiece /\ cur.piece.i = n)
               /\ prog' = EditAst(Dropping(place), prog, "")
               /\ \E a \in {w} \cup (IF IsAccess(cur.t) \/ n > 1 THEN {cut} ELSE {}) :
                    edit' = [k |-> "field", of |-> prog,
                             offered |-> handle_completion(a, IF a = w THEN cur ELSE At_(a)),
                             path |-> shown.path \o IF IsAccess(cur.t) THEN <<>> ELSE Names(cur.piece.def, n - 1)]
  /\ UNCHANGED <<mode, stage, result>>

TypecheckProgram ==
  /\ stage = "parsed"
  /\ stage' = IF typecheck(prog, NoTypes, mode).ok THEN "typechecked" ELSE "rejected"
  /\ UNCHANGED <<prog, mode, result, edit>>

RunProgram ==
  /\ stage = "typechecked"
  /\ stage' = "done"
  /\ result' = meaning(to_mainline(prog), ObserveDepth)
  /\ UNCHANGED <<prog, mode, edit>>

Next == Rename \/ CompleteVariable \/ CompleteField \/ TypecheckProgram \/ RunProgram
Spec == Init /\ [][Next]_vars

----------------------------------------------------------------------------
\* The failures inside a result.
RECURSIVE FailuresIn(_)
FailuresIn(o) ==
  CASE o = <<>> -> {}
    [] o # <<>> /\ o[1] = "Fail" -> {o[2]}
    [] o # <<>> /\ o[1] \in {"Rec", "Arr"} /\ Len(o) = 2 -> UNION {FailuresIn(o[2][x]) : x \in DOMAIN o[2]}
    [] o # <<>> /\ o[1] = "Enum" /\ Len(o) = 3 -> FailuresIn(o[3])
    [] OTHER -> {}

\* A value that no branch accepts is an error of one kind or of another.
Kind(why) == IF why \in {"stuck", "nomatch"} THEN "error" ELSE why
RECURSIVE Coarse(_)
Coarse(o) ==
  CASE o[1] = "Fail" -> <<"Fail", Kind(o[2])>>
    [] o[1] \in {"Rec", "Arr"} /\ Len(o) = 2 -> <<o[1], [x \in DOMAIN o[2] |-> Coarse(o[2][x])]>>
    [] o[1] = "Enum" /\ Len(o) = 3 -> <<o[1], o[2], Coarse(o[3])>>
    [] OTHER -> o

\* The terms and the annotations directly below a term.
TermsOf(t) ==
  CASE t.n \in {"Null", "Bool", "Num", "Str", "Type", "Var", "Import"} -> {}
    [] t.n \in {"Chunks", "If", "Op"} -> Range(t.args)
    [] t.n = "Enum" -> {t.arg}
    [] t.n = "Array" -> Range(t.elts)
    [] t.n = "App" -> {t.head} \cup Range(t.args)
    [] t.n = "Annot" -> {t.inner}
    [] t.n = "Fun" -> {t.body}
    [] t.n = "Let" -> {t.body} \cup {t.bs[i].value : i \in DOMAIN t.bs}
    [] t.n = "Match" -> UNION {{t.branches[i].body, t.branches[i].guard} : i \in DOMAIN t.branches}
    [] OTHER -> UNION {{t.defs[i].value} \cup {t.defs[i].path[j].expr : j \in DOMAIN t.defs[i].path} :
                         i \in DOMAIN t.defs}
AnnotsOf(t) ==
  CASE t.n = "Annot" -> {t.annot}
    [] t.n = "Let" -> {t.bs[i].annot : i \in DOMAIN t.bs}
    [] t.n = "Record" -> {t.defs[i].annot : i \in DOMAIN t.defs}
                           \cup {t.includes[i].annot : i \in DOMAIN t.includes}
    [] OTHER -> {}
RECURSIVE Unannotated(_)
Unannotated(t) ==
  AnnotsOf(t) \subseteq {NoAnnot} /\ \A s \in TermsOf(t) \ {NoAst} : Unannotated(s)

\* Code below a contract is not typechecked: there, only a variable or a
\* constant is sure to have a value.
RECURSIVE Static(_)
Static(t) ==
  LET plain(a, v) == a.contracts = <<>> \/ a.typ # NoType \/ v.n \in {"Var", "Num", "Str", "Bool", "none"}
  IN  /\ CASE t.n = "Annot" -> plain(t.annot, t.inner)
           [] t.n = "Let" -> \A i \in DOMAIN t.bs : plain(t.bs[i].annot, t.bs[i].value)
           [] t.n = "Record" -> \A i \in DOMAIN t.defs : plain(t.defs[i].annot, t.defs[i].value)
           [] OTHER -> TRUE
      /\ \A s \in TermsOf(t) \ {NoAst} : Static(s)

\* Are the variables and the imports of a term among what is in scope?
RECURSIVE Closed(_, _)
Closed(t, ids) ==
  CASE t.n \in {"Null", "Bool", "Num", "Str", "Type"} -> TRUE
    [] t.n = "Var" -> t.id \in ids
    [] t.n = "Import" -> t.file \in DOMAIN Imports
    [] t.n \in {"Chunks", "If", "Op", "Enum", "Array", "App", "Annot"} ->
         \A s \in TermsOf(t) \ {NoAst} : Closed(s, ids)
    [] t.n = "Fun" -> Closed(t.body, ids \cup UNION {bindings(t.args[i]) : i \in DOMAIN t.args})
    [] t.n = "Let" ->
         LET in == ids \cup BoundBy(t.bs)
         IN  Closed(t.body, in) /\ \A i \in DOMAIN t.bs : Closed(t.bs[i].value, IF t.rec THEN in ELSE ids)
    [] t.n = "Match" ->
         \A i \in DOMAIN t.branches :
           LET b == t.branches[i]
               in == ids \cup bindings(b.pat)
           IN  Closed(b.body, in) /\ (b.guard = NoAst \/ Closed(b.guard, in))
    [] OTHER ->
         LET own == {t.defs[i].path[1].id : i \in {j \in DOMAIN t.defs : t.defs[j].path[1].expr = NoAst}}
             in  == ids \cup own \cup {t.includes[i].id : i \in DOMAIN t.includes}
         IN  /\ \A i \in DOMAIN t.includes : t.includes[i].id \in ids
             /\ \A i \in DOMAIN t.defs :
                  LET d == t.defs[i]
                  IN  /\ d.value = NoAst \/ Closed(d.value, in)
                      /\ \A j \in DOMAIN d.path :
                           d.path[j].expr = NoAst \/ Closed(d.path[j].expr, IF j = 1 THEN ids ELSE in)

\* A contract with the variables replaced by what they stand for; the fields
\* of a record in no order.
RECURSIVE Expand(_, _)
Expand(t, env) ==
  CASE t.n = "Var" /\ t.id \in DOMAIN env -> Expand(env[t.id].ast, env[t.id].env)
    [] t.n = "Enum" -> [t EXCEPT !.arg = IF @ = NoAst THEN @ ELSE Expand(@, env)]
    [] t.n = "App" ->
         [t EXCEPT !.head = Expand(@, env), !.args = [i \in DOMAIN @ |-> Expand(@[i], env)]]
    [] t.n = "Op" -> [t EXCEPT !.args = [i \in DOMAIN @ |-> Expand(@[i], env)]]
    [] t.n = "Array" -> [t EXCEPT !.elts = [i \in DOMAIN @ |-> Expand(@[i], env)]]
    [] t.n = "Record" ->
         [t EXCEPT !.defs = {[@[i] EXCEPT !.value = Expand(@, env)] : i \in DOMAIN @}]
    [] OTHER -> t
\* A cast goes from a contract to another, below bindings of constants.
IsCast(t) == t.n = "Annot" /\ t.inner.n = "Annot" /\ t.inner.inner = Null
RECURSIVE CastIn(_, _)
CastIn(t, env) ==
  IF t.n = "Let" /\ \A i \in DOMAIN t.bs : t.bs[i].pat.p = "Any"
  THEN CastIn(t.body, [id \in BoundBy(t.bs) |->
                         [ast |-> t.bs[CHOOSE i \in DOMAIN t.bs : t.bs[i].pat.id = id].value, env |-> env]] @@ env)
  ELSE [cast |-> IsCast(t), t |-> t, env |-> env]

\* A result with the new name for the old one; it does not have both.
Clash == <<"Clash">>
RECURSIVE Back(_, _)
Back(o, old) ==
  CASE o[1] = "Rec" /\ Len(o) = 2 ->
         IF {NewName, old} \subseteq DOMAIN o[2] THEN Clash
         ELSE <<"Rec", [x \in {IF y = NewName THEN old ELSE y : y \in DOMAIN o[2]} |->
                          Back(o[2][IF x = old /\ NewName \in DOMAIN o[2] THEN NewName ELSE x], old)]>>
    [] o[1] = "Arr" /\ Len(o) = 2 -> <<"Arr", [i \in DOMAIN o[2] |-> Back(o[2][i], old)]>>
    [] o[1] = "Enum" /\ Len(o) = 3 -> <<o[1], o[2], Back(o[3], old)>>
    [] OTHER -> o
\* The fields of a result at a path, if the result is known so far.
NoFields == {"?"}
RECURSIVE FieldsAt(_, _)
FieldsAt(o, path) ==
  CASE o[1] = "Fail" \/ o = <<"Rec">> -> NoFields
    [] o[1] = "Rec" /\ path = <<>> -> DOMAIN o[2]
    [] o[1] = "Rec" /\ path # <<>> /\ path[1] \in DOMAIN o[2] -> FieldsAt(o[2][path[1]], Tail(path))
    [] OTHER -> {}

----------------------------------------------------------------------------
(***************************************************************************)
(* Properties.                                                             *)
(***************************************************************************)
\* Running the translation of a program gives what the program means: the
\* first branch whose pattern matches and whose guard holds is taken, with
\* the variables of its own pattern only; a destructuring is a match with
\* one branch; the definitions of a field are merged (compat.rs, compile.rs).
TranslationRight ==
  stage = "done" => Coarse(result) = Coarse(meaning(prog, ObserveDepth))

\* Typed code is never at fault: the contract of a static type annotation
\* fails because of a value that comes from untyped code, if it fails.  This
\* is what allows leaving out the other checks (contract_static).
TypedCodeNotBlamed ==
  stage = "done" => "typed" \notin FailuresIn(meaning(prog, ObserveDepth))

\* A program that is typechecked as a whole, with no untyped code below a
\* contract, never meets a value of another type than an operation wants,
\* nor an unbound variable (typecheck).
WellTypedDontGoWrong ==
  stage = "done" /\ mode = "Enforce" /\ Static(prog) => "stuck" \notin FailuresIn(result)

\* Renaming what is at the cursor changes no meaning: the program is accepted
\* as before and runs to the same result, with the new name in it, whichever
\* occurrence the cursor is at (handle_rename, get_defs, get_field_refs).
RenameSafe ==
  edit.k = "rename" /\ stage \in {"rejected", "done"} =>
    IF typecheck(edit.of, NoTypes, mode).ok
    THEN stage = "done" /\ Back(result, edit.old) = meaning(edit.of, ObserveDepth)
    ELSE stage = "rejected"

\* Completion offers what is there: the variables in scope, so that any of
\* them can be taken; and exactly the fields that the record has when the
\* program runs, without the one being written (handle_completion).
CompletionRight ==
  /\ edit.k = "variable" /\ typecheck(edit.of, NoTypes, mode).ok => stage # "rejected" /\ edit.own \in edit.offered
  /\ edit.k = "field" /\ stage = "done" => FieldsAt(result, edit.path) \in {edit.offered, NoFields}
=============================================================================
