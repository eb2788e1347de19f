----------------------------- MODULE Typecheck -----------------------------
(***************************************************************************)
(* The typechecker (core/src/typecheck/mod.rs and record.rs): walking      *)
(* untyped code in search of annotations, checking a term against a type   *)
(* and inferring a type.  Terms are those of Unify with, in addition,      *)
(*   Fun(args, body), Let(bs, body, rec), Match(branches),                 *)
(*   If(args), Chunks(args), Import(file),                                 *)
(* where a let-binding has a pattern, an annotation and a value.  The      *)
(* context has the typing environment, the term environment (closures, for *)
(* the equality of contracts), the variable level and the stack depth.     *)
(***************************************************************************)
EXTENDS Programs

CONSTANT StackDepth \* the depth at which the program's stack overflows

Dyn == Atom("Dyn")
NoTypes == [x \in {} |-> NoType]
Insert(env, id, x) == (id :> x) @@ env
WithType(ctxt, id, t) == [ctxt EXCEPT !.type_env = Insert(@, id, t)]
WithTerm(ctxt, id, ast, env) ==
  [ctxt EXCEPT !.term_env = Insert(@, id, [ast |-> ast, env |-> env])]

WithBindings(ctxt, bs) ==
  LET f[i \in 0 .. Len(bs)] ==
        IF i = 0 THEN ctxt ELSE WithType(f[i - 1], bs[i].id, bs[i].typ)
  IN  f[Len(bs)]

----------------------------------------------------------------------------
(***************************************************************************)
(* Apparent types.                                                         *)
(***************************************************************************)
Apparent(kind, t) == [kind |-> kind, typ |-> t]
Approximated == Apparent("Approximated", Dyn)

RECURSIVE HasOp(_, _)
HasOp(t, op) == IsCon(t, op) \/ (t.k = "con" /\ \E i \in DOMAIN t.sub : HasOp(t.sub[i], op))
has_wildcards(t) == HasOp(t, "Wildcard")

\* Without an environment, a variable is approximated (apparent_type_move).
RECURSIVE apparent_type(_, _, _)
apparent_type(ast, env, resolve_imports) ==
  CASE ast.n = "Annot" /\ first(ast.annot) # NoType -> Apparent("Annotated", first(ast.annot))
    [] ast.n = "Annot" -> apparent_type(ast.inner, env, resolve_imports)
    [] ast.n = "Num" -> Apparent("Inferred", Atom("Number"))
    [] ast.n = "Bool" -> Apparent("Inferred", Atom("Bool"))
    [] ast.n \in {"Str", "Chunks"} -> Apparent("Inferred", Atom("String"))
    [] ast.n = "Array" -> Apparent("Approximated", array(Dyn))
    [] ast.n = "Var" /\ ast.id \in DOMAIN env -> Apparent("FromEnv", env[ast.id])
    [] /\ ast.n = "Import" /\ resolve_imports
       /\ ast.file \in DOMAIN Imports /\ Imports[ast.file] # NoAst ->
         apparent_type(Imports[ast.file], NoTypes, FALSE)
    [] OTHER -> Approximated

\* Of a field definition or a let-binding.
apparent_def(annot, value, env) ==
  CASE first(annot) # NoType -> Apparent("Annotated", first(annot))
    [] value # NoAst -> apparent_type(value, env, TRUE)
    [] OTHER -> Approximated

apparent_field(f, env) ==
  CASE ~IsEmptyRecord(f.resolved) \/ f.defs = <<>> -> Approximated
    [] Len(f.defs) = 1 -> apparent_def(f.defs[1].annot, f.defs[1].value, env)
    [] first_annot(f.defs) # NoType -> Apparent("Annotated", first_annot(f.defs))
    [] OTHER -> Approximated

from_apparent_type(a, env) ==
  CASE a.kind = "Annotated" /\ has_wildcards(a.typ) -> Dyn
    [] a.kind = "FromEnv" -> a.typ
    [] OTHER -> from_type(a.typ, env)

\* replace_wildcards_with_var: the variables of the wildcards are created
\* first, from the left; then every wildcard is replaced.
RECURSIVE WildcardsIn(_), ReplaceWildcards(_, _)
WildcardsIn(t) ==
  IF IsCon(t, "Wildcard") THEN {t.n}
  ELSE UNION {WildcardsIn(t.sub[i]) : i \in DOMAIN t.sub}
ReplaceWildcards(st, t) ==
  LET sub == [i \in DOMAIN t.sub |-> ReplaceWildcards(st, t.sub[i])]
  IN  IF t.k # "con" THEN t
      ELSE IF t.op = "Wildcard" THEN st.wildcard_vars[t.n]
      ELSE [t EXCEPT !.sub = sub, !.ub = BoundOf(t.op, sub)]
replace_wildcards_with_var(st, t, ctxt) ==
  LET s == IF WildcardsIn(t) = {} THEN st
           ELSE get_wildcard_var(st, Largest(WildcardsIn(t)), ctxt.var_level)
  IN  [st |-> s, typ |-> ReplaceWildcards(s, from_type(t, ctxt.term_env))]

FreshType(st, ctxt) ==
  LET f == fresh_var_id(st, "type", ctxt.var_level)
  IN  [st |-> f, typ |-> LastVar(f, "type", ctxt.var_level)]

apparent_or_infer(st, a, ctxt, strict) ==
  CASE strict /\ a.kind = "Annotated" -> replace_wildcards_with_var(st, a.typ, ctxt)
    [] strict /\ a.kind = "Approximated" -> FreshType(st, ctxt)
    [] OTHER -> [st |-> st, typ |-> from_apparent_type(a, ctxt.term_env)]

binding_type(st, b, ctxt, strict) ==
  apparent_or_infer(st, apparent_def(b.annot, b.value, ctxt.type_env), ctxt, strict)

----------------------------------------------------------------------------
(***************************************************************************)
(* The types of the primitive operations used by the programs that are     *)
(* checked here (primop_type of operation.rs): arguments and result.       *)
(***************************************************************************)
primop_type(st, ast, ctxt) ==
  LET a  == FreshType(st, ctxt)
      b  == FreshType(a.st, ctxt)
      rw == fresh_var_id(a.st, "rrows", ctxt.var_level)
      TNum == Atom("Number")
      TStr == Atom("String")
      Sig(s, args, res) == [st |-> s, args |-> args, res |-> res]
  IN  CASE ast.op = "RecordStatAccess" ->
             Sig(rw, <<Record(RRow(ast.id, a.typ, LastVar(rw, "rrows", ctxt.var_level)))>>, a.typ)
        [] ast.op = "Plus" -> Sig(st, <<TNum, TNum>>, TNum)
        [] ast.op = "Eq" -> Sig(b.st, <<a.typ, b.typ>>, Atom("Bool"))
        [] ast.op = "StringLength" -> Sig(st, <<TStr>>, TNum)
        [] ast.op = "BoolNot" -> Sig(st, <<Atom("Bool")>>, Atom("Bool"))
        [] ast.op = "Merge" -> Sig(st, <<Dyn, Dyn>>, Dyn)
        [] ast.op = "ArrayAt" -> Sig(a.st, <<array(a.typ), TNum>>, a.typ)
        [] ast.op = "RecordGet" -> Sig(a.st, <<TStr, dict(a.typ)>>, a.typ)
        [] ast.op = "RecordInsert" -> Sig(a.st, <<TStr, dict(a.typ), a.typ>>, dict(a.typ))

----------------------------------------------------------------------------
(***************************************************************************)
(* The visitors call each other and themselves through visit, which says   *)
(* what is done with a node (or with the types that are to be related).    *)
(***************************************************************************)
RECURSIVE visit(_, _, _, _, _)
walk(ast, st, ctxt) == visit("walk", ast, st, ctxt, NoType)
check(ast, st, ctxt, ty) == visit("check", ast, st, ctxt, ty)
infer(ast, st, ctxt) == visit("infer", ast, st, ctxt, NoType)
walk_rec(rec, includes, st, ctxt) ==
  visit("walk_record", [rec |-> rec, includes |-> includes], st, ctxt, NoType)
check_rec(rec, includes, st, ctxt, ty) ==
  visit("check_record", [rec |-> rec, includes |-> includes], st, ctxt, ty)
walk_field(f, st, ctxt) == visit("walk_field", f, st, ctxt, NoType)
check_field(f, st, ctxt, ty) == visit("check_field", f, st, ctxt, ty)
walk_with_annot(annots, value, st, ctxt) ==
  visit("walk_annot", [annots |-> annots, value |-> value], st, ctxt, NoType)
infer_with_annot(annots, value, st, ctxt) ==
  visit("infer_annot", [annots |-> annots, value |-> value], st, ctxt, NoType)
sub_pattern(pat, d, path, ctxt, mode) == visit("pattern", [pat |-> pat, path |-> path], d, ctxt, mode)
equate(st, t1, t2, ctxt) == visit("unify", t1, st, ctxt, t2)
subsume(st, t1, t2, ctxt) == visit("subsumed_by", t1, st, ctxt, t2)

----------------------------------------------------------------------------
(***************************************************************************)
(* Sequencing: F(st, i) for i = 1 .. n, up to the first error.             *)
(***************************************************************************)
ForEach(st, n, F(_, _)) ==
  LET f[i \in 0 .. n] ==
        IF i = 0 THEN Ok(st)
        ELSE IF f[i - 1].ok THEN F(f[i - 1].st, i) ELSE f[i - 1]
  IN  f[n]

----------------------------------------------------------------------------
(***************************************************************************)
(* The types of patterns (core/src/typecheck/pattern.rs).  The type of a   *)
(* pattern comes with the bindings, the tails of the enum types left open  *)
(* and the paths at which a wildcard accepts anything; the caller closes   *)
(* the tails.                                                              *)
(***************************************************************************)
\* The elements of a pattern path.
AtField(id) == [at |-> "Field", id |-> id, idx |-> 0]
AtArray(i)  == [at |-> "Array", id |-> "", idx |-> i]
AtVariant   == [at |-> "Variant", id |-> "", idx |-> 0]

\* What pattern_types_inj accumulates, and the type it returns (rows for
\* the fields of a record pattern).
PatData(st) ==
  [ok |-> TRUE, st |-> st, typ |-> NoType, bindings |-> <<>>, tails |-> <<>>, wilds |-> {}]
Bind(d, id, t) == [d EXCEPT !.bindings = Append(@, [id |-> id, typ |-> t])]
Typed(d, t) == [d EXCEPT !.typ = t]
OnState(d, r) == [d EXCEPT !.st = r.st, !.ok = r.ok]

Fresh(d, s, ctxt) ==
  LET f == fresh_var_id(d.st, s, ctxt.var_level)
  IN  [d EXCEPT !.st = f, !.typ = LastVar(f, s, ctxt.var_level)]

any_type(d, ctxt, mode) == IF mode = "Walk" THEN Typed(d, Atom("Dyn")) ELSE Fresh(d, "type", ctxt)

\* The type of a pattern is also t.
Meets(d, t, ctxt) == IF d.ok THEN OnState(d, equate(d.st, d.typ, t, ctxt)) ELSE d
MetBy(d, t, ctxt) == IF d.ok THEN OnState(d, equate(d.st, t, d.typ, ctxt)) ELSE d

\* A field with a static type: in walk mode a leaf just takes it, otherwise
\* the type of the pattern is unified with it.
field_types(f, d, path, ctxt, mode) ==
  LET annot == from_type(f.annot.typ, ctxt.term_env)
      sub   == sub_pattern(f.pat, d, Append(path, AtField(f.id)), ctxt, mode)
  IN  CASE f.annot.typ # NoType /\ mode = "Walk" /\ f.pat.p = "Any" ->
             Typed(Bind(d, f.pat.id, annot), annot)
        [] f.annot.typ # NoType /\ mode = "Walk" /\ f.pat.p = "Wildcard" -> Typed(d, annot)
        [] OTHER -> IF f.annot.typ = NoType THEN sub ELSE Meets(sub, annot, ctxt)

\* The rows are consed in front of the tail, the last field first.
record_types(pat, d, path, ctxt, mode) ==
  LET open  == IF pat.tail = "Empty" THEN Typed(d, Empty("rrows"))
               ELSE IF mode = "Walk" THEN Typed(d, TailDyn)
               ELSE Fresh(d, "rrows", ctxt)
      rest  == IF pat.tail = "Capture" THEN Bind(open, pat.rest, Record(open.typ)) ELSE open
      Row(i, f, below) == Typed(f, RRow(pat.fields[i].id, f.typ, below))
      rows[i \in 0 .. Len(pat.fields)] ==
        IF i = 0 THEN rest
        ELSE IF ~rows[i - 1].ok THEN rows[i - 1]
        ELSE Row(i, field_types(pat.fields[i], rows[i - 1], path, ctxt, mode), rows[i - 1].typ)
      All(d2) == Typed(d2, Record(d2.typ))
  IN  All(rows[Len(pat.fields)])

array_types(pat, d, path, ctxt, mode) ==
  LET elem  == any_type(d, ctxt, mode)
      elt(i, prev) == sub_pattern(pat.pats[i], prev, Append(path, AtArray(i)), ctxt, mode)
      elts[i \in 0 .. Len(pat.pats)] ==
        IF i = 0 THEN elem
        ELSE IF ~elts[i - 1].ok THEN elts[i - 1]
        ELSE IF mode = "Walk" THEN elt(i, elts[i - 1]) ELSE MetBy(elt(i, elts[i - 1]), elem.typ, ctxt)
      All(last) == Typed(IF pat.tail = "Capture" THEN Bind(last, pat.rest, array(elem.typ)) ELSE last,
                         array(elem.typ))
  IN  All(elts[Len(pat.pats)])

enum_types(pat, d, path, ctxt, mode) ==
  LET Cased(arg, tail) ==
        [tail EXCEPT !.tails = Append(@, [path |-> path, tail |-> tail.typ]),
                     !.typ = Enum(IF pat.arg = NoPat THEN ETag(pat.tag, tail.typ)
                                  ELSE ERow(pat.tag, arg.typ, tail.typ))]
      Arg(arg) == Cased(arg, Fresh(arg, "erows", ctxt))
  IN  Arg(IF pat.arg = NoPat THEN d
          ELSE sub_pattern(pat.arg, d, Append(path, AtVariant), ctxt, mode))

\* The branches of an or-pattern bind the same variables, with the same
\* types; their tails and wildcards are pooled.
TypeOf(bs, id) == bs[CHOOSE i \in DOMAIN bs : bs[i].id = id].typ
IdsOf(bs) == {bs[i].id : i \in DOMAIN bs}
pooled(all, d, ctxt, mode) ==
  LET done  == all[Len(all)]
      model == all[1]
      ids   == SetToSeq(IdsOf(model.bindings))
      same(k) == /\ Len(all[k].bindings) = Len(model.bindings)
                 /\ IdsOf(all[k].bindings) = IdsOf(model.bindings)
      types(k) == <<all[k].typ>> \o [i \in DOMAIN ids |-> TypeOf(all[k].bindings, ids[i])]
      agree(s, t1, t2) == LET one(r, i) == equate(r, t1[i], t2[i], ctxt) IN ForEach(s, Len(t1), one)
      next(s, k) == IF ~same(k + 1) THEN Err(s)
                    ELSE IF mode = "Walk" THEN Ok(s)
                    ELSE agree(s, types(1), types(k + 1))
  IN  IF ~done.ok THEN done
      ELSE [OnState(done, ForEach(done.st, Len(all) - 1, next))
              EXCEPT !.typ = model.typ, !.bindings = d.bindings \o model.bindings]
or_types(pat, d, path, ctxt, mode) ==
  LET one(i, prev) ==
        IF prev.ok THEN sub_pattern(pat.pats[i], [prev EXCEPT !.bindings = <<>>], path, ctxt, mode)
        ELSE prev
      b[i \in 0 .. Len(pat.pats)] ==
        IF i = 0 THEN <<>> ELSE Append(b[i - 1], one(i, IF i = 1 THEN d ELSE b[i - 1][i - 1]))
  IN  pooled(b[Len(pat.pats)], d, ctxt, mode)

data_types(pat, d, path, ctxt, mode) ==
  LET any == any_type([d EXCEPT !.wilds = @ \cup {path}], ctxt, mode)
  IN  CASE pat.p = "Wildcard" -> any
        [] pat.p = "Any" -> Bind(any, pat.id, any.typ)
        [] pat.p = "Record" -> record_types(pat, d, path, ctxt, mode)
        [] pat.p = "Array" -> array_types(pat, d, path, ctxt, mode)
        [] pat.p = "Enum" -> enum_types(pat, d, path, ctxt, mode)
        [] pat.p = "Const" -> Typed(d, Atom(ConstTypes[pat.of]))
        [] OTHER -> or_types(pat, d, path, ctxt, mode)

pattern_types_inj(pat, d, path, ctxt, mode) ==
  LET Alias(r) == IF pat.alias = "" \/ ~r.ok THEN r ELSE Bind(r, pat.alias, r.typ)
  IN  Alias(data_types(pat, d, path, ctxt, mode))

pattern_types(pat, st, ctxt, mode) == sub_pattern(pat, PatData(st), <<>>, ctxt, mode)
pattern_data_types(pat, st, ctxt, mode) == pattern_types([pat EXCEPT !.alias = ""], st, ctxt, mode)

----------------------------------------------------------------------------
(***************************************************************************)
(* Closing the enum types that no wildcard leaves open.                    *)
(***************************************************************************)
RECURSIVE close_enum(_, _)
close_enum(st, tail) ==
  LET root == into_root(st, tail)
  IN  IF root.k = "var" THEN assign(st, "erows", root.i, Empty("erows"))
      ELSE IF IsExtend(root) THEN close_enum(st, RowTail(root))
      ELSE st

close_enums(st, tails, wilds) ==
  LET f[i \in 0 .. Len(tails)] ==
        IF i = 0 THEN st
        ELSE IF tails[i].path \in wilds THEN f[i - 1] ELSE close_enum(f[i - 1], tails[i].tail)
  IN  f[Len(tails)]

close_all_enums(st, tails) == close_enums(st, tails, {})

----------------------------------------------------------------------------
(***************************************************************************)
(* Walking.                                                                *)
(***************************************************************************)
walk_all(asts, st, ctxt) ==
  LET one(s, i) == walk(asts[i], s, ctxt) IN ForEach(st, Len(asts), one)

Then(r, Step_(_)) == IF r.ok THEN Step_(r.st) ELSE r

\* The contracts in a type are walked, except below an enum type.
RECURSIVE ContractsIn(_)
ContractsIn(t) ==
  CASE t.k # "con" \/ t.op = "Enum" -> <<>>
    [] t.op = "Contract" -> <<t.ast>>
    [] OTHER -> FlattenSeq([i \in DOMAIN t.sub |-> ContractsIn(t.sub[i])])
walk_types(types, st, ctxt) ==
  walk_all(FlattenSeq([i \in DOMAIN types |-> ContractsIn(types[i])]), st, ctxt)

walk_fun(ast, st, ctxt) ==
  LET args[i \in 0 .. Len(ast.args)] ==
        IF i = 0 THEN [ok |-> TRUE, st |-> st, ctxt |-> ctxt]
        ELSE IF ~args[i - 1].ok THEN args[i - 1]
        ELSE LET p == pattern_types(ast.args[i], args[i - 1].st, args[i - 1].ctxt, "Walk")
             IN  [ok |-> p.ok, st |-> p.st, ctxt |-> WithBindings(args[i - 1].ctxt, p.bindings)]
      f == args[Len(ast.args)]
  IN  IF f.ok THEN walk(ast.body, f.st, f.ctxt) ELSE Err(f.st)

\* The domains of the first contract that is a function type give the
\* arguments of a function their types.
RECURSIVE Domains(_)
Domains(t) == IF IsCon(t, "Arrow") THEN <<t.sub[1]>> \o Domains(t.sub[2]) ELSE <<>>

walk_annotated(annots, value, st, ctxt) ==
  LET w == walk_types(annots.order, st, ctxt)
      arrows == SelectSeq(annots.contracts, LAMBDA t : IsCon(t, "Arrow"))
      doms == Domains(arrows[1])
      args[i \in 0 .. Len(value.args)] ==
        LET prev == args[i - 1]
            pat  == value.args[i]
            t    == IF i =< Len(doms) THEN from_type(doms[i], ctxt.term_env) ELSE Dyn
            p    == pattern_types(pat, prev.st, prev.ctxt, "Walk")
            one  == WithType(prev.ctxt, pat.id, t)
        IN  IF i = 0 THEN [ok |-> TRUE, st |-> w.st, ctxt |-> ctxt]
            ELSE IF ~prev.ok THEN prev
            ELSE IF pat.p = "Any"
            THEN [prev EXCEPT !.ctxt = IF pat.alias = "" THEN one ELSE WithType(one, pat.alias, t)]
            ELSE [ok |-> p.ok, st |-> p.st, ctxt |-> WithBindings(prev.ctxt, p.bindings)]
      f == args[Len(value.args)]
  IN  CASE ~w.ok -> w
        [] value = NoAst -> w
        [] annots.typ # NoType ->
             check(value, w.st, ctxt, from_type(annots.typ, ctxt.term_env))
        [] value.n = "Fun" /\ arrows # <<>> ->
             IF f.ok THEN walk(value.body, f.st, f.ctxt) ELSE Err(f.st)
        [] OTHER -> walk(value, w.st, ctxt)

\* The names a recursive block binds are shadowed before its types are
\* looked at; the term environment of a binding is that of the start.
register(ctxt, start, b, id, t) ==
  WithTerm(WithType(ctxt, id, t), id, b.value, start.term_env)
register_all(ctxt, start, b, bs) ==
  LET f[i \in 0 .. Len(bs)] ==
        IF i = 0 THEN ctxt ELSE register(f[i - 1], start, b, bs[i].id, bs[i].typ)
  IN  f[Len(bs)]
BoundBy(bs) == UNION {bindings(bs[i].pat) : i \in DOMAIN bs}

walk_bindings(bs, st, start) ==
  LET Bound(prev, b, ty, p) ==
        LET all == register_all(prev.ctxt, start, b, p.bindings)
            al  == IF b.pat.alias = "" THEN all ELSE register(all, start, b, b.pat.alias, ty.typ)
        IN  [ok |-> p.ok, st |-> p.st,
             ctxt |-> IF b.pat.p = "Any" THEN register(al, start, b, b.pat.id, ty.typ) ELSE al]
      Typed_(prev, b, ty) == Bound(prev, b, ty, pattern_types(b.pat, ty.st, start, "Walk"))
      bound[i \in 0 .. Len(bs)] ==
        IF i = 0 THEN [ok |-> TRUE, st |-> st, ctxt |-> start]
        ELSE IF ~bound[i - 1].ok THEN bound[i - 1]
        ELSE Typed_(bound[i - 1], bs[i], binding_type(bound[i - 1].st, bs[i], start, FALSE))
  IN  bound[Len(bs)]

walk_values(ast, start, inner) ==
  LET value(s, i) == walk_with_annot(AnnotView(ast.bs[i].annot), ast.bs[i].value, s,
                                     IF ast.rec THEN inner.ctxt ELSE start)
      body(s) == walk(ast.body, s, inner.ctxt)
  IN  IF inner.ok THEN Then(ForEach(inner.st, Len(ast.bs), value), body) ELSE Err(inner.st)

walk_let(ast, st, ctxt) ==
  LET start == IF ast.rec
               THEN [ctxt EXCEPT !.type_env = [id \in BoundBy(ast.bs) |-> Dyn] @@ @]
               ELSE ctxt
  IN  walk_values(ast, start, walk_bindings(ast.bs, st, start))

RECURSIVE walk_match(_, _, _, _)
walk_match(branches, k, st, ctxt) ==
  LET br == branches[k]
      p  == pattern_types(br.pat, st, ctxt, "Walk")
      r  == walk_all(Opt(br.guard) \o <<br.body>>, p.st, WithBindings(ctxt, p.bindings))
  IN  IF k > Len(branches) THEN Ok(st)
      ELSE IF ~p.ok THEN Err(p.st)
      ELSE IF ~r.ok THEN r
      ELSE walk_match(branches, k + 1, r.st, ctxt)

----------------------------------------------------------------------------
(***************************************************************************)
(* Records in walk mode.  Every field is bound with its apparent type; an  *)
(* included field with the type of its annotation, or of the outer one.    *)
(***************************************************************************)
walk_ctxt(rec, ctxt) ==
  WithBindings(ctxt, [i \in DOMAIN rec.stat |->
    [id |-> rec.stat[i].id,
     typ |-> from_apparent_type(apparent_field(rec.stat[i].field, ctxt.type_env), ctxt.term_env)]])

subsumed_by_instantiated(st, t1, t2, ctxt) ==
  LET Below(i) == subsume(i.st, t1, i.ty, i.ctxt)
  IN  Below(instantiate_foralls(st, ctxt, t2, "Constant"))

\* At most one value and no resolved part: as one definition with all the
\* annotations.  Otherwise the parts will be merged at run time.
IsSingle(f) == IsEmptyRecord(f.resolved) /\ Len(DefValues(f.defs)) =< 1
SingleValue(f) == LET v == DefValues(f.defs) IN IF v = <<>> THEN NoAst ELSE v[1]

walk_defs(f, st, ctxt) ==
  LET def(s, i) == walk_with_annot(AnnotView(f.defs[i].annot), f.defs[i].value, s, ctxt)
      resolved(s) == walk_rec(f.resolved, <<>>, s, ctxt)
  IN  CASE f.defs = <<>> -> walk_rec(f.resolved, <<>>, st, ctxt)
        [] f.defs # <<>> /\ IsSingle(f) ->
             walk_with_annot(CombinedAnnots(f.defs), SingleValue(f), st, ctxt)
        [] OTHER -> Then(ForEach(st, Len(f.defs), def), resolved)

walk_includes(includes, st, ctxt, outer) ==
  LET new(prev, inc) ==
        WithType(prev.ctxt, inc.id, IF first(inc.annot) # NoType THEN from_type(first(inc.annot), outer.term_env)
                                    ELSE outer.type_env[inc.id])
      Below(inc, s) ==
        IF inc.annot.typ = NoType THEN Ok(s)
        ELSE IF inc.id \notin DOMAIN outer.type_env THEN Err(s)
        ELSE subsume(s, outer.type_env[inc.id], from_type(inc.annot.typ, outer.term_env), outer)
      Included(s0, inc, in) ==
        LET below(s) == Below(inc, s)
        IN  [ctxt |-> in] @@ Then(walk_types(Annots(inc.annot), s0, in), below)
      f[i \in 0 .. Len(includes)] ==
        CASE i = 0 -> [ok |-> TRUE, st |-> st, ctxt |-> ctxt]
          [] i > 0 /\ ~f[i - 1].ok -> f[i - 1]
          [] /\ i > 0 /\ f[i - 1].ok
             /\ first(includes[i].annot) = NoType /\ includes[i].id \notin DOMAIN outer.type_env ->
               [f[i - 1] EXCEPT !.ok = FALSE]
          [] OTHER -> Included(f[i - 1].st, includes[i], new(f[i - 1], includes[i]))
  IN  f[Len(includes)]

walk_fields(rec, in, outer) ==
  LET dynamic(s, i) ==
        LET value(k) == walk_field(rec.dyn[i].field, k, in.ctxt)
        IN  Then(walk(rec.dyn[i].expr, s, outer), value)
      static(s, i) == walk_field(rec.stat[i].field, s, in.ctxt)
      stats(s) == ForEach(s, Len(rec.stat), static)
  IN  IF in.ok THEN Then(ForEach(in.st, Len(rec.dyn), dynamic), stats) ELSE Err(in.st)

walk_record(rec, includes, st, outer) ==
  walk_fields(rec, walk_includes(includes, st, walk_ctxt(rec, outer), outer), outer)

walk_ast(ast, st, ctxt) ==
  CASE ast.n \in {"Null", "Bool", "Num", "Str"} -> Ok(st)
    [] ast.n = "Enum" -> walk_all(Opt(ast.arg), st, ctxt)
    [] ast.n = "Import" -> IF ast.file \in DOMAIN Imports THEN Ok(st) ELSE Err(st)
    [] ast.n = "Var" -> IF ast.id \in DOMAIN ctxt.type_env THEN Ok(st) ELSE Err(st)
    [] ast.n \in {"Chunks", "If", "Op"} -> walk_all(ast.args, st, ctxt)
    [] ast.n = "Fun" -> walk_fun(ast, st, ctxt)
    [] ast.n = "Array" -> walk_all(ast.elts, st, ctxt)
    [] ast.n = "Let" -> walk_let(ast, st, ctxt)
    [] ast.n = "App" -> walk_all(<<ast.head>> \o ast.args, st, ctxt)
    [] ast.n = "Match" -> walk_match(ast.branches, 1, st, ctxt)
    [] ast.n = "Record" -> walk_rec(resolve(ast), ast.includes, st, ctxt)
    [] ast.n = "Annot" -> walk_with_annot(AnnotView(ast.annot), ast.inner, st, ctxt)
    [] ast.n = "Type" -> walk_types(<<ast.typ>>, st, ctxt)

----------------------------------------------------------------------------
(***************************************************************************)
(* Checking.  Quantifiers in head position become rigid constants first.   *)
(***************************************************************************)
check_all(asts, types, st, ctxt) ==
  LET one(s, i) == check(asts[i], s, ctxt, types[i]) IN ForEach(st, Len(asts), one)
Repeat(t, n) == [i \in 1 .. n |-> t]

Inferred(r, t) == [ok |-> r.ok, st |-> r.st, typ |-> t]

infer_annotated(annots, value, st, ctxt) ==
  LET w == walk_types(annots.order, st, ctxt)
      t == from_type(annots.typ, ctxt.term_env)
      c == from_type(annots.contracts[1], ctxt.term_env)
  IN  CASE ~w.ok -> Inferred(w, NoType)
        [] w.ok /\ annots.typ # NoType /\ value # NoAst -> Inferred(check(value, w.st, ctxt, t), t)
        [] w.ok /\ annots.typ = NoType /\ annots.contracts # <<>> ->
             Inferred(IF value = NoAst THEN w ELSE walk(value, w.st, ctxt), c)
        [] w.ok /\ annots.typ = NoType /\ annots.contracts = <<>> /\ value # NoAst ->
             infer(value, w.st, ctxt)
        [] OTHER -> Inferred(w, IF annots.typ # NoType THEN t ELSE Dyn)

\* Literals, interpolated strings and conditionals.
check_basic(ast, st, ctxt, ty) ==
  LET chunks(s) == check_all(ast.args, Repeat(Atom("String"), Len(ast.args)), s, ctxt)
  IN  CASE ast.n = "Chunks" -> Then(equate(st, ty, Atom("String"), ctxt), chunks)
        [] ast.n = "If" -> check_all(ast.args, <<Atom("Bool"), ty, ty>>, st, ctxt)
        [] OTHER -> equate(st, ty, Atom(ConstTypes[ast.n]), ctxt)

check_array(ast, st, ctxt, ty) ==
  LET elt == FreshType(st, ctxt)
      elts(s) == check_all(ast.elts, Repeat(elt.typ, Len(ast.elts)), s, ctxt)
  IN  Then(equate(elt.st, ty, array(elt.typ), ctxt), elts)

check_enum(ast, st, ctxt, ty) ==
  LET rows == fresh_var_id(st, "erows", ctxt.var_level)
      arg  == FreshType(rows, ctxt)
      tail == LastVar(rows, "erows", ctxt.var_level)
      variant(s) == check(ast.arg, s, ctxt, arg.typ)
  IN  IF ast.arg = NoAst THEN equate(rows, ty, Enum(ETag(ast.tag, tail)), ctxt)
      ELSE Then(equate(arg.st, ty, Enum(ERow(ast.tag, arg.typ, tail)), ctxt), variant)

\* Data has no type of its own; a program has its apparent type.
check_import(ast, st, ctxt, ty) ==
  LET imp == IF Imports[ast.file] = NoAst THEN Dyn
             ELSE from_apparent_type(apparent_type(Imports[ast.file], NoTypes, FALSE), ctxt.term_env)
  IN  IF ast.file \in DOMAIN Imports THEN equate(st, ty, imp, ctxt) ELSE Err(st)

\* A type in term position may not contain a contract; it has any type.
check_type(ast, st) == IF HasOp(ast.typ, "Contract") THEN Err(st) ELSE Ok(st)

\* What has no rule of its own for checking is inferred first.
check_inferred(inf, ctxt, ty) ==
  IF inf.ok THEN subsume(inf.st, inf.typ, ty, ctxt) ELSE Err(inf.st)

\* The arguments are typed from the last to the first, each in the context
\* of the ones done before.
check_fun(ast, st, ctxt, ty) ==
  LET cod == FreshType(st, ctxt)
      n   == Len(ast.args)
      args[i \in 0 .. n] ==
        LET prev == args[i - 1]
            pat  == ast.args[n + 1 - i]
            p    == pattern_data_types(pat, prev.st, prev.ctxt, "Enforce")
            al   == IF pat.alias = "" THEN prev.ctxt ELSE WithType(prev.ctxt, pat.alias, p.typ)
        IN  IF i = 0 THEN [ok |-> TRUE, st |-> cod.st, ctxt |-> ctxt, typ |-> cod.typ]
            ELSE IF ~prev.ok THEN prev
            ELSE [ok |-> p.ok, st |-> close_all_enums(p.st, p.tails),
                  ctxt |-> WithBindings(al, p.bindings), typ |-> arrow(p.typ, prev.typ)]
      f   == args[n]
      body(s) == check(ast.body, s, f.ctxt, cod.typ)
  IN  IF f.ok THEN Then(equate(f.st, ty, f.typ, f.ctxt), body) ELSE Err(f.st)

\* A fresh variable shadows each name that a recursive block binds.
Shadow(st, ids, ctxt) ==
  LET f[i \in 0 .. Len(ids)] ==
        LET t == FreshType(f[i - 1].st, ctxt)
        IN  IF i = 0 THEN [st |-> st, ctxt |-> ctxt]
            ELSE [st |-> t.st, ctxt |-> WithType(f[i - 1].ctxt, ids[i], t.typ)]
  IN  f[Len(ids)]

check_bindings(bs, st, start) ==
  LET Closed_(p, t) ==
        LET closed(s) == equate(close_all_enums(s, p.tails), p.typ, t.typ, start)
        IN  Then([ok |-> p.ok, st |-> p.st], closed)
      Bound(prev, b, t, p) ==
        [ctxt |-> register_all(IF b.pat.alias = "" THEN prev.ctxt
                               ELSE register(prev.ctxt, start, b, b.pat.alias, t.typ),
                               start, b, p.bindings),
         types |-> Append(prev.types, t.typ)]
          @@ (IF b.pat.p = "Any" THEN Ok(t.st) ELSE Closed_(p, t))
      Whole(b, t) ==
        IF b.pat.p = "Any" THEN Bind(PatData(t.st), b.pat.id, t.typ)
        ELSE pattern_data_types(b.pat, t.st, start, "Enforce")
      Typed_(prev, b, t) == Bound(prev, b, t, Whole(b, t))
      bound[i \in 0 .. Len(bs)] ==
        IF i = 0 THEN [ok |-> TRUE, st |-> st, ctxt |-> start, types |-> <<>>]
        ELSE IF ~bound[i - 1].ok THEN bound[i - 1]
        ELSE Typed_(bound[i - 1], bs[i], binding_type(bound[i - 1].st, bs[i], start, TRUE))
  IN  bound[Len(bs)]

check_values(ast, start, inner, ty) ==
  LET re == IF ast.rec THEN inner.ctxt ELSE start
      Done_(r) == [ok |-> r.ok, st |-> r.st]
      value(s, i) ==
        IF Annots(ast.bs[i].annot) = <<>> THEN check(ast.bs[i].value, s, re, inner.types[i])
        ELSE Done_(infer_with_annot(AnnotView(ast.bs[i].annot), ast.bs[i].value, s, re))
      body(s) == check(ast.body, s, inner.ctxt, ty)
  IN  IF inner.ok THEN Then(ForEach(inner.st, Len(ast.bs), value), body) ELSE Err(inner.st)

check_let(ast, st, ctxt, ty) ==
  LET In(sh) == check_values(ast, sh.ctxt, check_bindings(ast.bs, sh.st, sh.ctxt), ty)
  IN  In(Shadow(st, IF ast.rec THEN SetToSeq(BoundBy(ast.bs)) ELSE <<>>, ctxt))

\* All the patterns are typed, then the branches are checked, each in the
\* context of the branches before; the pattern types are unified, the enum
\* types are closed, and the function type is unified last.
check_match(ast, st, ctxt, ty) ==
  LET br == ast.branches
      n  == Len(br)
      pats[i \in 0 .. n] ==
        IF i = 0 THEN <<PatData(st)>>
        ELSE LET prev == pats[i - 1][i]
             IN  Append(pats[i - 1],
                        IF prev.ok THEN pattern_types(br[i].pat, prev.st, ctxt, "Enforce") ELSE prev)
      p  == Tail(pats[n])
      arg == FreshType(pats[n][n + 1].st, ctxt)
      ret == FreshType(arg.st, ctxt)
      scope[i \in 0 .. n] ==
        IF i = 0 THEN ctxt
        ELSE LET al == IF br[i].pat.alias = "" THEN scope[i - 1]
                       ELSE WithType(scope[i - 1], br[i].pat.alias, ret.typ)
             IN  WithBindings(al, p[i].bindings)
      branch(s, i) ==
        check_all(Opt(br[i].guard) \o <<br[i].body>>,
                  (IF br[i].guard = NoAst THEN <<>> ELSE <<Atom("Bool")>>) \o <<ret.typ>>, s, scope[i])
      match(s, i) == equate(s, arg.typ, p[i].typ, scope[n])
      done(b) ==
        LET u == ForEach(b, n, match)
            tails == FlattenSeq([i \in 1 .. n |-> p[i].tails])
            wilds == UNION {p[i].wilds : i \in 1 .. n}
            s == close_enums(u.st, tails, wilds)
        IN  IF u.ok THEN equate(s, ty, arrow(arg.typ, ret.typ), scope[n]) ELSE Err(s)
  IN  IF ~pats[n][n + 1].ok THEN Err(pats[n][n + 1].st)
      ELSE Then(ForEach(ret.st, n, branch), done)

----------------------------------------------------------------------------
(***************************************************************************)
(* Records in checking mode.                                               *)
(***************************************************************************)
\* A definition without annotation is its value, or Dyn when it has none.
check_view(annots, value, st, ctxt, ty) ==
  LET r == infer_with_annot(annots, value, st, ctxt)
  IN  CASE annots.order = <<>> /\ value # NoAst -> check(value, st, ctxt, ty)
        [] annots.order = <<>> -> equate(st, ty, Dyn, ctxt)
        [] OTHER -> IF r.ok THEN subsume(r.st, r.typ, ty, ctxt) ELSE Err(r.st)

check_defs(f, st, ctxt, ty) ==
  LET def(s, i) == check_view(AnnotView(f.defs[i].annot), f.defs[i].value, s, ctxt, Dyn)
      resolved(s) == IF IsEmptyRecord(f.resolved) THEN Ok(s)
                     ELSE check_rec(f.resolved, <<>>, s, ctxt, Dyn)
  IN  CASE f.defs = <<>> -> check_rec(f.resolved, <<>>, st, ctxt, ty)
        [] f.defs # <<>> /\ IsSingle(f) ->
             check_view(CombinedAnnots(f.defs), SingleValue(f), st, ctxt, ty)
        [] OTHER -> Then(ForEach(st, Len(f.defs), def), resolved)

\* Against a dictionary type: an included field goes from its annotation, or
\* from its outer type, to the type of the elements.
check_include(inc, st, inner, outer, ty) ==
  LET w    == walk_types(Annots(inc.annot), st, inner)
      ann  == from_type(first(inc.annot), inner.term_env)
      from == outer.type_env[inc.id]
      sub(s) == IF inc.annot.typ # NoType THEN subsumed_by_instantiated(s, from, ann, outer) ELSE Ok(s)
      elt(s) == subsume(s, IF first(inc.annot) # NoType THEN ann ELSE from, ty, outer)
  IN  IF inc.id \notin DOMAIN outer.type_env THEN Err(st) ELSE Then(Then(w, sub), elt)

check_elements(rec, includes, st, inner, outer, ty) ==
  LET dynamic(s, i) ==
        LET value(k) == check_field(rec.dyn[i].field, k, inner, ty)
        IN  Then(check(rec.dyn[i].expr, s, outer, Atom("String")), value)
      static(s, i) == check_field(rec.stat[i].field, s, inner, ty)
      include(s, i) == check_include(includes[i], s, inner, outer, ty)
      stats(s) == ForEach(s, Len(rec.stat), static)
      incls(s) == ForEach(s, Len(includes), include)
  IN  Then(Then(ForEach(st, Len(rec.dyn), dynamic), stats), incls)

\* With dynamic fields, only a dictionary; every static field is bound.
check_dyn(rec, includes, st, outer, ty) ==
  LET elt   == FreshType(st, outer)
      ids   == {rec.stat[i].id : i \in DOMAIN rec.stat} \cup {includes[i].id : i \in DOMAIN includes}
      inner == [outer EXCEPT !.type_env = [id \in ids |-> elt.typ] @@ @]
      rest(s) == check_elements(rec, includes, s, inner, outer, elt.typ)
  IN  Then(equate(elt.st, ty, dict(elt.typ), outer), rest)

\* The recursive environment of a record: the type of an annotation or of a
\* constant, or a fresh variable to be unified with what is found later.
rec_env(rec, st, outer) ==
  LET f[i \in 0 .. Len(rec.stat)] ==
        LET prev == f[i - 1]
            app  == apparent_field(rec.stat[i].field, outer.type_env)
            t    == apparent_or_infer(prev.st, app, outer, TRUE)
        IN  IF i = 0 THEN [st |-> st, ctxt |-> outer, need |-> {}]
            ELSE [st |-> t.st, ctxt |-> WithType(prev.ctxt, rec.stat[i].id, t.typ),
                  need |-> IF app.kind = "Approximated" THEN prev.need \cup {rec.stat[i].id}
                           ELSE prev.need]
  IN  f[Len(rec.stat)]

rec_includes(includes, st, ctxt, outer) ==
  LET Included(prev, inc, ann) ==
        [ctxt |-> WithType(prev.ctxt, inc.id,
                           IF first(inc.annot) # NoType THEN ann ELSE outer.type_env[inc.id])]
          @@ (IF inc.annot.typ = NoType THEN Ok(prev.st)
              ELSE subsumed_by_instantiated(prev.st, outer.type_env[inc.id], ann, outer))
      f[i \in 0 .. Len(includes)] ==
        CASE i = 0 -> [ok |-> TRUE, st |-> st, ctxt |-> ctxt]
          [] i > 0 /\ ~f[i - 1].ok -> f[i - 1]
          [] i > 0 /\ f[i - 1].ok /\ includes[i].id \notin DOMAIN outer.type_env ->
               [f[i - 1] EXCEPT !.ok = FALSE]
          [] OTHER -> Included(f[i - 1], includes[i], from_type(first(includes[i].annot), outer.term_env))
  IN  f[Len(includes)]

FreshTypes(st, n, ctxt) ==
  LET f[i \in 0 .. n] ==
        IF i = 0 THEN [st |-> st, typs |-> <<>>]
        ELSE LET t == FreshType(f[i - 1].st, ctxt)
             IN  [st |-> t.st, typs |-> Append(f[i - 1].typs, t.typ)]
  IN  f[n]
RowsOf(ids, typs, tail) ==
  LET n == Len(ids)
      f[i \in 0 .. n] == IF i = 0 THEN tail ELSE RRow(ids[n + 1 - i], typs[n + 1 - i], f[i - 1])
  IN  f[n]

\* env: the recursive environment, inc: with the includes, vars: the types
\* of the fields.
check_rows(rec, includes, env, inc, vars, outer, ty) ==
  LET ids   == [i \in DOMAIN rec.stat |-> rec.stat[i].id]
      incl  == [i \in DOMAIN includes |-> includes[i].id]
      rows  == RowsOf(incl, [i \in DOMAIN incl |-> inc.ctxt.type_env[incl[i]]],
                      RowsOf(ids, vars.typs, Empty("rrows")))
      field(s, i) ==
        LET value(k) == check_field(rec.stat[i].field, k, inc.ctxt, vars.typs[i])
        IN  Then(IF ids[i] \in env.need
                 THEN equate(s, vars.typs[i], inc.ctxt.type_env[ids[i]], outer)
                 ELSE Ok(s), value)
      fields(s) == ForEach(s, Len(rec.stat), field)
      annots(s) == walk_types(FlattenSeq([i \in DOMAIN includes |-> Annots(includes[i].annot)]),
                              s, inc.ctxt)
  IN  Then(Then(equate(vars.st, ty, Record(rows), outer), fields), annots)

check_stat(rec, includes, st, outer, ty) ==
  LET root == into_root(st, ty)
      Included(env, inc) ==
        IF inc.ok THEN check_rows(rec, includes, env, inc, FreshTypes(inc.st, Len(rec.stat), outer), outer, ty)
        ELSE Err(inc.st)
      InEnv(env) == Included(env, rec_includes(includes, env.st, env.ctxt, outer))
  IN  IF IsCon(root, "Dict") THEN check_elements(rec, includes, st, outer, outer, root.sub[1])
      ELSE InEnv(rec_env(rec, st, outer))

check_record(rec, includes, st, ctxt, ty) ==
  IF rec.dyn = <<>> THEN check_stat(rec, includes, st, ctxt, ty)
  ELSE check_dyn(rec, includes, st, ctxt, ty)

----------------------------------------------------------------------------
(***************************************************************************)
(* Inference: [ok, st, typ].                                               *)
(***************************************************************************)
infer_app(ast, ctxt, head) ==
  LET Applied(inst) ==
        LET args == FreshTypes(inst.st, Len(ast.args), inst.ctxt)
            cod  == FreshType(args.st, inst.ctxt)
            all(s) == check_all(ast.args, args.typs, s, inst.ctxt)
        IN  Inferred(Then(equate(cod.st, nary_arrow(args.typs, cod.typ), inst.ty, inst.ctxt), all),
                     cod.typ)
  IN  IF head.ok THEN Applied(instantiate_foralls(head.st, ctxt, head.typ, "UnifVar")) ELSE head

infer_ast(ast, st, ctxt) ==
  LET sig  == primop_type(st, ast, ctxt)
      any  == FreshType(st, ctxt)
      r    == check(ast, any.st, ctxt, any.typ)
  IN  CASE ast.n = "Var" ->
             IF ast.id \in DOMAIN ctxt.type_env THEN Inferred(Ok(st), ctxt.type_env[ast.id])
             ELSE Inferred(Err(st), NoType)
        [] ast.n = "Op" -> Inferred(check_all(ast.args, sig.args, sig.st, ctxt), sig.res)
        [] ast.n = "App" -> infer_app(ast, ctxt, infer(ast.head, st, ctxt))
        [] ast.n = "Annot" -> infer_with_annot(AnnotView(ast.annot), ast.inner, st, ctxt)
        [] OTHER -> Inferred(r, into_root(r.st, any.typ))

check_ast(ast, st, ctxt, ty) ==
  CASE ast.n \in {"Null", "Bool", "Num", "Str", "Chunks", "If"} -> check_basic(ast, st, ctxt, ty)
    [] ast.n = "Fun" -> check_fun(ast, st, ctxt, ty)
    [] ast.n = "Array" -> check_array(ast, st, ctxt, ty)
    [] ast.n = "Let" -> check_let(ast, st, ctxt, ty)
    [] ast.n = "Match" -> check_match(ast, st, ctxt, ty)
    [] ast.n \in {"Var", "App", "Op", "Annot"} -> check_inferred(infer(ast, st, ctxt), ctxt, ty)
    [] ast.n = "Enum" -> check_enum(ast, st, ctxt, ty)
    [] ast.n = "Record" -> check_rec(resolve(ast), ast.includes, st, ctxt, ty)
    [] ast.n = "Import" -> check_import(ast, st, ctxt, ty)
    [] ast.n = "Type" -> check_type(ast, st)

visit(how, x, st, ctxt, ty) ==
  LET rigid == instantiate_foralls(st, ctxt, ty, "Constant")
  IN  CASE how = "check" -> check_ast(x, rigid.st, rigid.ctxt, rigid.ty)
        [] how = "infer" -> infer_ast(x, st, ctxt)
        [] how = "unify" -> unify(st, x, ty, ctxt)
        [] how = "subsumed_by" -> subsumed_by(st, x, ty, ctxt)
        [] how = "walk" -> walk_ast(x, st, ctxt)
        [] how = "pattern" -> pattern_types_inj(x.pat, st, x.path, ctxt, ty)
        [] how = "walk_annot" -> walk_annotated(x.annots, x.value, st, ctxt)
        [] how = "infer_annot" -> infer_annotated(x.annots, x.value, st, ctxt)
        [] how = "check_record" -> check_record(x.rec, x.includes, st, ctxt, ty)
        [] how = "check_field" -> check_defs(x, st, ctxt, ty)
        [] how = "walk_field" -> walk_defs(x, st, ctxt)
        [] how = "walk_record" -> walk_record(x.rec, x.includes, st, ctxt)

\* The program, with the whole of it typechecked (Enforce) or only its
\* annotated parts (Walk).
typecheck(ast, type_env, mode) ==
  LET ctxt == [type_env |-> type_env, term_env |-> [x \in {} |-> NoAst],
               var_level |-> MIN_LEVEL, depth |-> StackDepth]
      any  == FreshType(UnifTable, ctxt)
      how  == [Enforce |-> "check", Walk |-> "walk"]
  IN  visit(how[mode], ast, IF mode = "Enforce" THEN any.st ELSE UnifTable, ctxt, any.typ)
=============================================================================
