------------------------------ MODULE Lowering ------------------------------
(***************************************************************************)
(* From the syntax tree to the runtime terms (core/src/ast/compat.rs), and *)
(* the compilation of patterns (core/src/term/pattern/compile.rs).  The    *)
(* result uses functions and let-bindings of plain identifiers only.       *)
(*                                                                         *)
(* LocIdent::fresh: an identifier made from the one of the value that is   *)
(* matched and from the place in the pattern; a program has none of them.  *)
(***************************************************************************)
EXTENDS Semantics

Sub(id, place) == id \o "." \o place
Places == <<"0", "1", "2", "3", "4">>   \* the places of an array or a block

let_one_in(id, t, body) == Let1(AnyPat(id), t, body)
let_in(ids, ts, rec, body) ==
  LetIn([i \in DOMAIN ids |-> Bind1(AnyPat(ids[i]), NoAnnot, ts[i])], rec, body)
TypeIs(id, tag) == Op("Eq", <<Op("Typeof", <<Var(id)>>), Tag(tag)>>)
And(a, b) == Op("BoolAnd", <<a, b>>)
Not(a) == Op("BoolNot", <<a>>)
RuntimeError(why) == [n |-> "Fail", why |-> why]

\* The fields of a runtime record.
TField(value, annot, opt, prio) == [value |-> value, annot |-> annot, opt |-> opt, prio |-> prio]
Plain(stat) == [n |-> "Plain", stat |-> stat, dyn |-> <<>>, includes |-> <<>>]
Singleton(id, field) == Plain(<<[id |-> id, field |-> field]>>)
rec_record(stat, dyn, includes) ==
  [n |-> "RecRecord", stat |-> stat, dyn |-> dyn, includes |-> includes]

RECURSIVE to_mainline(_), compile_part(_, _, _, _, _), lower_type(_)

\* The contracts inside types are terms.
lower_type(t) ==
  IF t.op = "Contract" THEN [t EXCEPT !.ast = to_mainline(@)]
  ELSE [t EXCEPT !.sub = [i \in DOMAIN @ |-> lower_type(@[i])]]
lower_annot(a) ==
  [typ |-> IF a.typ = NoType THEN NoType ELSE lower_type(a.typ),
   contracts |-> [i \in DOMAIN a.contracts |-> lower_type(a.contracts[i])]]
Annotated(annot, t) == [n |-> "Annotated", annot |-> lower_annot(annot), inner |-> t]

----------------------------------------------------------------------------
(***************************************************************************)
(* Patterns: compile_part(pat, id, ok, fail, bs) matches the value of id   *)
(* and goes on with ok or fail; bs gives the identifier to bind for each   *)
(* variable of the pattern.                                                *)
(***************************************************************************)
update_with_merge(record_id, id, field) == Op("Merge", <<Var(record_id), Singleton(id, field)>>)

with_default_value(record_id, id, default) ==
  If(Not(OpId("RecordFieldIsDefined", id, <<Var(record_id)>>)),
     If(OpId("RecordHasField", id, <<Var(record_id)>>),
        update_with_merge(record_id, id, TField(default, NoAnnot, FALSE, 0)),
        OpId("RecordInsert", id, <<Var(record_id), default>>)),
     Var(record_id))

compile_constant(id, of, val, ok, fail) ==
  If(And(TypeIs(id, [Bool |-> "Bool", Num |-> "Number", Str |-> "String", Null |-> "Other"][of]),
         Op("Eq", <<Var(id), [n |-> of, v |-> val]>>)), ok, fail)

compile_or(pats, id, ok, fail, bs) ==
  LET n == Len(pats)
      f[i \in 0 .. n] == IF i = 0 THEN fail ELSE compile_part(pats[n + 1 - i], id, ok, f[i - 1], bs)
  IN  f[n]

\* A shallow check first, then the fields; defaults are inserted before.
compile_record(pat, id, ok, fail, bs) ==
  LET fs  == pat.fields
      n   == Len(fs)
      loc == Sub(id, "r")
      needed == SelectSeq(fs, LAMBDA f : f.default = NoAst)
      open == pat.tail # "Empty"
      length == Op("Eq", <<Op("ArrayLength", <<Op("RecordFields", <<Var(loc)>>)>>), NumT(n)>>)
      shallow[i \in 0 .. Len(needed)] ==
        LET f == needed[Len(needed) + 1 - i]
            d == OpId("RecordFieldIsDefined", f.id, <<Var(loc)>>)
        IN  IF i = 0 THEN (IF open THEN BoolT(TRUE) ELSE length)
            ELSE IF shallow[i - 1] = BoolT(TRUE) THEN d ELSE And(d, shallow[i - 1])
      rest[i \in 0 .. n] == IF i = 0 THEN Var(loc) ELSE OpId("RecordRemove", fs[i].id, <<rest[i - 1]>>)
      fields[i \in 0 .. n] ==
        LET f   == fs[n + 1 - i]
            fid == Sub(loc, f.id)
            get == let_one_in(fid, Access(Var(loc), f.id), compile_part(f.pat, fid, fields[i - 1], fail, bs))
        IN  CASE i = 0 -> IF pat.tail = "Capture" THEN let_one_in(bs[pat.rest], rest[n], ok) ELSE ok
              [] i > 0 /\ Annots(f.annot) = <<>> -> get
              [] OTHER ->
                   let_one_in(loc, update_with_merge(loc, f.id, TField(NoAst, lower_annot(f.annot), FALSE, 0)), get)
      inner == If(shallow[Len(needed)], fields[n], fail)
      defaults[i \in 0 .. n] ==
        IF i = 0 THEN inner
        ELSE IF fs[i].default = NoAst THEN defaults[i - 1]
        ELSE let_one_in(loc, with_default_value(loc, fs[i].id, to_mainline(fs[i].default)), defaults[i - 1])
  IN  If(TypeIs(id, "Record"), let_one_in(loc, Var(id), defaults[n]), fail)

compile_array(pat, id, ok, fail, bs) ==
  LET n   == Len(pat.pats)
      len == Sub(id, "len")
      elts[i \in 0 .. n] ==
        LET j   == n + 1 - i
            eid == Sub(id, Places[j])
        IN  IF i > 0
            THEN let_one_in(eid, Op("ArrayAt", <<Var(id), NumT(j - 1)>>),
                            compile_part(pat.pats[j], eid, elts[i - 1], fail, bs))
            ELSE IF pat.tail = "Capture"
            THEN let_one_in(bs[pat.rest], Op("ArraySlice", <<NumT(n), Var(len), Var(id)>>), ok)
            ELSE ok
      cmp == IF pat.tail = "Empty" THEN "Eq" ELSE "GreaterOrEq"
  IN  let_one_in(len, Op("ArrayLength", <<Var(id)>>),
        If(And(TypeIs(id, "Array"), Op(cmp, <<Var(len), NumT(n)>>)), elts[n], fail))

compile_enum(pat, id, ok, fail, bs) ==
  LET same == Op("Eq", <<Op("EnumGetTag", <<Var(id)>>), Tag(pat.tag)>>)
      variant == Op("EnumIsVariant", <<Var(id)>>)
      arg == Sub(id, "arg")
  IN  IF pat.arg # NoPat
      THEN If(And(variant, same),
              let_one_in(arg, Op("EnumGetArg", <<Var(id)>>), compile_part(pat.arg, arg, ok, fail, bs)), fail)
      ELSE If(And(TypeIs(id, "Enum"), And(Not(variant), same)), ok, fail)

compile_data(pat, id, ok, fail, bs) ==
  CASE pat.p = "Wildcard" -> ok
    [] pat.p = "Any" -> let_one_in(bs[pat.id], Var(id), ok)
    [] pat.p = "Record" -> compile_record(pat, id, ok, fail, bs)
    [] pat.p = "Array" -> compile_array(pat, id, ok, fail, bs)
    [] pat.p = "Enum" -> compile_enum(pat, id, ok, fail, bs)
    [] pat.p = "Const" -> compile_constant(id, pat.of, pat.val, ok, fail)
    [] OTHER -> compile_or(pat.pats, id, ok, fail, bs)

compile_part(pat, id, ok, fail, bs) ==
  compile_data(pat, id, IF pat.alias = "" THEN ok ELSE let_one_in(bs[pat.alias], Var(id), ok), fail, bs)

----------------------------------------------------------------------------
(***************************************************************************)
(* Match expressions.  When all the patterns are enum tags or wildcards    *)
(* without guard, one operation selects the branch.                        *)
(***************************************************************************)
\* A variant to rule out: the variables of a pattern are bound as they are.
OwnNames(pat, place) == [x \in bindings(pat) |-> x]

FreshNames(pat, place) == [x \in bindings(pat) |-> Sub(x, place)]

IsTagsOnly(branches) ==
  \A i \in DOMAIN branches :
    /\ branches[i].guard = NoAst
    /\ \/ branches[i].pat.p = "Wildcard"
       \/ branches[i].pat.p = "Enum" /\ branches[i].pat.arg = NoPat

compile_tags_only(value, branches) ==
  LET wild == {i \in DOMAIN branches : branches[i].pat.p = "Wildcard"}
      last == IF wild = {} THEN Len(branches) ELSE -Largest({-i : i \in wild})
      tags == SelectSeq(SubSeq(branches, 1, last), LAMBDA b : b.pat.p = "Enum")
  IN  [n |-> "Tags", value |-> value,
       cases |-> [t \in {tags[i].pat.tag : i \in DOMAIN tags} |->
                    tags[Largest({i \in DOMAIN tags : tags[i].pat.tag = t})].body],
       default |-> IF wild = {} THEN NoAst ELSE branches[last].body]

compile_match(value, branches) ==
  LET n  == Len(branches)
      id == "%value"
      f[i \in 0 .. n] ==
        LET b   == branches[n + 1 - i]
            new == FreshNames(b.pat, "%")
            ids == SetToSeq(DOMAIN new)
            body == IF b.guard = NoAst THEN b.body ELSE If(b.guard, b.body, f[i - 1])
        IN  IF i = 0 THEN RuntimeError("nomatch")
            ELSE compile_part(b.pat, id, let_in(ids, [j \in DOMAIN ids |-> Var(new[ids[j]])], FALSE, body),
                              f[i - 1], new)
  IN  IF IsTagsOnly(branches) THEN compile_tags_only(value, branches) ELSE let_one_in(id, value, f[n])

\* The values, then the records of what the patterns bind, then the
\* variables; the records are forced before the body.
compile_let_pattern(pats, values, rec, body) ==
  LET n     == Len(pats)
      outer == [i \in 1 .. n |-> Sub("%b", Places[i])]
      mid   == [i \in 1 .. n |-> Sub("%r", Places[i])]
      record(i) ==
        LET new == FreshNames(pats[i], "%c")
            ids == SetToSeq(DOMAIN new)
        IN  compile_part(pats[i], outer[i],
              Plain([j \in DOMAIN ids |-> [id |-> ids[j], field |-> TField(Var(new[ids[j]]), NoAnnot, FALSE, 0)]]),
              RuntimeError("nomatch"), new)
      mids  == [i \in 1 .. n |-> record(i)]
      vars  == FlattenSeq([i \in 1 .. n |-> SetToSeq({<<x, i>> : x \in bindings(pats[i])})])
      inner == [j \in DOMAIN vars |-> vars[j][1]]
      gets  == [j \in DOMAIN vars |-> Access(Var(mid[vars[j][2]]), vars[j][1])]
      forced[i \in 0 .. n] == IF i = 0 THEN body ELSE Op("Seq", <<Var(mid[n + 1 - i]), forced[i - 1]>>)
  IN  IF rec THEN let_in(outer \o mid \o inner, values \o mids \o gets, TRUE, forced[n])
      ELSE let_in(outer, values, FALSE, let_in(mid, mids, FALSE, let_in(inner, gets, FALSE, forced[n])))

compile_fun_pattern(pat, body) ==
  LET id == IF pat.alias = "" THEN "%arg" ELSE pat.alias
  IN  Fun(<<AnyPat(id)>>, compile_let_pattern(<<pat>>, <<Var(id)>>, FALSE, body))

----------------------------------------------------------------------------
(***************************************************************************)
(* Records: a path becomes nested records that are not recursive, and the  *)
(* definitions of one field are merged.                                    *)
(***************************************************************************)
\* The type of the left side stays a type; the other one becomes a contract.
combine(a, b) ==
  LET left == a.typ # NoType /\ b.typ # NoType
  IN  [typ |-> IF a.typ # NoType THEN a.typ ELSE b.typ,
       contracts |-> a.contracts \o (IF left THEN <<b.typ>> ELSE <<>>) \o b.contracts]
Combined(f, g, value, prio) == TField(value, combine(f.annot, g.annot), f.opt /\ g.opt, prio)
merge_fields(f, g) ==
  CASE f.value # NoAst /\ g.value # NoAst /\ f.prio = g.prio ->
         Combined(f, g, Op("Merge", <<f.value, g.value>>), f.prio)
    [] f.value # NoAst /\ f.prio > g.prio -> Combined(f, g, f.value, f.prio)
    [] g.value # NoAst /\ f.prio < g.prio -> Combined(f, g, g.value, g.prio)
    [] f.value # NoAst /\ g.value = NoAst /\ ~(f.prio > g.prio) -> Combined(f, g, f.value, f.prio)
    [] f.value = NoAst /\ g.value # NoAst /\ ~(f.prio < g.prio) -> Combined(f, g, g.value, g.prio)
    [] OTHER -> Combined(f, g, NoAst, 0)

\* An element of a path that is a constant string is as good as an identifier.
StaticName(e) == IF e.expr = NoAst THEN e.id
                 ELSE IF e.expr.n = "Chunks" /\ Len(e.expr.args) = 1 /\ e.expr.args[1].n = "Str"
                 THEN e.expr.args[1].v.str[1] ELSE ""

elaborate_path(def) ==
  LET n == Len(def.path)
      Value(t) == TField(t, NoAnnot, FALSE, 0)
      f[i \in 0 .. n - 1] ==
        LET e == def.path[n + 1 - i]
        IN  IF i = 0
            THEN TField(IF def.value = NoAst THEN NoAst ELSE to_mainline(def.value),
                        lower_annot(def.annot), def.meta.opt, def.meta.prio)
            ELSE IF StaticName(e) # "" THEN Value(Singleton(StaticName(e), f[i - 1]))
            ELSE Value(rec_record(<<>>, <<[expr |-> to_mainline(e.expr), field |-> f[i - 1]]>>, <<>>))
  IN  f[n - 1]

insert_static_field(stat, id, field) ==
  IF \E i \in DOMAIN stat : stat[i].id = id
  THEN [i \in DOMAIN stat |->
          IF stat[i].id = id THEN [stat[i] EXCEPT !.field = merge_fields(@, field)] ELSE stat[i]]
  ELSE Append(stat, [id |-> id, field |-> field])

lower_record(ast) ==
  LET f[i \in 0 .. Len(ast.defs)] ==
        LET d    == ast.defs[i]
            name == StaticName(d.path[1])
        IN  IF i = 0 THEN [stat |-> <<>>, dyn |-> <<>>]
            ELSE IF name # ""
            THEN [f[i - 1] EXCEPT !.stat = insert_static_field(@, name, elaborate_path(d))]
            ELSE [f[i - 1] EXCEPT !.dyn =
                    Append(@, [expr |-> to_mainline(d.path[1].expr), field |-> elaborate_path(d)])]
      r == f[Len(ast.defs)]
      inc == [i \in DOMAIN ast.includes |-> [ast.includes[i] EXCEPT !.annot = lower_annot(@)]]
  IN  rec_record(r.stat, r.dyn, inc)

----------------------------------------------------------------------------
lower_fun(ast) ==
  LET n == Len(ast.args)
      f[i \in 0 .. n] ==
        LET pat == ast.args[n + 1 - i]
        IN  IF i = 0 THEN to_mainline(ast.body)
            ELSE IF pat.p = "Any" THEN Fun(<<AnyPat(pat.id)>>, f[i - 1])
            ELSE compile_fun_pattern(pat, f[i - 1])
  IN  f[n]

\* with_metadata: the annotations of a binding go to its value.
lower_let(ast) ==
  LET bs == ast.bs
      value(b) == IF Annots(b.annot) = <<>> THEN to_mainline(b.value)
                  ELSE Annotated(b.annot, to_mainline(b.value))
      values == [i \in DOMAIN bs |-> value(bs[i])]
      body == to_mainline(ast.body)
  IN  IF \A i \in DOMAIN bs : bs[i].pat.p = "Any"
      THEN let_in([i \in DOMAIN bs |-> bs[i].pat.id], values, ast.rec, body)
      ELSE compile_let_pattern([i \in DOMAIN bs |-> bs[i].pat], values, ast.rec, body)

lower_match(ast) ==
  LET branch(b) == [pat |-> b.pat, guard |-> IF b.guard = NoAst THEN NoAst ELSE to_mainline(b.guard),
                    body |-> to_mainline(b.body)]
  IN  Fun(<<AnyPat("%match")>>,
          compile_match(Var("%match"), [i \in DOMAIN ast.branches |-> branch(ast.branches[i])]))

lower_app(ast) ==
  LET f[i \in 0 .. Len(ast.args)] ==
        IF i = 0 THEN to_mainline(ast.head) ELSE App(f[i - 1], <<to_mainline(ast.args[i])>>)
  IN  f[Len(ast.args)]

to_mainline(ast) ==
  CASE ast.n \in {"Null", "Bool", "Num", "Str", "Var", "Import"} -> ast
    [] ast.n = "Type" -> TypeT(lower_type(ast.typ))
    [] ast.n \in {"Chunks", "If", "Op"} ->
         [ast EXCEPT !.args = [i \in DOMAIN @ |-> to_mainline(@[i])]]
    [] ast.n = "Enum" -> IF ast.arg = NoAst THEN ast ELSE Variant(ast.tag, to_mainline(ast.arg))
    [] ast.n = "Array" -> ArrayT([i \in DOMAIN ast.elts |-> to_mainline(ast.elts[i])])
    [] ast.n = "Fun" -> lower_fun(ast)
    [] ast.n = "Let" -> lower_let(ast)
    [] ast.n = "App" -> lower_app(ast)
    [] ast.n = "Record" -> lower_record(ast)
    [] ast.n = "Match" -> lower_match(ast)
    [] OTHER -> Annotated(ast.annot, to_mainline(ast.inner))
=============================================================================
