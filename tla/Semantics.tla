----------------------------- MODULE Semantics -----------------------------
(***************************************************************************)
(* What a program means: a lazy big-step semantics of the terms of         *)
(* Typecheck, patterns included, as the manual describes them              *)
(* (doc/manual/syntax.md, merging.md).  It is the reference that the       *)
(* translation of patterns and records and the typechecker are compared    *)
(* with.  Strings are sequences of words.  The terms that only the         *)
(* translation produces are                                                *)
(*   Tags(value, cases, default), Fail(why), Plain(fields),                *)
(*   RecRecord(stat, dyn, includes), Annotated(annot, inner) and a few     *)
(*   operators.                                                            *)
(*                                                                         *)
(* Contracts follow core/stdlib/internals.ncl.  A label has a polarity,    *)
(* the polarity of the foralls it went through, and says whether it comes  *)
(* from a static type annotation.                                          *)
(***************************************************************************)
EXTENDS TypeContracts

CONSTANT Fuel \* how deep an evaluation may go before it counts as a loop

Lit(of, val)  == [v |-> "Lit", of |-> of, val |-> val]
BoolV(b)      == Lit("Bool", BoolC(b))
NumV(n)       == Lit("Num", NumC(n))
Failed(why)   == [v |-> "Fail", why |-> why]
Stuck         == Failed("stuck")   \* a dynamic type error or an unbound variable
IsFail(x)     == x.v = "Fail"
IsLit(x, of)  == x.v = "Lit" /\ x.of = of

Checked(cl, ctr, label) == [c |-> "Checked", of |-> cl, ctr |-> ctr, label |-> label]
Later(f, cl)  == [c |-> "Later", f |-> f, arg |-> cl]
Done(value)   == [c |-> "Done", value |-> value]

\* What a binding is bound to, with its annotations.
ValueOf(b) == IF Annots(b.annot) = <<>> THEN b.value ELSE Annot(b.annot, b.value)

NoEnv == [x \in {} |-> NoClos]

----------------------------------------------------------------------------
(***************************************************************************)
(* Labels, and what is sealed.                                             *)
(***************************************************************************)
Label(static) == [pol |-> TRUE, vars |-> [x \in {} |-> TRUE], static |-> static]
Flip(label) == [label EXCEPT !.pol = ~@]
\* Who is at fault: typed code, the code under a contract, or its context.
Blame(label) ==
  Failed(IF ~label.pol THEN "caller" ELSE IF label.static THEN "typed" ELSE "blame")
Sealed(key, label, cl) == [v |-> "Sealed", key |-> key, label |-> label, of |-> cl]
\* A sealed value can only be passed around.
Strict(x) == IF x.v = "Sealed" THEN Blame(x.label) ELSE x

NoTail == [key |-> -1]
SealedTail(key, label, fields) == [key |-> key, label |-> label, fields |-> fields]

\* A field of a record value: the definitions still to be merged, each with
\* the identifiers it takes from the record itself.
Part(t, env, own) == [t |-> t, env |-> env, own |-> own]
Field(parts, annots, opt, prio) == [parts |-> parts, annots |-> annots, opt |-> opt, prio |-> prio]
\* A contract that is pending on a field: a type, or a contract that is
\* already made.
Pending(typ, env, own) == [typ |-> typ, env |-> env, own |-> own, label |-> Label(FALSE)]
Applied(ctr, label) == [typ |-> NoType, ctr |-> ctr, env |-> NoEnv, own |-> {}, label |-> label]
\* A record of the translation is a runtime record.
Rec(fields) == [v |-> "Rec", fields |-> fields, tail |-> NoTail, runtime |-> FALSE]
IsDefined(r, id) == id \in DOMAIN r.fields /\ r.fields[id].parts # <<>>
Visible(r) == {id \in DOMAIN r.fields : ~(r.fields[id].opt /\ r.fields[id].parts = <<>>)}
\* What is kept of a record still sees the fields that are not.
Freeze(p, r) == [p EXCEPT !.env = OwnEnv(p, r), !.own = {}]
FreezeField(f, r) == [f EXCEPT !.parts = [i \in DOMAIN @ |-> Freeze(@[i], r)],
                               !.annots = [i \in DOMAIN @ |-> Freeze(@[i], r)]]
Keep(r, ids) == [r EXCEPT !.fields = [id \in ids |-> FreezeField(@[id], r)]]

\* The parts of the semantics refer to each other through run.
RECURSIVE run(_, _, _, _, _)
eval(t, env, k) == run("eval", t, env, NoEnv, k)
force(cl, k) == run("force", cl, NoClos, NoEnv, k)
apply(f, cl, k) == run("apply", f, cl, NoEnv, k)
field_value(rec, id, k) == run("field", rec, id, NoEnv, k)
check_contract(cl, ctr, label, k) == run("check", cl, ctr, label, k)
match(pat, cl, env, k) == run("match", pat, cl, env, k)
merge_rec(r, s) == run("merge", r, s, NoEnv, 0)
dedup(ps, qs) == run("dedup", ps, qs, NoEnv, 0)
observe(x, d) == run("observe", x, d, NoEnv, 0)
meaning(t, d) == run("meaning", t, d, NoEnv, 0)

push_dedup(ps, p, runtime) == IF runtime THEN dedup(ps, <<p>>) ELSE Append(ps, p)
merge_field(f, g, runtime) ==
  LET both == f.parts # <<>> /\ g.parts # <<>>
      win  == IF g.parts = <<>> \/ (both /\ f.prio > g.prio) THEN f ELSE g
  IN  Field(IF both /\ f.prio = g.prio THEN f.parts \o g.parts ELSE win.parts,
            IF runtime THEN dedup(f.annots, g.annots) ELSE f.annots \o g.annots,
            f.opt /\ g.opt,
            IF f.parts = <<>> /\ g.parts = <<>> THEN 0 ELSE win.prio)
merged_rec(r, s) ==
  LET runtime == r.runtime /\ s.runtime
  IN  [r EXCEPT !.runtime = runtime,
         !.fields = [id \in DOMAIN r.fields \cup DOMAIN s.fields |->
                       CASE id \notin DOMAIN s.fields -> r.fields[id]
                         [] id \notin DOMAIN r.fields -> s.fields[id]
                         [] OTHER -> merge_field(r.fields[id], s.fields[id], runtime)]]

typeof(x) ==
  CASE x.v = "Lit" -> [Null |-> "Other", Bool |-> "Bool", Num |-> "Number", Str |-> "String"][x.of]
    [] x.v = "Rec" -> "Record"
    [] x.v = "Arr" -> "Array"
    [] x.v = "Enum" -> "Enum"
    [] x.v = "Type" -> "Type"
    [] OTHER -> "Function"
EnumV(tag, cl) == [v |-> "Enum", tag |-> tag, arg |-> cl]
SameLit(x, y) == x.v = "Lit" /\ y.v = "Lit" /\ x.of = y.of /\ x.val = y.val
Same(x, y) == SameLit(x, y) \/ (/\ x.v = "Enum" /\ y.v = "Enum" /\ x.tag = y.tag
                                /\ x.arg = NoClos /\ y.arg = NoClos)
merge_value(x, y) ==
  CASE IsFail(x) -> x
    [] ~IsFail(x) /\ IsFail(y) -> y
    [] x.v = "Rec" /\ y.v = "Rec" ->
         IF x.tail # NoTail THEN Blame(x.tail.label)
         ELSE IF y.tail # NoTail THEN Blame(y.tail.label) ELSE merge_rec(x, y)
    [] OTHER -> IF Same(x, y) THEN x ELSE Failed("merge")

\* The operators on values.
GoodFor(op, a) ==
  CASE op \in {"Plus", "GreaterOrEq"} -> IsLit(a[1], "Num") /\ IsLit(a[2], "Num")
    [] op = "StringLength" -> IsLit(a[1], "Str")
    [] op \in {"BoolNot", "BoolAnd"} -> IsLit(a[1], "Bool")
    [] op \in {"RecordStatAccess", "RecordFieldIsDefined", "RecordHasField", "RecordFields",
               "RecordRemove", "RecordInsert"} -> a[1].v = "Rec"
    [] op = "RecordGet" -> IsLit(a[1], "Str") /\ a[2].v = "Rec"
    [] op \in {"ArrayLength"} -> a[1].v = "Arr"
    [] op = "ArrayAt" -> a[1].v = "Arr" /\ IsLit(a[2], "Num")
    [] op = "ArraySlice" -> IsLit(a[1], "Num") /\ IsLit(a[2], "Num") /\ a[3].v = "Arr"
    [] op \in {"EnumGetTag", "EnumGetArg"} -> a[1].v = "Enum"
    [] OTHER -> TRUE
Lazy == [BoolAnd |-> 1, Seq |-> 1, RecordInsert |-> 1, RecordGet |-> 2] \* how many are forced
Forced(ast) == IF ast.op \in DOMAIN Lazy THEN Lazy[ast.op] ELSE Len(ast.args)


----------------------------------------------------------------------------
(***************************************************************************)
(* Applying a contract to a value that may not be evaluated yet.           *)
(***************************************************************************)
\* A field with a value that is already closed.
ClosedField(f, cl) == Field(<<Part([n |-> "Forced", cl |-> cl], NoEnv, {})>>, <<>>, f.opt, f.prio)
\* The fields of a record are mapped: each must have a definition.
map_fields(r, ids, F(_)) ==
  IF \E id \in ids \cap Visible(r) : ~IsDefined(r, id) THEN Failed("missing")
  ELSE [r EXCEPT !.fields = [id \in ids \cap Visible(r) |-> ClosedField(@[id], F(id))]]
with_fields(x, fields) == IF IsFail(x) THEN x ELSE [x EXCEPT !.fields = fields @@ @]

forall_record_tail(x, r, rest, ctr, label) ==
  LET extra == DOMAIN rest.fields
  IN  IF label.vars[ctr.key] = label.pol
      THEN IF extra = {} /\ x.tail.key = ctr.key
           THEN with_fields([r EXCEPT !.tail = NoTail], x.tail.fields) ELSE Blame(label)
      ELSE IF extra \cap ctr.excluded # {} THEN Blame(label)
      ELSE [r EXCEPT !.tail = SealedTail(ctr.key, Flip(label), rest.fields)]

forall_record_tail_excluded_only(r, rest, ctr, label) ==
  IF DOMAIN rest.fields \cap ctr.excluded # {} THEN Blame(label) ELSE r

record_type(x, ctr, label) ==
  LET ids  == DOMAIN ctr.fields
      rest == Keep(x, Visible(x) \ ids)
      field(id) == Checked(Member(x, id), ctr.fields[id], label)
      r    == map_fields(x, ids, field)
      bad  == ~(ids \subseteq DOMAIN x.fields) \/ (ctr.tail.c = "empty_tail" /\ DOMAIN rest.fields # {})
  IN  CASE bad -> Blame(label)
        [] ~bad /\ IsFail(r) -> r
        [] ~bad /\ ~IsFail(r) /\ ctr.tail.c = "empty_tail" -> [r EXCEPT !.tail = NoTail]
        [] ~bad /\ ~IsFail(r) /\ ctr.tail.c = "dyn_tail" -> with_fields(r, rest.fields)
        [] ~bad /\ ~IsFail(r) /\ ctr.tail.c = "forall_record_tail" ->
             forall_record_tail(x, r, rest, ctr.tail, label)
        [] OTHER -> forall_record_tail_excluded_only(r, rest, ctr.tail, label)

enum_type(x, ctr, label) ==
  IF x.tag \in DOMAIN ctr.fields /\ (ctr.fields[x.tag].c = "none") = (x.arg = NoClos)
  THEN IF x.arg = NoClos THEN x ELSE EnumV(x.tag, Checked(x.arg, ctr.fields[x.tag], label))
  ELSE IF ctr.tail.c = "enum_fail" THEN Blame(label) ELSE x

\* A contract of the program: a record or a type.
custom_contract(cl, x, ctr, label, k) ==
  LET c == Strict(eval(ctr.t, ctr.env, k - 1))
  IN  CASE IsFail(c) -> c
        [] c.v = "Type" -> check_contract(cl, contract(c.typ, c.env), label, k)
        [] c.v = "Rec" ->
             IF IsFail(x) THEN x
             ELSE IF x.v # "Rec" \/ ~(Visible(x) \subseteq DOMAIN c.fields) THEN Blame(label)
             ELSE merge_value(x, c)
        [] OTHER -> Stuck

checked_value(cl, ctr, label, k) ==
  LET x == Strict(force(cl, k))
      wrap(dom, cod) == [v |-> "Wrap", f |-> x, dom |-> dom, cod |-> cod, label |-> label]
      any == Ctr("dyn", <<>>)
      elt(id) == Checked(Member(x, id), ctr.args[1], label)
      is(tag, y) == IF typeof(x) = tag THEN y ELSE Blame(label)
  IN  CASE ctr.c = "dyn" -> force(cl, k)
        [] ctr.c = "custom" -> custom_contract(cl, x, ctr, label, k)
        [] ctr.c = "forall" ->
             check_contract(cl, ctr.body, [label EXCEPT !.vars = (ctr.key :> ctr.pol) @@ @], k)
        [] ctr.c = "forall_var" ->
             LET y == force(cl, k)
             IN  IF label.vars[ctr.key] # label.pol THEN Sealed(ctr.key, Flip(label), cl)
                 ELSE IF IsFail(y) THEN y
                 ELSE IF y.v = "Sealed" /\ y.key = ctr.key THEN force(y.of, k - 1) ELSE Blame(label)
        [] ctr.c \notin {"dyn", "custom", "forall", "forall_var"} /\ IsFail(x) -> x
        [] ctr.c = "base" /\ ~IsFail(x) -> is(ctr.tag, x)
        [] ctr.c = "array_dyn" /\ ~IsFail(x) -> is("Array", x)
        [] ctr.c = "array" /\ ~IsFail(x) ->
             is("Array", [v |-> "Arr", elts |-> [i \in DOMAIN x.elts |-> Checked(x.elts[i], ctr.args[1], label)]])
        [] ctr.c = "func_dyn" /\ ~IsFail(x) -> is("Function", x)
        [] ctr.c = "func_dom" /\ ~IsFail(x) -> is("Function", wrap(ctr.args[1], any))
        [] ctr.c = "func_codom" /\ ~IsFail(x) -> is("Function", wrap(any, ctr.args[1]))
        [] ctr.c = "func" /\ ~IsFail(x) -> is("Function", wrap(ctr.args[1], ctr.args[2]))
        [] ctr.c = "record_type" /\ ~IsFail(x) -> is("Record", record_type(x, ctr, label))
        [] ctr.c = "enum" /\ ~IsFail(x) -> is("Enum", enum_type(x, ctr, label))
        [] ctr.c = "dict_dyn" /\ ~IsFail(x) -> is("Record", x)
        [] ctr.c = "dict_type" /\ ~IsFail(x) -> is("Record", map_fields(x, DOMAIN x.fields, elt))
        [] OTHER -> is("Record", [x EXCEPT !.fields = [id \in DOMAIN @ |->
                      [@[id] EXCEPT !.annots = push_dedup(@, Applied(ctr.args[1], label), x.runtime)]]])

\* The contracts of an annotation; the type may be simplified before.
check_annot(cl, annot, env, Static(_, _), k) ==
  LET typed == IF annot.typ = NoType THEN cl ELSE Checked(cl, Static(annot.typ, env), Label(TRUE))
      n     == Len(annot.contracts)
      f[i \in 0 .. n] == IF i = 0 THEN typed
                         ELSE Checked(f[i - 1], contract(annot.contracts[i], env), Label(FALSE))
  IN  force(f[n], k)

merged_field(rec, id, k) ==
  LET f == rec.fields[id]
      part(p) == eval(p.t, OwnEnv(p, rec), k)
      ctr(p) == IF p.typ = NoType THEN p.ctr ELSE contract(p.typ, OwnEnv(p, rec))
      all[i \in 0 .. Len(f.parts)] ==
        IF i = 0 THEN NoClos
        ELSE IF i = 1 THEN part(f.parts[1]) ELSE merge_value(Strict(all[i - 1]), Strict(part(f.parts[i])))
      checked[i \in 0 .. Len(f.annots)] ==
        IF i = 0 THEN Done(all[Len(f.parts)])
        ELSE Checked(checked[i - 1], ctr(f.annots[i]), f.annots[i].label)
  IN  IF ~IsDefined(rec, id) THEN Failed("missing")
      ELSE IF f.annots = <<>> THEN all[Len(f.parts)]
      ELSE force(checked[Len(f.annots)], k)

forced_value(cl, k) ==
  LET b   == cl.bs[cl.i]
      env == BlockEnv(cl)
      m   == match(b.pat, Clos(ValueOf(b), env), env, k - 1)
  IN  CASE k = 0 -> Failed("loop")
        [] k > 0 /\ cl.c = "Clos" -> eval(cl.t, cl.env, k - 1)
        [] k > 0 /\ cl.c = "Done" -> cl.value
        [] k > 0 /\ cl.c = "Field" -> field_value(cl.rec, cl.id, k - 1)
        [] k > 0 /\ cl.c = "Checked" -> check_contract(cl.of, cl.ctr, cl.label, k - 1)
        [] k > 0 /\ cl.c = "Later" -> apply(cl.f, cl.arg, k - 1)
        [] OTHER -> IF m.m = "yes" THEN force(m.bs[cl.id], k - 1)
                    ELSE IF m.m = "no" THEN Failed("nomatch") ELSE m.fail

----------------------------------------------------------------------------
(***************************************************************************)
(* Patterns: does the value match, and what is bound?  The sub-patterns    *)
(* are tried from the first to the last, and only as far as needed.        *)
(***************************************************************************)
Yes(bs) == [m |-> "yes", bs |-> bs]
No      == [m |-> "no"]
Fails2(x) == [m |-> "fail", fail |-> x]

match_all(n, Sub(_)) ==
  LET f[i \in 0 .. n] ==
        IF i = 0 THEN Yes(NoEnv)
        ELSE IF f[i - 1].m # "yes" THEN f[i - 1]
        ELSE LET s == Sub(i) IN IF s.m = "yes" THEN Yes(s.bs @@ f[i - 1].bs) ELSE s
  IN  f[n]
WithRest(m, pat, x) ==
  IF m.m = "yes" /\ pat.tail = "Capture" THEN Yes((pat.rest :> Done(x)) @@ m.bs) ELSE m

match_record(pat, r, env, k) ==
  LET ids == {pat.fields[i].id : i \in DOMAIN pat.fields}
      added == {i \in DOMAIN pat.fields : /\ pat.fields[i].default # NoAst
                                          /\ ~IsDefined(r, pat.fields[i].id)}
      default(id) == pat.fields[CHOOSE i \in added : pat.fields[i].id = id].default
      own == [id \in {pat.fields[i].id : i \in added} |->
                Field(<<Part(default(id), env, {})>>, <<>>, FALSE, 0)]
      full == merge_rec(r, [Rec(own) EXCEPT !.runtime = r.runtime])
      sub(i) == LET f  == pat.fields[i]
                    cl == Member(full, f.id)
                    typ == first(f.annot)
                IN  match(f.pat, IF typ # NoType /\ f.pat.p = "Any"
                                 THEN Checked(cl, contract(typ, env), Label(FALSE)) ELSE cl,
                          env, k)
      m == match_all(Len(pat.fields), sub)
  IN  IF /\ \A id \in ids : IsDefined(full, id)
         /\ pat.tail = "Empty" => Visible(full) = ids
      THEN WithRest(m, pat, Keep(full, DOMAIN full.fields \ ids))
      ELSE No

matched_data(pat, cl, env, k) ==
  LET x == Strict(force(cl, k))
      n == Len(pat.pats)
      elt(i) == match(pat.pats[i], x.elts[i], env, k)
      rest == [v |-> "Arr", elts |-> SubSeq(x.elts, n + 1, Len(x.elts))]
      or[i \in 0 .. n] ==
        IF i = 0 THEN No
        ELSE LET m == match(pat.pats[n + 1 - i], cl, env, k) IN IF m.m = "no" THEN or[i - 1] ELSE m
      const == Lit(pat.of, pat.val)
  IN  CASE pat.p = "Wildcard" -> Yes(NoEnv)
        [] pat.p = "Any" -> Yes(pat.id :> cl)
        [] pat.p = "Or" -> or[n]
        [] pat.p \notin {"Wildcard", "Any", "Or"} /\ IsFail(x) -> Fails2(x)
        [] pat.p = "Const" /\ ~IsFail(x) -> IF SameLit(x, const) THEN Yes(NoEnv) ELSE No
        [] pat.p = "Enum" /\ ~IsFail(x) ->
             IF x.v # "Enum" \/ x.tag # pat.tag \/ (pat.arg = NoPat) # (x.arg = NoClos) THEN No
             ELSE IF pat.arg = NoPat THEN Yes(NoEnv) ELSE match(pat.arg, x.arg, env, k)
        [] pat.p = "Record" /\ ~IsFail(x) -> IF x.v = "Rec" THEN match_record(pat, x, env, k) ELSE No
        [] OTHER -> IF /\ x.v = "Arr"
                       /\ IF pat.tail = "Empty" THEN Len(x.elts) = n ELSE Len(x.elts) >= n
                    THEN WithRest(match_all(n, elt), pat, rest) ELSE No

matched(pat, cl, env, k) ==
  LET Alias(r) == IF r.m = "yes" /\ pat.alias # "" THEN Yes((pat.alias :> cl) @@ r.bs) ELSE r
  IN  IF k = 0 THEN Fails2(Failed("loop")) ELSE Alias(matched_data(pat, cl, env, k))

\* The first branch that matches, and whose guard holds.
RECURSIVE eval_branches(_, _, _, _, _)
eval_branches(branches, i, cl, env, k) ==
  LET b == branches[i]
      m == match(b.pat, cl, env, k)
      g == Strict(eval(b.guard, m.bs @@ env, k))
  IN  CASE i > Len(branches) -> Failed("nomatch")
        [] i =< Len(branches) /\ m.m = "fail" -> m.fail
        [] i =< Len(branches) /\ m.m = "no" -> eval_branches(branches, i + 1, cl, env, k)
        [] OTHER -> IF b.guard = NoAst THEN eval(b.body, m.bs @@ env, k)
                    ELSE IF IsFail(g) THEN g
                    ELSE IF ~IsLit(g, "Bool") THEN Stuck
                    ELSE IF g.val.bool THEN eval(b.body, m.bs @@ env, k)
                    ELSE eval_branches(branches, i + 1, cl, env, k)

applied(f, cl, k) ==
  LET m == match(f.args[1], cl, f.env, k)
      e == m.bs @@ f.env
  IN  CASE IsFail(f) -> f
        [] f.v = "Sealed" -> Blame(f.label)
        [] f.v = "Wrap" ->
             check_contract(Later(f.f, Checked(cl, f.dom, Flip(f.label))), f.cod, f.label, k)
        [] f.v = "Match" -> eval_branches(f.branches, 1, cl, f.env, k)
        [] f.v = "Fun" ->
             IF m.m = "fail" THEN m.fail
             ELSE IF m.m = "no" THEN Failed("nomatch")
             ELSE IF Len(f.args) = 1 THEN eval(f.body, e, k)
             ELSE [f EXCEPT !.args = Tail(@), !.env = e]
        [] OTHER -> Stuck

----------------------------------------------------------------------------
(***************************************************************************)
(* Records.  A definition by path is the record with that one definition;  *)
(* the definitions of a literal are merged.                                *)
(***************************************************************************)
\* A type annotation is for the value that comes with it only; the contracts
\* of a field are pending, also on what is merged with it.
Typed_(def, node) ==
  IF def.annot.typ = NoType \/ def.value = NoAst THEN def.value
  ELSE [n |-> node, annot |-> HasType(def.annot.typ), inner |-> def.value]
AllPending(typs, env, own) == [i \in DOMAIN typs |-> Pending(typs[i], env, own)]

\* The field that a definition gives to its first path element.
RECURSIVE PathField(_, _, _, _)
PathField(def, i, env, own) ==
  LET last == Field(IF def.value = NoAst THEN <<>> ELSE <<Part(Typed_(def, "Annot"), env, own)>>,
                    AllPending(def.annot.contracts, env, own), def.meta.opt, def.meta.prio)
  IN  IF i = Len(def.path) THEN last
      ELSE Field(<<Part([n |-> "Path", def |-> def, i |-> i + 1], env, own)>>, <<>>, FALSE, 0)

NameOf(e, env, k) ==
  LET x == eval(e.expr, env, k)
  IN  IF e.expr = NoAst THEN e.id ELSE IF IsLit(x, "Str") THEN x.val.str[1] ELSE "?"

record_value(ast, env, k) ==
  LET own == {ast.defs[i].path[1].id : i \in {j \in DOMAIN ast.defs : ast.defs[j].path[1].expr = NoAst}}
             \cup {ast.includes[i].id : i \in DOMAIN ast.includes}
      one(i) == LET d == ast.defs[i]
                IN  Rec(NameOf(d.path[1], env, k) :> PathField(d, 1, env, own))
      inc(i) == LET d == ast.includes[i]
                IN  Rec(d.id :> Field(<<Part(Typed_(d @@ [value |-> Var(d.id)], "Annot"), env, {})>>,
                                      AllPending(d.annot.contracts, env, own), FALSE, 0))
      defs[i \in 0 .. Len(ast.defs)] == IF i = 0 THEN Rec([x \in {} |-> NoClos])
                                        ELSE merge_rec(defs[i - 1], one(i))
      all[i \in 0 .. Len(ast.includes)] == IF i = 0 THEN defs[Len(ast.defs)]
                                           ELSE merge_rec(all[i - 1], inc(i))
  IN  all[Len(ast.includes)]

\* The records of the translation.
TermField(f, env, own) ==
  Field(IF f.value = NoAst THEN <<>> ELSE <<Part(Typed_(f, "Annotated"), env, own)>>,
        AllPending(f.annot.contracts, env, own), f.opt, f.prio)
rec_record_value(ast, env, k) ==
  LET own == {ast.stat[i].id : i \in DOMAIN ast.stat} \cup {ast.includes[i].id : i \in DOMAIN ast.includes}
      at(i) == ast.stat[CHOOSE j \in DOMAIN ast.stat : ast.stat[j].id = i].field
      stat == [id \in {ast.stat[i].id : i \in DOMAIN ast.stat} |->
                 TermField(at(id), env, IF ast.n = "Plain" THEN {} ELSE own)]
      dyn == [id \in {NameOf(ast.dyn[i], env, k) : i \in DOMAIN ast.dyn} |->
                LET i == CHOOSE j \in DOMAIN ast.dyn : NameOf(ast.dyn[j], env, k) = id
                IN  TermField(ast.dyn[i].field, env, own)]
      inc == [id \in {ast.includes[i].id : i \in DOMAIN ast.includes} |->
                LET i == CHOOSE j \in DOMAIN ast.includes : ast.includes[j].id = id
                IN  Field(<<Part(Typed_(ast.includes[i] @@ [value |-> Var(id)], "Annotated"), env, {})>>,
                          AllPending(ast.includes[i].annot.contracts, env, own), FALSE, 0)]
  IN  [Rec(inc @@ dyn @@ stat) EXCEPT !.runtime = TRUE]

----------------------------------------------------------------------------
eval_op(ast, env, a, k) ==
  LET lazy(i) == Clos(ast.args[i], env)
      get(r, id) == IF id \in DOMAIN r.fields THEN field_value(r, id, k - 1)
                    ELSE IF r.tail # NoTail /\ id \in DOMAIN r.tail.fields THEN Blame(r.tail.label)
                    ELSE Failed("missing")
  IN  CASE \E i \in DOMAIN a : IsFail(a[i]) -> a[CHOOSE i \in DOMAIN a : /\ IsFail(a[i])
                                                   /\ \A j \in 1 .. i - 1 : ~IsFail(a[j])]
        [] ~GoodFor(ast.op, a) -> Stuck
        [] ast.op = "Plus" -> NumV(a[1].val.num + a[2].val.num)
        [] ast.op = "GreaterOrEq" -> BoolV(a[1].val.num >= a[2].val.num)
        [] ast.op = "Eq" -> BoolV(Same(a[1], a[2]))
        [] ast.op = "StringLength" -> NumV(Len(a[1].val.str))
        [] ast.op = "BoolNot" -> BoolV(~a[1].val.bool)
        [] ast.op = "BoolAnd" -> IF a[1].val.bool THEN force(lazy(2), k - 1) ELSE a[1]
        [] ast.op = "Seq" -> force(lazy(2), k - 1)
        [] ast.op = "Typeof" -> EnumV(typeof(a[1]), NoClos)
        [] ast.op = "Merge" -> merge_value(a[1], a[2])
        [] ast.op = "RecordStatAccess" -> get(a[1], ast.id)
        [] ast.op = "RecordGet" -> get(a[2], a[1].val.str[1])
        [] ast.op = "RecordFieldIsDefined" -> BoolV(IsDefined(a[1], ast.id))
        [] ast.op = "RecordHasField" -> BoolV(ast.id \in DOMAIN a[1].fields)
        [] ast.op = "RecordFields" ->
             [v |-> "Arr", elts |-> [i \in 1 .. Cardinality(Visible(a[1])) |-> NoClos]]
        [] ast.op = "RecordRemove" -> Keep(a[1], DOMAIN a[1].fields \ {ast.id})
        [] ast.op = "RecordInsert" ->
             with_fields(a[1], ast.id :> Field(<<Part(ast.args[2], env, {})>>, <<>>, FALSE, 0))
        [] ast.op = "ArrayLength" -> NumV(Len(a[1].elts))
        [] ast.op = "ArrayAt" -> IF a[2].val.num < Len(a[1].elts) THEN force(a[1].elts[a[2].val.num + 1], k - 1)
                                 ELSE Failed("missing")
        [] ast.op = "ArraySlice" -> [v |-> "Arr", elts |-> SubSeq(a[3].elts, a[1].val.num + 1, a[2].val.num)]
        [] ast.op = "EnumIsVariant" -> BoolV(a[1].v = "Enum" /\ a[1].arg # NoClos)
        [] ast.op = "EnumGetTag" -> EnumV(a[1].tag, NoClos)
        [] ast.op = "EnumGetArg" -> IF a[1].arg = NoClos THEN Stuck ELSE force(a[1].arg, k - 1)

evaluated(t, env, k) ==
  LET arg(i) == Clos(t.args[i], env)
      app[i \in 0 .. Len(t.args)] ==
        IF i = 0 THEN eval(t.head, env, k - 1) ELSE apply(app[i - 1], arg(i), k - 1)
      parts == Evaluated([i \in DOMAIN t.args |-> Strict(eval(t.args[i], env, k - 1))])
      words == FlattenSeq([i \in DOMAIN parts |-> parts[i].val.str])
      cond == Strict(eval(t.args[1], env, k - 1))
      \* the patterns of a block are matched before its body
      bs == t.bs
      ids == UNION {bindings(bs[i].pat) : i \in DOMAIN bs}
      which(id) == CHOOSE i \in DOMAIN bs : id \in bindings(bs[i].pat)
      benv == [id \in ids |-> Bound(bs, env, t.rec, which(id), id)] @@ env
      strict(i) == match(bs[i].pat, Clos(ValueOf(bs[i]), IF t.rec THEN benv ELSE env), env, k - 1)
      block == match_all(Len(bs), strict)
      value == Strict(eval(t.value, env, k - 1))
      op(i) == eval(t.args[i], env, k - 1)
      ops == Evaluated([i \in 1 .. Forced(t) |-> IF t.op = "Seq" THEN op(i) ELSE Strict(op(i))])
  IN  CASE k = 0 -> Failed("loop")
        [] k > 0 /\ t.n \in {"Null", "Bool", "Num", "Str"} -> Lit(t.n, t.v)
        [] k > 0 /\ t.n = "Chunks" ->
             IF \E i \in DOMAIN parts : IsFail(parts[i])
             THEN parts[CHOOSE i \in DOMAIN parts : IsFail(parts[i])]
             ELSE IF \A i \in DOMAIN parts : IsLit(parts[i], "Str") THEN Lit("Str", StrC(words)) ELSE Stuck
        [] k > 0 /\ t.n = "Enum" -> EnumV(t.tag, IF t.arg = NoAst THEN NoClos ELSE Clos(t.arg, env))
        [] k > 0 /\ t.n = "Var" -> IF t.id \in DOMAIN env THEN force(env[t.id], k - 1) ELSE Stuck
        [] k > 0 /\ t.n = "Fun" -> [v |-> "Fun", args |-> t.args, body |-> t.body, env |-> env]
        [] k > 0 /\ t.n = "Match" -> [v |-> "Match", branches |-> t.branches, env |-> env]
        [] k > 0 /\ t.n = "App" -> app[Len(t.args)]
        [] k > 0 /\ t.n = "If" ->
             IF IsFail(cond) THEN cond
             ELSE IF ~IsLit(cond, "Bool") THEN Stuck
             ELSE eval(t.args[IF cond.val.bool THEN 2 ELSE 3], env, k - 1)
        [] k > 0 /\ t.n = "Let" ->
             IF block.m = "yes" THEN eval(t.body, benv, k - 1)
             ELSE IF block.m = "no" THEN Failed("nomatch") ELSE block.fail
        [] k > 0 /\ t.n = "Array" ->
             [v |-> "Arr", elts |-> [i \in DOMAIN t.elts |-> Clos(t.elts[i], env)]]
        [] k > 0 /\ t.n = "Record" -> record_value(t, env, k - 1)
        [] k > 0 /\ t.n = "Path" ->
             Rec(NameOf(t.def.path[t.i], env, k - 1) :> PathField(t.def, t.i, env, {}))
        [] k > 0 /\ t.n \in {"RecRecord", "Plain"} -> rec_record_value(t, env, k - 1)
        [] k > 0 /\ t.n = "Annot" -> check_annot(Clos(t.inner, env), t.annot, env, contract, k - 1)
        [] k > 0 /\ t.n = "Annotated" -> check_annot(Clos(t.inner, env), t.annot, env, contract_static, k - 1)
        [] k > 0 /\ t.n = "Forced" -> force(t.cl, k - 1)
        [] k > 0 /\ t.n = "Op" -> eval_op(t, env, ops, k)
        [] k > 0 /\ t.n = "Import" ->
             IF t.file \in DOMAIN Imports /\ Imports[t.file] # NoAst
             THEN eval(Imports[t.file], NoEnv, k - 1) ELSE Failed("import")
        [] k > 0 /\ t.n = "Type" -> [v |-> "Type", typ |-> t.typ, env |-> env]
        [] k > 0 /\ t.n = "Tags" ->
             IF IsFail(value) THEN value
             ELSE IF value.v = "Enum" /\ value.arg = NoClos /\ value.tag \in DOMAIN t.cases
             THEN eval(t.cases[value.tag], env, k - 1)
             ELSE IF t.default # NoAst THEN eval(t.default, env, k - 1)
             ELSE IF value.v = "Enum" /\ value.arg = NoClos THEN Failed("nomatch") ELSE Stuck
        [] OTHER -> Failed(t.why)

----------------------------------------------------------------------------
(***************************************************************************)
(* What can be observed of a value: its shape, evaluated to a depth.       *)
(***************************************************************************)
observed(x, d) ==
  CASE x.v = "Lit" -> <<x.of, x.val>>
    [] x.v = "Fail" -> <<"Fail", x.why>>
    [] x.v = "Sealed" -> <<"Fail", Blame(x.label).why>>
    [] x.v = "Enum" ->
         IF x.arg = NoClos \/ d = 0 THEN <<"Enum", x.tag>>
         ELSE <<"Enum", x.tag, observe(force(x.arg, Fuel), d - 1)>>
    [] x.v = "Rec" ->
         IF d = 0 THEN <<"Rec">>
         ELSE <<"Rec", [id \in Visible(x) |-> observe(field_value(x, id, Fuel), d - 1)]>>
    [] x.v = "Arr" ->
         IF d = 0 THEN <<"Arr">>
         ELSE <<"Arr", [i \in DOMAIN x.elts |-> observe(force(x.elts[i], Fuel), d - 1)]>>
    [] OTHER -> <<typeof(x)>>

run(what, x, y, z, k) ==
  CASE what = "eval" -> evaluated(x, y, k)
    [] what = "force" -> forced_value(x, k)
    [] what = "match" -> matched(x, y, z, k)
    [] what = "apply" -> applied(x, y, k)
    [] what = "field" -> merged_field(x, y, k)
    [] what = "merge" -> merged_rec(x, y)
    [] what = "dedup" -> combine_dedup(x, y)
    [] what = "observe" -> observed(x, y)
    [] what = "meaning" -> observe(eval(x, NoEnv, Fuel), y)
    [] what = "check" -> checked_value(x, y, z, k)
=============================================================================
