--------------------------- MODULE TypeContracts ----------------------------
(***************************************************************************)
(* The contracts that types stand for (typ.rs), and their equality at run  *)
(* time (contract_eq.rs).                                                  *)
(***************************************************************************)
EXTENDS Programs

-----------------------------------------------------------------------------
(***************************************************************************)
(* The contract of a type (core/src/typ.rs): the types of static           *)
(* annotations are simplified first, since a typechecked term needs no     *)
(* check of its own; what remains are checks on the values it receives.    *)
(*                                                                         *)
(* A contract is a record named for its function of                        *)
(* core/stdlib/internals.ncl, without the dollar sign; Semantics applies   *)
(* it.  A polarity is TRUE when it is positive.                            *)
(***************************************************************************)
TDyn == Atom("Dyn")
IsDyn(t) == IsCon(t, "Dyn")
WithSub(t, sub) == [t EXCEPT !.sub = sub]
\* A row variable bound to forall_record_tail_excluded_only in the contract
\* environment.
RExcluded(ids) == [Atom("RVar") EXCEPT !.id = "%excluded"] @@ [excluded |-> ids]

\* The domain of a function has the opposite polarity (Polarity::flip).
flip(pos) == ~pos

----------------------------------------------------------------------------
(***************************************************************************)
(* Simplification.  sv.types and sv.rrows are the variables introduced by  *)
(* a forall in positive position (SimplifyVars), the latter with the       *)
(* fields they exclude.                                                    *)
(***************************************************************************)
NoSimplifyVars == [types |-> {}, rrows |-> [x \in {} |-> {}]]

RECURSIVE simplify(_, _, _), simplify_rrows(_, _, _, _, _), simplify_erows(_, _, _), peek_tail(_, _)

\* The fields of rows, and whether the tail allows dropping some of them.
peek_tail(rows, sv) ==
  LET rest == peek_tail(rows.sub[2], sv)
  IN  IF rows.op = "RExtend" THEN [rest EXCEPT !.fields = @ \cup {rows.id}]
      ELSE [fields |-> {}, can_elide |-> rows.op = "RVar" => rows.id \in DOMAIN sv.rrows]

simplify_rrows(rows, sv, pos, fields, can_elide) ==
  LET typ  == simplify(rows.sub[1], sv, pos)
      tail == simplify_rrows(rows.sub[2], sv, pos, fields, can_elide)
      left == sv.rrows[rows.id] \ fields
  IN  CASE rows.op = "REmpty" -> IF pos THEN TailDyn ELSE rows
        [] rows.op = "RExtend" ->
             IF IsDyn(typ) /\ pos /\ can_elide THEN tail ELSE WithSub(rows, <<typ, tail>>)
        [] rows.op = "RVar" /\ rows.id \in DOMAIN sv.rrows ->
             IF pos \/ left = {} THEN TailDyn ELSE RExcluded(left)
        [] OTHER -> rows

\* Enum rows can be dropped when each of them can and the tail is empty.
simplify_erows(rows, sv, pos) ==
  LET last == Len(rows.sub)
      tail == simplify_erows(rows.sub[last], sv, pos)
      typ  == simplify(rows.sub[1], sv, pos)
  IN  CASE rows.op = "EExtend" /\ last = 1 -> [tail EXCEPT !.rows = WithSub(rows, <<@>>)]
        [] rows.op = "EExtend" /\ last = 2 ->
             [rows |-> WithSub(rows, <<typ, tail.rows>>), elide |-> tail.elide /\ IsDyn(typ)]
        [] OTHER -> [rows |-> rows, elide |-> rows.op = "EEmpty"]

simplify(t, sv, pos) ==
  LET inner == simplify(t.sub[1], sv, pos)
      peek  == peek_tail(t.sub[1], sv)
      rrows == simplify_rrows(t.sub[1], sv, pos, peek.fields, peek.can_elide)
      erows == simplify_erows(t.sub[1], sv, pos)
  IN  CASE t.op = "Arrow" -> WithSub(t, <<simplify(t.sub[1], sv, flip(pos)), simplify(t.sub[2], sv, pos)>>)
        [] t.op = "Forall" /\ pos /\ t.kind = "type" ->
             simplify(t.sub[1], [sv EXCEPT !.types = @ \cup {t.id}], pos)
        [] t.op = "Forall" /\ pos /\ t.kind = "rrows" ->
             simplify(t.sub[1], [sv EXCEPT !.rrows = (t.id :> t.excluded) @@ @], pos)
        [] t.op = "Forall" /\ ~(pos /\ t.kind \in {"type", "rrows"}) -> WithSub(t, <<inner>>)
        [] t.op = "Var" /\ t.id \in sv.types -> TDyn
        [] t.op \in {"Number", "String", "Bool", "Symbol", "ForeignId"} /\ pos -> TDyn
        [] t.op = "Record" -> IF pos /\ rrows.op \in {"RDyn", "REmpty"} THEN TDyn ELSE WithSub(t, <<rrows>>)
        [] t.op = "Enum" -> IF pos /\ erows.elide THEN TDyn ELSE WithSub(t, <<erows.rows>>)
        [] t.op \in {"Dict", "Array"} -> IF pos /\ IsDyn(inner) THEN TDyn ELSE WithSub(t, <<inner>>)
        [] OTHER -> t

----------------------------------------------------------------------------
(***************************************************************************)
(* Contract generation.  cx.vars gives the contracts of the type           *)
(* variables and cx.env the environment of the annotation; sy is the next  *)
(* sealing key.  The result is the contract and the key after it.          *)
(***************************************************************************)
Ctr(name, args) == [c |-> name, args |-> args]
Made(ctr, sy) == [ctr |-> ctr, sy |-> sy]

RECURSIVE subcontract(_, _, _, _), subcontract_rows(_, _, _, _)

\* The contract that a forall gives to its variable.
VarContract(t, key) ==
  CASE t.kind = "type" -> [c |-> "forall_var", key |-> key]
    [] t.kind = "erows" -> [c |-> "forall_enum_tail"]
    [] OTHER -> [c |-> "forall_record_tail", key |-> key, excluded |-> t.excluded]

\* The rows of a record or of an enum type, with the contract of the tail.
subcontract_rows(rows, cx, pos, sy) ==
  LET typed == Len(rows.sub) = 2
      arg   == IF typed THEN subcontract(rows.sub[1], cx, pos, sy) ELSE Made(Ctr("none", <<>>), sy)
      rest  == subcontract_rows(rows.sub[Len(rows.sub)], cx, pos, arg.sy)
      tail  == CASE rows.op = "REmpty" -> Ctr("empty_tail", <<>>)
                 [] rows.op = "RDyn"   -> Ctr("dyn_tail", <<>>)
                 [] rows.op = "EEmpty" -> Ctr("enum_fail", <<>>)
                 [] rows.op = "RVar" /\ rows.id = "%excluded" ->
                      [c |-> "forall_record_tail_excluded_only", excluded |-> rows.excluded]
                 [] OTHER -> cx.vars[rows.id]
  IN  IF rows.op \in {"RExtend", "EExtend"}
      THEN [rest EXCEPT !.fields = IF rows.id \in DOMAIN @ THEN @ ELSE (rows.id :> arg.ctr) @@ @]
      ELSE [fields |-> [x \in {} |-> tail], tail |-> tail, sy |-> sy]

subcontract(t, cx, pos, sy) ==
  LET one  == subcontract(t.sub[1], cx, pos, sy)
      dom  == subcontract(t.sub[1], cx, flip(pos), sy)
      cod  == subcontract(t.sub[2], cx, pos, IF IsDyn(t.sub[1]) THEN sy ELSE dom.sy)
      rows == subcontract_rows(t.sub[1], cx, pos, sy)
      body == subcontract(t.sub[1], [cx EXCEPT !.vars = (t.id :> VarContract(t, sy)) @@ @], pos, sy + 1)
  IN  CASE t.op \in {"Dyn", "Wildcard"} -> Made(Ctr("dyn", <<>>), sy)
        [] t.op \in {"Number", "Bool", "String", "ForeignId"} -> Made([c |-> "base", tag |-> t.op], sy)
        [] t.op = "Array" ->
             IF IsDyn(t.sub[1]) THEN Made(Ctr("array_dyn", <<>>), sy) ELSE Made(Ctr("array", <<one.ctr>>), one.sy)
        [] t.op = "Arrow" ->
             IF IsDyn(t.sub[1]) /\ IsDyn(t.sub[2]) THEN Made(Ctr("func_dyn", <<>>), sy)
             ELSE IF IsDyn(t.sub[1]) THEN Made(Ctr("func_codom", <<cod.ctr>>), cod.sy)
             ELSE IF IsDyn(t.sub[2]) THEN Made(Ctr("func_dom", <<dom.ctr>>), dom.sy)
             ELSE Made(Ctr("func", <<dom.ctr, cod.ctr>>), cod.sy)
        [] t.op = "Contract" -> Made([c |-> "custom", t |-> t.ast, env |-> cx.env], sy)
        [] t.op = "Var" -> Made(cx.vars[t.id], sy)
        [] t.op = "Forall" -> Made([c |-> "forall", key |-> sy, pol |-> pos, body |-> body.ctr], body.sy)
        [] t.op \in {"Enum", "Record"} ->
             Made([c |-> IF t.op = "Enum" THEN "enum" ELSE "record_type",
                   fields |-> rows.fields, tail |-> rows.tail], rows.sy)
        [] OTHER ->
             IF IsDyn(t.sub[1]) THEN Made(Ctr("dict_dyn", <<>>), sy)
             ELSE Made(Ctr(IF t.id = "Contract" THEN "dict_contract" ELSE "dict_type", <<one.ctr>>), one.sy)

\* The contract of a type, and of the type of a static annotation.
contract(t, env) == subcontract(t, [vars |-> [x \in {} |-> NoType], env |-> env], TRUE, 0).ctr
contract_static(t, env) == contract(simplify(t, NoSimplifyVars, TRUE), env)

-----------------------------------------------------------------------------
(***************************************************************************)
(* Equality of contracts at run time (core/src/eval/contract_eq.rs), which *)
(* decides whether a contract is left out because a field already has it.  *)
(* It compares the terms of the translation, in environments of closures.  *)
(* As for types, equality of values stands for equality of addresses.      *)
(***************************************************************************)
NoClos        == [c |-> "none"]
Clos(t, env)  == [c |-> "Clos", t |-> t, env |-> env]
Member(rec, id) == [c |-> "Field", rec |-> rec, id |-> id]
Bound(bs, env, rec, i, id) ==
  [c |-> "Bound", bs |-> bs, env |-> env, rec |-> rec, i |-> i, id |-> id]

\* The environment in which the fields of a record see each other.
OwnEnv(p, rec) == [x \in p.own \cap DOMAIN rec.fields |-> Member(rec, x)] @@ p.env
\* The environment of the values of a block of bindings.
BlockEnv(cl) ==
  IF cl.rec
  THEN [id \in UNION {bindings(cl.bs[i].pat) : i \in DOMAIN cl.bs} |->
          Bound(cl.bs, cl.env, TRUE, CHOOSE i \in DOMAIN cl.bs : id \in bindings(cl.bs[i].pat), id)] @@ cl.env
  ELSE cl.env

----------------------------------------------------------------------------
\* The term and the environment of a thunk.
Followed(cl) ==
  LET p == cl.rec.fields[cl.id].parts[1]
  IN  CASE cl.c = "Bound" /\ cl.bs[cl.i].pat.p = "Any" -> Clos(cl.bs[cl.i].value, BlockEnv(cl))
        [] cl.c = "Field" /\ Len(cl.rec.fields[cl.id].parts) = 1 -> Clos(p.t, OwnEnv(p, cl.rec))
        [] OTHER -> cl

\* Variables: unbound ones are equal by name; a bound one costs gas.
VarStep(g, s) ==
  LET has(t, env) == t.n = "Var" /\ t.id \in DOMAIN env
      left  == IF has(g.x, g.e1) THEN Followed(g.e1[g.x.id]) ELSE Clos(g.x, g.e1)
      right == IF has(g.y, g.e2) THEN Followed(g.e2[g.y.id]) ELSE Clos(g.y, g.e2)
      used  == [s EXCEPT !.gas = @ - 1]
  IN  CASE g.x.n = "Var" /\ g.y.n = "Var" /\ ~has(g.x, g.e1) /\ ~has(g.y, g.e2) -> Decides(g.x.id = g.y.id, s)
        [] g.x.n = "Var" /\ g.y.n = "Var" /\ (has(g.x, g.e1) # has(g.y, g.e2)) -> Fails(s)
        [] OTHER ->
             IF s.gas = 0 \/ ~(has(g.x, g.e1) \/ has(g.y, g.e2)) THEN Fails(s)
             ELSE IF left = right THEN Leaves(<<>>, used)
             ELSE IF left.c = "Clos" /\ right.c = "Clos"
             THEN Leaves(<<Goal("term", left.t, right.t, left.env, right.env)>>, used)
             ELSE Fails(used)

\* The contracts of two fields are compared in pairs, as far as both go.
ZipGoalsShorter(kind, xs, ys, g) ==
  LET n == IF Len(xs) < Len(ys) THEN Len(xs) ELSE Len(ys)
  IN  Goals(kind, SubSeq(xs, 1, n), SubSeq(ys, 1, n), g)

contract_eq_fields(g, s) ==
  LET x == g.x
      y == g.y
  IN  IF x.opt = y.opt /\ x.prio = y.prio /\ Len(Opt(x.value)) = Len(Opt(y.value))
      THEN Leaves(ZipGoalsShorter("contract", x.annot.contracts, y.annot.contracts, g)
                    \o ZipGoalsShorter("type", Annots(x.annot), Annots(y.annot), g)
                    \o Goals("term", Opt(x.value), Opt(y.value), g), s)
      ELSE Fails(s)

map_eq(g, s) ==
  LET at(t, id) == t.stat[CHOOSE i \in DOMAIN t.stat : t.stat[i].id = id].field
      ids(t) == {t.stat[i].id : i \in DOMAIN t.stat}
      order == [i \in DOMAIN g.x.stat |-> g.x.stat[i].id]
  IN  IF ids(g.x) = ids(g.y)
      THEN Leaves(Goals("field", [i \in DOMAIN order |-> at(g.x, order[i])],
                                 [i \in DOMAIN order |-> at(g.y, order[i])], g), s)
      ELSE Fails(s)

IsStaticRecord(t) == t.n \in {"RecRecord", "Plain"} /\ t.dyn = <<>> /\ t.includes = <<>>

contract_eq_term(g, s) ==
  LET x == g.x
      y == g.y
      n == IF x.n = y.n THEN x.n ELSE "none"
      literal(t) == \A i \in DOMAIN t.args : t.args[i].n = "Str"
  IN  CASE x = y /\ g.e1 = g.e2 -> Leaves(<<>>, s)
        [] x.n = "Var" \/ y.n = "Var" -> VarStep(g, s)
        [] n \in {"Null", "Bool"} -> Decides(x = y, s)
        [] n = "Enum" /\ x.tag = y.tag -> ZipGoals("term", Opt(x.arg), Opt(y.arg), g, s)
        [] IsStaticRecord(x) /\ IsStaticRecord(y) -> map_eq(g, s)
        [] n = "Array" -> ZipGoals("term", x.elts, y.elts, g, s)
        [] n = "Type" -> Leaves(<<Goal("type", x.typ, y.typ, g.e1, g.e2)>>, s)
        [] n = "Chunks" -> Decides(x = y /\ literal(x), s)
        [] n = "App" -> ZipGoals("term", <<x.head>> \o x.args, <<y.head>> \o y.args, g, s)
        [] n = "Annotated" /\ Len(Opt(first(x.annot))) = Len(Opt(first(y.annot))) ->
             Leaves(<<Goal("term", x.inner, y.inner, g.e1, g.e2)>>
                      \o Goals("type", Opt(first(x.annot)), Opt(first(y.annot)), g), s)
        [] n = "Op" /\ x.op = "RecordStatAccess" /\ y.op = x.op /\ x.id = y.id ->
             ZipGoals("term", x.args, y.args, g, s)
        [] OTHER -> Fails(s)

contract_eq_type(g, s) ==
  LET op == IF g.x.op = g.y.op THEN g.x.op ELSE "none"
  IN  CASE op \in {"Wildcard", "Dyn", "Number", "Bool", "Symbol", "String"} -> Decides(g.x = g.y, s)
        [] op \in {"Dict", "Array", "Arrow"} /\ g.x.id = g.y.id -> Leaves(Goals("type", g.x.sub, g.y.sub, g), s)
        [] op \in {"Enum", "Record"} -> RowsStep(g, s)
        [] op = "Contract" -> Leaves(<<Goal("term", g.x.ast, g.y.ast, g.e1, g.e2)>>, s)
        [] OTHER -> Fails(s)

\* A contract made from a type is a custom contract: it is equal to itself
\* only.  A contract of the program is a term.
contract_eq_runtime(g, s) ==
  IF g.x = g.y /\ g.e1 = g.e2 THEN Leaves(<<>>, s)
  ELSE IF g.x.op = "Contract" /\ g.y.op = "Contract"
  THEN Leaves(<<Goal("term", g.x.ast, g.y.ast, g.e1, g.e2)>>, s)
  ELSE Fails(s)

ContractStep(g, s) ==
  CASE g.kind = "term" -> contract_eq_term(g, s)
    [] g.kind = "field" -> contract_eq_fields(g, s)
    [] g.kind = "type" -> contract_eq_type(g, s)
    [] OTHER -> contract_eq_runtime(g, s)

RECURSIVE contract_eq_bounded(_, _)
contract_eq_bounded(goals, s) ==
  LET Rest(r) == r.ok /\ contract_eq_bounded(r.goals \o Tail(goals), r.s)
  IN  goals = <<>> \/ Rest(ContractStep(Head(goals), s))

\* Two contracts that are pending on a field; what they take from their own
\* record is not bound yet.
contract_eq(p, q) ==
  LET env(c) == [x \in DOMAIN c.env \ c.own |-> c.env[x]]
  IN  p = q \/ (/\ p.typ # NoType /\ q.typ # NoType
                /\ contract_eq_bounded(<<Goal("contract", p.typ, q.typ, env(p), env(q))>>,
                                       [gas |-> MAX_GAS, uid |-> 1]))

\* RuntimeContract::combine_dedup: each side has no duplicates.
combine_dedup(ps, qs) ==
  ps \o SelectSeq(qs, LAMBDA q : \A i \in DOMAIN ps : ~contract_eq(ps[i], q))
=============================================================================
