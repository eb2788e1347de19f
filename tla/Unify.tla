------------------------------- MODULE Unify --------------------------------
(***************************************************************************)
(* The types of the typechecker and their state (typecheck/mod.rs,         *)
(* unif.rs), the equality of contracts (eq.rs), and unification and        *)
(* subtyping (unif.rs, subtyping.rs).                                      *)
(***************************************************************************)
EXTENDS Integers, Sequences, FiniteSets, Functions, SequencesExt

-----------------------------------------------------------------------------
(***************************************************************************)
(* The types the typechecker unifies (core/src/typecheck/mod.rs) and the   *)
(* table of unification variables (core/src/typecheck/unif.rs).            *)
(*                                                                         *)
(* UnifType, UnifRecordRows and UnifEnumRows have the same three shapes,   *)
(* so one term represents all of them: a constructor applied to subterms,  *)
(* a unification variable or a rigid constant, each of a sort.  A          *)
(* constructor carries the metadata of VarLevelsData: an upper bound on    *)
(* the levels of the variables below it and a pending level update.        *)
(***************************************************************************)
Sorts == {"type", "rrows", "erows"}

Largest(S) == CHOOSE x \in S : \A y \in S : y =< x

\* VarLevel: NO_VAR, MIN_LEVEL and "no pending update".
NO_VAR == 1
MIN_LEVEL == 2
NoLevel == 0

Unassigned == [k |-> "none"]

----------------------------------------------------------------------------
(***************************************************************************)
(* Terms.                                                                  *)
(***************************************************************************)
var_level_upper_bound(t) ==
  CASE t.k = "con" -> t.ub [] t.k = "var" -> t.init [] OTHER -> NO_VAR

\* The bound of an application.  Enum rows look at the tail only.
BoundOf(op, sub) ==
  LET seen == IF op = "EExtend" THEN {Len(sub)} ELSE DOMAIN sub
  IN  Largest({NO_VAR} \cup {var_level_upper_bound(sub[i]) : i \in seen})

concrete(op, id, sub) ==
  [k |-> "con", op |-> op, id |-> id, sub |-> sub,
   ub |-> BoundOf(op, sub), pending |-> NoLevel]

UnifVar(s, i, init) == [k |-> "var", sort |-> s, i |-> i, init |-> init]
Constant(s, i) == [k |-> "cst", sort |-> s, i |-> i]

\* The builders of mk_uniftype.rs.
Atom(name)      == concrete(name, "", <<>>)
arrow(t, u)     == concrete("Arrow", "", <<t, u>>)
array(t)        == concrete("Array", "", <<t>>)
dict(t)         == concrete("Dict", "", <<t>>)  \* id: the flavour of the dictionary
Record(rows)    == concrete("Record", "", <<rows>>)
Enum(rows)      == concrete("Enum", "", <<rows>>)
RRow(id, t, tl) == concrete("RExtend", id, <<t, tl>>)
ERow(id, t, tl) == concrete("EExtend", id, <<t, tl>>)
ETag(id, tl)    == concrete("EExtend", id, <<tl>>)
Empty(s)        == Atom(IF s = "rrows" THEN "REmpty" ELSE "EEmpty")
TailDyn         == Atom("RDyn")
TypeVar(s, id)  ==
  concrete(CASE s = "type" -> "Var" [] s = "rrows" -> "RVar" [] OTHER -> "EVar",
           id, <<>>)
Wildcard(n)     ==
  [k |-> "con", op |-> "Wildcard", id |-> "", sub |-> <<>>, ub |-> NO_VAR,
   pending |-> NoLevel, n |-> n]
Forall(s, id, excluded, body) ==
  [k |-> "con", op |-> "Forall", id |-> id, sub |-> <<body>>,
   ub |-> var_level_upper_bound(body), pending |-> NoLevel,
   kind |-> s, excluded |-> excluded]

nary_arrow(args, codomain) ==
  LET f[i \in 0 .. Len(args)] ==
        IF i = 0 THEN codomain ELSE arrow(args[Len(args) + 1 - i], f[i - 1])
  IN  f[Len(args)]

IsCon(t, op) == t.k = "con" /\ t.op = op

SortOf(t) ==
  CASE t.k # "con" -> t.sort
    [] t.op \in {"REmpty", "RDyn", "RVar", "RExtend"} -> "rrows"
    [] t.op \in {"EEmpty", "EVar", "EExtend"} -> "erows"
    [] OTHER -> "type"

----------------------------------------------------------------------------
(***************************************************************************)
(* Substitution of a type variable (Subst::subst_levels).  It returns the  *)
(* term and the bound it computed; a record-rows substitution leaves the   *)
(* stored bound of types and enum rows as it was.                          *)
(***************************************************************************)
RECURSIVE subst_levels(_, _, _)
subst_levels(t, var, to) ==
  IF t.k # "con"
  THEN [t |-> t, ub |-> var_level_upper_bound(t)]
  ELSE IF t.op = var.op /\ t.id = var.id
  THEN [t |-> to, ub |-> var_level_upper_bound(to)]
  ELSE LET sub == [i \in DOMAIN t.sub |-> subst_levels(t.sub[i], var, to)]
           ub  == Largest({NO_VAR} \cup {sub[i].ub : i \in DOMAIN sub})
           keeps == SortOf(to) = "rrows" /\ SortOf(t) # "rrows"
       IN  [t |-> [t EXCEPT !.sub = [i \in DOMAIN sub |-> sub[i].t],
                            !.ub = IF keeps THEN @ ELSE ub],
            ub |-> ub]

subst_type(t, id, to)  == subst_levels(t, TypeVar("type", id), to).t
subst_rrows(t, id, to) == subst_levels(t, TypeVar("rrows", id), to).t
subst_erows(t, id, to) == subst_levels(t, TypeVar("erows", id), to).t
subst(t, sort, id, to) ==
  CASE sort = "type"  -> subst_type(t, id, to)
    [] sort = "rrows" -> subst_rrows(t, id, to)
    [] sort = "erows" -> subst_erows(t, id, to)

----------------------------------------------------------------------------
(***************************************************************************)
(* The state of unification: three tables of slots, the stacks of pending  *)
(* level updates, the row constraints (one map for all sorts) and the      *)
(* variables of the wildcards.  Three fields record what happened:         *)
(* overflow, the stack ran out; lost, a row constraint was discarded;      *)
(* overwritten, an assignment was replaced (see Unify).                    *)
(***************************************************************************)
UnifTable ==
  [table |-> [s \in Sorts |-> <<>>], updates |-> [s \in Sorts |-> <<>>],
   constr |-> <<>>, wildcard_vars |-> <<>>, overflow |-> FALSE,
   lost |-> FALSE, overwritten |-> FALSE]

\* The constraints of an absent entry are the empty set in every use.
Constraint(st, i) == IF i \in DOMAIN st.constr THEN st.constr[i] ELSE {}
Constrain(st, i, ids) ==
  [st EXCEPT !.constr = [j \in DOMAIN @ \cup {i} |-> IF j = i THEN ids ELSE @[j]]]
Unconstrain(st, i) == [st EXCEPT !.constr = Restrict(@, DOMAIN @ \ {i})]

get_level(st, s, i) == st.table[s][i].level

fresh_var_id(st, s, level) ==
  [st EXCEPT !.table[s] = Append(@, [val |-> Unassigned, level |-> level])]
LastVar(st, s, level) == UnifVar(s, Len(st.table[s]), level)
LastConst(st, s) == Constant(s, Len(st.table[s]))

RECURSIVE into_root(_, _)
into_root(st, t) ==
  IF t.k # "var" THEN t
  ELSE LET v == st.table[t.sort][t.i].val
       IN  IF v = Unassigned THEN t ELSE into_root(st, v)

\* The variables of a term, and the table that has a cycle of assignments.
RECURSIVE VarsOf(_)
VarsOf(t) ==
  CASE t.k = "var" -> {<<t.sort, t.i>>}
    [] t.k = "con" -> UNION {VarsOf(t.sub[i]) : i \in DOMAIN t.sub}
    [] OTHER -> {}

Slots(st) == UNION {{s} \X DOMAIN st.table[s] : s \in Sorts}
RECURSIVE Peel(_, _)
Peel(st, left) ==
  LET free == {v \in left : VarsOf(st.table[v[1]][v[2]].val) \cap left = {}}
  IN  IF free = {} THEN left ELSE Peel(st, left \ free)
Cyclic(st) == Peel(st, Slots(st)) # {}

get_wildcard_var(st, n, level) ==
  LET more[k \in 0 .. n] ==
        IF k = 0 THEN st
        ELSE IF k =< Len(st.wildcard_vars) THEN more[k - 1]
        ELSE LET f == fresh_var_id(more[k - 1], "type", level)
             IN  [f EXCEPT !.wildcard_vars = Append(@, LastVar(f, "type", level))]
  IN  more[n]

----------------------------------------------------------------------------
(***************************************************************************)
(* Assignment, with the lazy propagation of levels.  Only types remember   *)
(* the pending level in the assigned term; rows just push the variable.    *)
(***************************************************************************)
Lower(st, t, level) ==
  [st EXCEPT !.table[t.sort][t.i].level = IF @ > level THEN level ELSE @]

Store(st, s, i, t) ==
  [st EXCEPT !.overwritten = @ \/ st.table[s][i].val # Unassigned, !.table[s][i].val = t]

\* A variable takes the smaller level; above the level, a term is pushed.
IsLate(t, level) == t.k = "con" /\ t.ub >= level
update_level(st, s, i, t) ==
  IF t.k = "var" THEN Lower(st, t, get_level(st, s, i))
  ELSE [st EXCEPT !.updates[s] = IF IsLate(t, get_level(st, s, i)) THEN Append(@, i) ELSE @]

IsSelf(t, i) == t.k = "var" /\ t.i = i
assign_type(st, i, t) ==
  LET level == get_level(st, "type", i)
  IN  IF IsSelf(t, i) THEN st
      ELSE Store(update_level(st, "type", i, t), "type", i,
                 IF IsLate(t, level) THEN [t EXCEPT !.pending = level] ELSE t)
assign_rrows(st, i, t) ==
  IF IsSelf(t, i) THEN st ELSE Store(update_level(st, "rrows", i, t), "rrows", i, t)
assign_erows(st, i, t) ==
  IF IsSelf(t, i) THEN st ELSE Store(update_level(st, "erows", i, t), "erows", i, t)
assign(st, s, i, t) ==
  CASE s = "type"  -> assign_type(st, i, t)
    [] s = "rrows" -> assign_rrows(st, i, t)
    [] s = "erows" -> assign_erows(st, i, t)

\* update_utype_with_lvl and its siblings: lower the variables of sort s
\* below t.  Terms of another sort are traversed and keep their metadata.
RECURSIVE update_with_lvl(_, _, _, _), update_sub(_, _, _, _)
update_sub(st, s, sub, level) ==
  LET Joined(before, u) == [st |-> u.st, sub |-> Append(before.sub, u.t)]
      step[i \in 0 .. Len(sub)] ==
        IF i = 0 THEN [st |-> st, sub |-> <<>>]
        ELSE Joined(step[i - 1], update_with_lvl(step[i - 1].st, s, sub[i], level))
  IN  step[Len(sub)]

update_with_lvl(st, s, t0, level) ==
  LET Own(t) == SortOf(t) = s
      Level(t) == IF Own(t) /\ t.pending # NoLevel /\ t.pending > level THEN t.pending ELSE level
      Below(t, u) ==
        [st |-> u.st,
         t |-> IF Own(t) THEN [t EXCEPT !.sub = u.sub, !.ub = Level(t), !.pending = NoLevel]
               ELSE [t EXCEPT !.sub = u.sub]]
      Updated(t) ==
        CASE t.k = "var" -> [st |-> IF Own(t) THEN Lower(st, t, level) ELSE st, t |-> t]
          [] t.k = "cst" -> [st |-> st, t |-> t]
          [] t.k = "con" /\ Own(t) /\ t.ub =< level -> [st |-> st, t |-> t]
          [] OTHER -> Below(t, update_sub(st, s, t.sub, Level(t)))
  IN  Updated(into_root(st, t0))

\* A variant to rule out: every update is delayed.
delay_one(st, s, i, constant_level) == [st |-> st, delayed |-> TRUE]

\* update_utype: one entry of the stack; it may be delayed further.
update_one(st, s, i, constant_level) ==
  LET t     == st.table[s][i].val
      taken == [st EXCEPT !.table[s][i].val = Unassigned]
      wait  == t.ub < constant_level \/ t.pending >= constant_level
      Done(u) ==
        [st |-> [u.st EXCEPT !.table[s][i].val =
                   [t EXCEPT !.sub = u.sub, !.ub = t.pending, !.pending = NoLevel]],
         delayed |-> FALSE]
  IN  IF t.k # "con" \/ t.pending = NoLevel THEN [st |-> st, delayed |-> FALSE]
      ELSE IF wait
      THEN [st |-> [st EXCEPT !.table[s][i].val.ub = t.pending], delayed |-> TRUE]
      ELSE Done(IF t.ub > t.pending THEN update_sub(taken, s, t.sub, t.pending)
                ELSE [st |-> taken, sub |-> t.sub])

force_updates(st, s, constant_level) ==
  LET stack == st.updates[s]
      Joined(before, i, u) ==
        [st |-> u.st,
         rest |-> IF u.delayed THEN Append(before.rest, i) ELSE before.rest]
      step[k \in 0 .. Len(stack)] ==
        IF k = 0 THEN [st |-> st, rest |-> <<>>]
        ELSE Joined(step[k - 1], stack[k],
                    update_one(step[k - 1].st, s, stack[k], constant_level))
      Done(last) == [last.st EXCEPT !.updates[s] = last.rest]
  IN  Done(step[Len(stack)])
force_type_updates(st, level)  == force_updates(st, "type", level)
force_rrows_updates(st, level) == force_updates(st, "rrows", level)
force_erows_updates(st, level) == force_updates(st, "erows", level)

-----------------------------------------------------------------------------
(***************************************************************************)
(* Equality of contracts as opaque types (core/src/typecheck/eq.rs): the   *)
(* limited comparison of terms that decides whether two contracts unify.   *)
(*                                                                         *)
(* A term is a record with its node in n.  A type written in the source is *)
(* a type of above whose contracts carry a term only; from_type gives      *)
(* them their environment, a function from identifiers to closures.  A     *)
(* node that is only ever equal to itself is "Opaque", with its address;   *)
(* all the other nodes are values, so that equality of values stands for   *)
(* equality of addresses (the two differ when the gas runs out only).      *)
(***************************************************************************)
CONSTANT MAX_GAS \* how many variable links a comparison may follow

ASSUME GasAssumption == MAX_GAS \in Nat

NoAst  == [n |-> "none"]
NoType == [k |-> "none"]

Contract(ast) == Atom("Contract") @@ [ast |-> ast]

RECURSIVE from_type(_, _)
from_type(t, env) ==
  LET sub == [i \in DOMAIN t.sub |-> from_type(t.sub[i], env)]
  IN  CASE t.k # "con" -> t
        [] t.op = "Contract" -> t @@ [env |-> env]
        [] OTHER -> [t EXCEPT !.sub = sub, !.ub = BoundOf(t.op, sub)]

----------------------------------------------------------------------------
(***************************************************************************)
(* A goal is a pair to compare, with the environments of its sides.  One   *)
(* step either fails, or leaves the goals the pair reduces to and the      *)
(* state: the remaining gas and the next temporary constant.               *)
(***************************************************************************)
Goal(kind, x, y, e1, e2) == [kind |-> kind, x |-> x, y |-> y, e1 |-> e1, e2 |-> e2]
Goals(kind, xs, ys, g) ==
  [i \in DOMAIN xs |-> Goal(kind, xs[i], ys[i], g.e1, g.e2)]

Fails(s) == [ok |-> FALSE, s |-> s, goals |-> <<>>]
Leaves(goals, s) == [ok |-> TRUE, s |-> s, goals |-> goals]
Decides(b, s) == [ok |-> b, s |-> s, goals |-> <<>>]

ZipGoals(kind, xs, ys, g, s) ==
  IF Len(xs) # Len(ys) THEN Fails(s) ELSE Leaves(Goals(kind, xs, ys, g), s)

\* An optional part is a sequence of at most one element.
Opt(x) == IF x \in {NoAst, NoType} THEN <<>> ELSE <<x>>

\* Following a variable of one side costs one unit of gas.
FollowLeft(g, s) ==
  LET c == g.e1[g.x.id]
  IN  IF s.gas = 0 THEN Fails(s)
      ELSE IF g.x.id \notin DOMAIN g.e1 THEN Fails([s EXCEPT !.gas = @ - 1])
      ELSE Leaves(<<Goal("ast", c.ast, g.y, c.env, g.e2)>>, [s EXCEPT !.gas = @ - 1])

FollowRight(g, s) ==
  LET c == g.e2[g.y.id]
  IN  IF s.gas = 0 THEN Fails(s)
      ELSE IF g.y.id \notin DOMAIN g.e2 THEN Fails([s EXCEPT !.gas = @ - 1])
      ELSE Leaves(<<Goal("ast", g.x, c.ast, g.e1, c.env)>>, [s EXCEPT !.gas = @ - 1])

\* The elements of a field path: an identifier, or an expression.
Ident(id)      == [id |-> id, expr |-> NoAst]
Dynamic(expr)  == [id |-> "", expr |-> expr]
IsStatic(path) == \A i \in DOMAIN path : path[i].expr = NoAst

\* Field definitions are sorted by path, stably: the k-th definition of a
\* path is compared with the k-th definition of the same path.
Rank(defs, i) == Cardinality({j \in 1 .. i : defs[j].path = defs[i].path})
Partners(r1, r2, i) ==
  {j \in DOMAIN r2 : r2[j].path = r1[i].path /\ Rank(r2, j) = Rank(r1, i)}
RecordStep(g, s) ==
  LET d1 == g.x.defs
      d2 == g.y.defs
      aligned == [i \in DOMAIN d1 |-> d2[CHOOSE j \in Partners(d1, d2, i) : TRUE]]
  IN  IF /\ Len(d1) = Len(d2)
         /\ \A i \in DOMAIN d1 : Partners(d1, d2, i) # {} /\ IsStatic(d1[i].path)
         /\ Range(g.x.includes) = Range(g.y.includes)
         /\ g.x.open = g.y.open
      THEN Leaves(Goals("field", d1, aligned, g), s)
      ELSE Fails(s)

AnnotGoals(a1, a2, g) ==
  Goals("type", Opt(a1.typ) \o a1.contracts, Opt(a2.typ) \o a2.contracts, g)
AnnotsMatch(a1, a2) ==
  Len(Opt(a1.typ)) = Len(Opt(a2.typ)) /\ Len(a1.contracts) = Len(a2.contracts)

\* Metadata other than the annotation is compared as it is.
FieldStep(g, s) ==
  IF AnnotsMatch(g.x.annot, g.y.annot) /\ g.x.meta = g.y.meta
     /\ Len(Opt(g.x.value)) = Len(Opt(g.y.value))
  THEN Leaves(AnnotGoals(g.x.annot, g.y.annot, g)
                \o Goals("ast", Opt(g.x.value), Opt(g.y.value), g), s)
  ELSE Fails(s)

AstStep(g, s) ==
  LET x == g.x
      y == g.y
      n == IF x.n = y.n THEN x.n ELSE "none"
  IN  CASE x = y /\ g.e1 = g.e2 -> Leaves(<<>>, s)
        [] n \in {"Null", "Bool", "Num", "Str"} -> Decides(x = y, s)
        [] n = "Enum" /\ x.tag = y.tag -> ZipGoals("ast", Opt(x.arg), Opt(y.arg), g, s)
        [] n = "App" -> ZipGoals("ast", <<x.head>> \o x.args, <<y.head>> \o y.args, g, s)
        [] /\ n = "Var"
           /\ x.id \notin DOMAIN g.e1
           /\ y.id \notin DOMAIN g.e2 -> Decides(x.id = y.id, s)
        [] x.n = "Var" -> FollowLeft(g, s)
        [] y.n = "Var" -> FollowRight(g, s)
        [] n = "Record" -> RecordStep(g, s)
        [] n = "Array" -> ZipGoals("ast", x.elts, y.elts, g, s)
        [] n = "Annot" /\ AnnotsMatch(x.annot, y.annot) ->
             Leaves(AnnotGoals(x.annot, y.annot, g)
                      \o <<Goal("ast", x.inner, y.inner, g.e1, g.e2)>>, s)
        [] n = "Op" /\ x.op = "RecordStatAccess" /\ y.op = x.op /\ x.id = y.id ->
             ZipGoals("ast", x.args, y.args, g, s)
        [] n = "Type" ->
             Leaves(<<Goal("type", from_type(x.typ, g.e1), from_type(y.typ, g.e2),
                           g.e1, g.e2)>>, s)
        [] OTHER -> Fails(s)

----------------------------------------------------------------------------
(***************************************************************************)
(* Types.  Row types are compared as maps from identifiers, which keep the *)
(* last row of an identifier, and only when they are closed.               *)
(***************************************************************************)
RECURSIVE RowList(_)
RowList(rows) ==
  IF rows.k # "con" \/ rows.op \in {"RDyn", "RVar", "EVar"} THEN <<NoType>>
  ELSE IF rows.op \in {"REmpty", "EEmpty"} THEN <<>>
  ELSE <<[id |-> rows.id, typ |-> SubSeq(rows.sub, 1, Len(rows.sub) - 1)]>>
         \o RowList(rows.sub[Len(rows.sub)])

RowMap(list) ==
  [id \in {list[i].id : i \in DOMAIN list} |->
     list[Largest({i \in DOMAIN list : list[i].id = id})].typ]

RowsStep(g, s) ==
  LET l1 == RowList(g.x.sub[1])
      l2 == RowList(g.y.sub[1])
      m1 == RowMap(l1)
      m2 == RowMap(l2)
      ids == SetToSeq(DOMAIN m1)
      all[i \in 0 .. Len(ids)] ==
        IF i = 0 THEN <<>>
        ELSE all[i - 1] \o Goals("type", m1[ids[i]], m2[ids[i]], g)
  IN  IF /\ NoType \notin Range(l1) \cup Range(l2)
         /\ DOMAIN m1 = DOMAIN m2
         /\ \A id \in DOMAIN m1 : Len(m1[id]) = Len(m2[id])
      THEN Leaves(all[Len(ids)], s)
      ELSE Fails(s)

ForallStep(g, s) ==
  LET cst  == Constant(g.x.kind, s.uid)
      next == [s EXCEPT !.uid = @ + 1]
  IN  IF g.x.kind # g.y.kind \/ g.x.excluded # g.y.excluded THEN Fails(next)
      ELSE Leaves(<<Goal("type", subst(g.x.sub[1], g.x.kind, g.x.id, cst),
                                 subst(g.y.sub[1], g.y.kind, g.y.id, cst),
                                 g.e1, g.e2)>>, next)

TypeStep(g, s) ==
  LET x  == g.x
      y  == g.y
      op == IF x.k = "con" /\ y.k = "con" /\ x.op = y.op THEN x.op ELSE "none"
  IN  CASE x.k = "cst" /\ y.k = "cst" -> Decides(x.i = y.i, s)
        [] op = "Wildcard" -> Decides(x.n = y.n, s)
        [] op \in {"Dyn", "Number", "Bool", "String", "Symbol"} -> Leaves(<<>>, s)
        [] op \in {"Dict", "Array", "Arrow"} /\ x.id = y.id -> Leaves(Goals("type", x.sub, y.sub, g), s)
        [] op \in {"Enum", "Record"} -> RowsStep(g, s)
        [] op = "Contract" -> Leaves(<<Goal("ast", x.ast, y.ast, x.env, y.env)>>, s)
        [] op = "Forall" -> ForallStep(g, s)
        [] OTHER -> Fails(s)

Step(g, s) ==
  CASE g.kind = "ast" -> AstStep(g, s)
    [] g.kind = "field" -> FieldStep(g, s)
    [] OTHER -> TypeStep(g, s)

\* The goals are worked off depth first and from the left.
RECURSIVE type_eq_bounded(_, _)
type_eq_bounded(goals, s) ==
  LET Continue(r) == r.ok /\ type_eq_bounded(r.goals \o Tail(goals), r.s)
  IN  goals = <<>> \/ Continue(Step(Head(goals), s))

type_eq(x, y, e1, e2) ==
  type_eq_bounded(<<Goal("ast", x, y, e1, e2)>>, [gas |-> MAX_GAS, uid |-> 1])

-----------------------------------------------------------------------------
(***************************************************************************)
(* Unification and subsumption of types and rows (core/src/typecheck:      *)
(* unif.rs, subtyping.rs and instantiate_foralls of mod.rs).  Every        *)
(* operation takes the state of unification st and the context (of which   *)
(* the ambient variable level is used here), and returns whether it        *)
(* succeeded together with the new state, which an error leaves as far as  *)
(* it got.                                                                 *)
(*                                                                         *)
(* Nothing checks that a variable does not occur in the type it is         *)
(* assigned, so that a call may run forever over a cyclic type: ctxt.depth *)
(* is the stack that is left, and a call that has none overflows.          *)
(***************************************************************************)
Ok(st)  == [ok |-> TRUE, st |-> st]
Err(st) == [ok |-> FALSE, st |-> st]
Overflow(st) == Err([st EXCEPT !.overflow = TRUE])
Deeper(ctxt) == [ctxt EXCEPT !.depth = @ - 1]

IsExtend(t) == t.k = "con" /\ t.op \in {"RExtend", "EExtend"}
\* The content of a row (an enum tag has none) and the rows after it.
RowContent(t) == SubSeq(t.sub, 1, Len(t.sub) - 1)
RowTail(t) == t.sub[Len(t.sub)]

----------------------------------------------------------------------------
(***************************************************************************)
(* Row constraints: what a variable may not contain moves to the tail of   *)
(* the rows it is unified with.  The tail is taken as it is written, not   *)
(* as its root, and an enum tag never conflicts.  Constraints are lost     *)
(* when a variable is unified with itself, and when that tail is a         *)
(* variable that has been assigned already; st.lost records both.          *)
(***************************************************************************)
RECURSIVE propagate(_, _, _, _)
propagate(st, i, ids, rows) ==
  CASE IsExtend(rows) /\ Len(rows.sub) = 2 /\ rows.id \in ids -> Err(st)
    [] IsExtend(rows) -> propagate(st, i, ids, RowTail(rows))
    [] rows.k = "var" /\ rows.i # i ->
         Ok(Constrain([st EXCEPT !.lost = @ \/ into_root(st, rows) # rows],
                      rows.i, Constraint(st, rows.i) \cup ids))
    [] rows.k = "var" -> Ok([st EXCEPT !.lost = @ \/ ids # {}])
    [] OTHER -> Ok(st)

check_constrs(st, i, rows) ==
  IF i \in DOMAIN st.constr /\ ~propagate(st, i, st.constr[i], rows).ok
  THEN Err(st)
  ELSE Ok(Unconstrain(st, i))

propagate_constrs(st, i, rows) ==
  IF i \in DOMAIN st.constr
  THEN propagate(Unconstrain(st, i), i, st.constr[i], rows)
  ELSE Ok(st)

\* Take the row of an identifier out of rows, extending an open tail.  A
\* tag and a variant of the same name are different rows.
RECURSIVE remove_row(_, _, _, _, _)
remove_row(st, rows0, id, content, ctxt) ==
  LET Removed(res, got, rest, s) == [res |-> res, got |-> got, rest |-> rest, st |-> s]
      Behind(rows, deep) ==
        IF deep.res \in {"missing", "conflict"} THEN deep
        ELSE [deep EXCEPT !.rest = concrete(rows.op, rows.id, Append(RowContent(rows), @))]
      Bound(fresh, tail) ==
        IF content = <<>> THEN fresh ELSE Constrain(fresh, tail.i, {id})
      Grown(s, tail) ==
        concrete(IF s = "rrows" THEN "RExtend" ELSE "EExtend", id, Append(content, tail))
      Assigned(rows, tail, grown, prop) ==
        IF prop.ok
        THEN Removed("extended", <<>>, tail, assign(prop.st, rows.sort, rows.i, grown))
        ELSE Removed("conflict", <<>>, rows, prop.st)
      Propagated(rows, fresh, tail, grown) ==
        Assigned(rows, tail, grown, propagate_constrs(Bound(fresh, tail), rows.i, grown))
      Extended(rows, fresh) ==
        LET tail == LastVar(fresh, rows.sort, ctxt.var_level)
        IN  Propagated(rows, fresh, tail, Grown(rows.sort, tail))
      At(rows) ==
        CASE ctxt.depth = 0 -> Removed("missing", <<>>, rows, Overflow(st).st)
          [] IsExtend(rows) /\ rows.id = id /\ Len(RowContent(rows)) = Len(content) ->
               Removed("extracted", RowContent(rows), RowTail(rows), st)
          [] IsExtend(rows) ->
               Behind(rows, remove_row(st, RowTail(rows), id, content, Deeper(ctxt)))
          [] rows.k = "var" -> Extended(rows, fresh_var_id(st, rows.sort, ctxt.var_level))
          [] OTHER -> Removed("missing", <<>>, rows, st)
  IN  At(into_root(st, rows0))

----------------------------------------------------------------------------
(***************************************************************************)
(* A free variable and the root of the other side.  Meeting a rigid        *)
(* constant forces the pending level updates and compares the levels.      *)
(***************************************************************************)
unify_var(st, v, t) ==
  LET level  == get_level(st, t.sort, t.i)
      Propagated(f) == IF v.sort = "type" THEN Ok(f) ELSE propagate_constrs(f, v.i, t)
      Assigned(p) == IF p.ok THEN Ok(assign(p.st, v.sort, v.i, t)) ELSE p
      Meet(f) == IF t.k = "cst" /\ get_level(f, v.sort, v.i) < level THEN Err(f)
                 ELSE Assigned(Propagated(f))
  IN  IF t.k = "cst" /\ Cyclic(st) THEN Overflow(st)
      ELSE Meet(CASE t.k # "cst" -> st
                  [] t.k = "cst" /\ t.sort = "type" -> force_type_updates(st, level)
                  [] t.k = "cst" /\ t.sort = "rrows" -> force_rrows_updates(st, level)
                  [] OTHER -> force_erows_updates(st, level))

RECURSIVE unify(_, _, _, _), unify_all(_, _, _, _)

\* Pointwise, up to the first failure.
unify_all(st, s1, s2, ctxt) ==
  LET step[i \in 0 .. Len(s1)] ==
        IF i = 0 THEN Ok(st)
        ELSE IF ~step[i - 1].ok THEN step[i - 1]
        ELSE unify(step[i - 1].st, s1[i], s2[i], ctxt)
  IN  step[Len(s1)]

unify_rows(st, t1, t2, ctxt) ==
  LET Tails(c, rest) == IF c.ok THEN unify(c.st, RowTail(t1), rest, ctxt) ELSE c
      Removed(r) ==
        CASE r.res \in {"missing", "conflict"} -> Err(r.st)
          [] r.res = "extracted" ->
               Tails(unify_all(r.st, RowContent(t1), r.got, ctxt), r.rest)
          [] OTHER -> Tails(Ok(r.st), r.rest)
  IN  Removed(remove_row(st, t2, t1.id, RowContent(t1), ctxt))

\* Both bodies get the same fresh constant, at the ambient level.
unify_forall(st, t1, t2, ctxt) ==
  LET f   == fresh_var_id(st, t1.kind, ctxt.var_level)
      cst == LastConst(f, t1.kind)
  IN  unify(f, subst(t1.sub[1], t1.kind, t1.id, cst), subst(t2.sub[1], t2.kind, t2.id, cst), ctxt)

unify_wildcard(st, n, t, ctxt) ==
  LET w == get_wildcard_var(st, n, ctxt.var_level)
  IN  unify(w, w.wildcard_vars[n], t, ctxt)

\* Two roots of which one is a variable or a constant, or that do not match.
unify_others(st, t1, t2) ==
  LET left == t1.k = "var"
  IN  IF left \/ t2.k = "var"
      THEN unify_var(st, IF left THEN t1 ELSE t2, IF left THEN t2 ELSE t1)
      ELSE IF t1.k = "cst" /\ t1 = t2 THEN Ok(st) ELSE Err(st)

\* Two roots made by the same constructor: types (UnifType::unify) and rows.
unify_same(st, t1, t2, ctxt) ==
  CASE t1.op \in {"Dyn", "Number", "Bool", "String", "Symbol", "REmpty", "RDyn", "EEmpty"} -> Ok(st)
    [] t1.op \in {"Array", "Dict", "Arrow", "Enum", "Record"} -> unify_all(st, t1.sub, t2.sub, ctxt)
    [] t1.op \in {"RExtend", "EExtend"} -> unify_rows(st, t1, t2, ctxt)
    [] t1.op = "Contract" -> IF type_eq(t1.ast, t2.ast, t1.env, t2.env) THEN Ok(st) ELSE Err(st)
    [] t1.op = "Forall" ->
         IF t1.kind = t2.kind /\ t1.excluded = t2.excluded THEN unify_forall(st, t1, t2, ctxt) ELSE Err(st)

\* Types, record rows and enum rows alike (the three impls of Unify); only a
\* type can be a wildcard.
unify_roots(st, t1, t2, ctxt) ==
  CASE IsCon(t1, "Wildcard") -> unify_wildcard(st, t1.n, t2, ctxt)
    [] ~IsCon(t1, "Wildcard") /\ IsCon(t2, "Wildcard") -> unify_wildcard(st, t2.n, t1, ctxt)
    [] t1.k = "con" /\ t2.k = "con" /\ t1.op = t2.op -> unify_same(st, t1, t2, ctxt)
    [] OTHER -> unify_others(st, t1, t2)

unify(st, t1, t2, ctxt) ==
  IF ctxt.depth = 0 THEN Overflow(st)
  ELSE unify_roots(st, into_root(st, t1), into_root(st, t2), Deeper(ctxt))

----------------------------------------------------------------------------
(***************************************************************************)
(* Instantiation of the quantifiers in head position, by rigid constants   *)
(* or by unification variables.                                            *)
(***************************************************************************)
RECURSIVE instantiate(_, _, _, _)
instantiate(st, level, ty, inst) ==
  LET f == fresh_var_id(st, ty.kind, level)
      v == IF inst = "Constant" THEN LastConst(f, ty.kind) ELSE LastVar(f, ty.kind, level)
      g == IF inst = "Constant" \/ ty.kind = "type" THEN f
           ELSE Constrain(f, v.i, ty.excluded)
  IN  IF ~IsCon(ty, "Forall") THEN [st |-> st, ty |-> ty]
      ELSE instantiate(g, level, subst(ty.sub[1], ty.kind, ty.id, v), inst)

\* A variant to rule out: rigid and flexible instantiation are confused.
instantiate_flexible(st, ctxt, ty0, inst) ==
  LET ty  == into_root(st, ty0)
      new == [ctxt EXCEPT !.var_level = IF IsCon(ty, "Forall") THEN @ + 1 ELSE @]
  IN  instantiate(st, new.var_level, ty, "UnifVar") @@ [ctxt |-> new]

instantiate_foralls(st, ctxt, ty0, inst) ==
  LET Root(ty) ==
        LET new == [ctxt EXCEPT !.var_level = IF IsCon(ty, "Forall") THEN @ + 1 ELSE @]
        IN  instantiate(st, new.var_level, ty, inst) @@ [ctxt |-> new]
  IN  Root(into_root(st, ty0))

----------------------------------------------------------------------------
(***************************************************************************)
(* Subsumption: a record is below a dictionary, congruence under arrays,   *)
(* dictionaries and records, and otherwise unification.                    *)
(***************************************************************************)
RECURSIVE subsumed_by(_, _, _, _), subsume_rows(_, _, _, _), subsume_dict(_, _, _, _)

\* A variant to rule out: the types of the fields are not looked at.
subsume_any(st, rows, fields, ctxt) ==
  Ok(IF rows.k = "var" THEN assign(st, "rrows", rows.i, Empty("rrows")) ELSE st)
\* The rows are iterated as they are written; an open tail is closed.
subsume_dict(st, rows, fields, ctxt) ==
  LET Rest(r) == IF r.ok THEN subsume_dict(r.st, RowTail(rows), fields, ctxt) ELSE r
  IN  CASE IsExtend(rows) -> Rest(subsumed_by(st, rows.sub[1], fields, ctxt))
        [] rows.k = "var" -> Ok(assign(st, "rrows", rows.i, Empty("rrows")))
        [] rows.k = "cst" -> Err(st)
        [] OTHER -> Ok(st)

subsume_rows(st, r01, r02, ctxt) ==
  LET r1 == into_root(st, r01)
      r2 == into_root(st, r02)
      Tails(c, rest) == IF c.ok THEN subsume_rows(c.st, rest, RowTail(r2), ctxt) ELSE c
      Removed(r) ==
        CASE r.res \in {"missing", "conflict"} -> Err(r.st)
          [] r.res = "extracted" ->
               Tails(subsumed_by(r.st, r.got[1], r2.sub[1], ctxt), r.rest)
          [] OTHER -> Tails(Ok(r.st), r.rest)
  IN  IF IsExtend(r1) /\ IsExtend(r2)
      THEN Removed(remove_row(st, r1, r2.id, RowContent(r2), ctxt))
      ELSE unify(st, r1, r2, ctxt)

subsume_roots(i, t1, t2) ==
  CASE IsCon(t1, "Record") /\ IsCon(t2, "Dict") ->
         subsume_dict(i.st, t1.sub[1], t2.sub[1], i.ctxt)
    [] \/ IsCon(t1, "Array") /\ IsCon(t2, "Array")
       \/ IsCon(t1, "Dict") /\ IsCon(t2, "Dict") ->
         subsumed_by(i.st, t1.sub[1], t2.sub[1], i.ctxt)
    [] IsCon(t1, "Record") /\ IsCon(t2, "Record") ->
         subsume_rows(i.st, t1.sub[1], t2.sub[1], i.ctxt)
    [] OTHER -> unify(i.st, t2, t1, i.ctxt)

subsumed_by(st, t01, t02, ctxt0) ==
  LET i == instantiate_foralls(st, Deeper(ctxt0), t01, "UnifVar")
  IN  IF ctxt0.depth = 0 THEN Overflow(st) ELSE subsume_roots(i, i.ty, into_root(i.st, t02))
=============================================================================
