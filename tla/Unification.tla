---------------------------- MODULE Unification ----------------------------
(***************************************************************************)
(* Sequences of unifications, as the typechecker issues them: a block of   *)
(* types with unification variables is introduced, then types are unified  *)
(* or subsumed in any order, inside and outside the scopes of rigid        *)
(* variables, each call changing the one table of assignments.             *)
(***************************************************************************)
EXTENDS Unify

CONSTANTS
  Setups,     \* commands that introduce the first types, with the bounds
              \* on the calls made and the scopes entered afterwards
  Scopes,     \* the polymorphic types whose scope may be entered
  StackDepth  \* bound: nested calls before the stack overflows

VARIABLES
  st,     \* the unification table, updates, constraints (State)
  pool,   \* the types at hand, with the level they were introduced at
  scopes, \* the pool's length at the entry of each open scope
  base,   \* the table when the calls in "calls" began
  calls,  \* the calls since, with their results
  left    \* how many calls may still be made, and scopes entered

vars == <<st, pool, scopes, base, calls, left>>

Level == MIN_LEVEL + Len(scopes)
Ctxt  == [var_level |-> Level, depth |-> StackDepth]

----------------------------------------------------------------------------
(***************************************************************************)
(* How types enter the table: a fresh variable, the open record type of a  *)
(* field access, the open enum type of a tag or a variant, an instance of  *)
(* a polymorphic type, and types built from earlier ones.                  *)
(***************************************************************************)
Into(s, p, t, level) == [s |-> s, pool |-> Append(p, [t |-> t, level |-> level])]

introduce(s, p, cmd, level) ==
  LET tv == fresh_var_id(s, "type", level)
      rv == fresh_var_id(tv, "rrows", level)
      ev == fresh_var_id(tv, "erows", level)
      t  == LastVar(tv, "type", level)
      Instance(i) == Into(i.st, p, i.ty, i.ctxt.var_level)
  IN  CASE cmd.c = "var" -> Into(tv, p, t, level)
        [] cmd.c = "access" ->
             Into(rv, p, Record(RRow(cmd.id, t, LastVar(rv, "rrows", level))), level)
        [] cmd.c = "variant" ->
             Into(ev, p, Enum(ERow(cmd.id, t, LastVar(ev, "erows", level))), level)
        [] cmd.c = "tag" ->
             Into(fresh_var_id(s, "erows", level), p,
                  Enum(ETag(cmd.id, UnifVar("erows", Len(s.table["erows"]) + 1, level))), level)
        [] cmd.c = "inst" ->
             Instance(instantiate_foralls(s, [var_level |-> level, depth |-> StackDepth], cmd.t,
                                          "UnifVar"))
        [] cmd.c = "is" -> Into(s, p, cmd.t, level)
        [] cmd.c = "array" -> Into(s, p, array(p[cmd.of].t), p[cmd.of].level)
        [] cmd.c = "dict" -> Into(s, p, dict(p[cmd.of].t), p[cmd.of].level)
        [] cmd.c = "arrow" ->
             Into(s, p, arrow(p[cmd.of].t, p[cmd.to].t),
                  Largest({p[cmd.of].level, p[cmd.to].level}))

introduce_all(cmds) ==
  LET f[i \in 0 .. Len(cmds)] ==
        IF i = 0 THEN [s |-> UnifTable, pool |-> <<>>]
        ELSE introduce(f[i - 1].s, f[i - 1].pool, cmds[i], MIN_LEVEL)
  IN  f[Len(cmds)]

Init ==
  \E setup \in Setups : \E r \in {introduce_all(setup.cmds)} :
    /\ st = r.s /\ base = r.s
    /\ pool = r.pool
    /\ scopes = <<>> /\ calls = <<>>
    /\ left = [calls |-> setup.calls, scopes |-> setup.scopes]

Alive == ~st.overflow /\ ~Cyclic(st) /\ \A i \in DOMAIN calls : calls[i].ok

\* Checking a term against a polymorphic type: its variables become rigid
\* constants of a new level.  The body, and a variable for something bound
\* in it, are at hand until the scope ends.
EnterForall ==
  /\ Alive /\ left.scopes > 0
  /\ \E ty \in Scopes :
       \E r \in {instantiate_foralls(st, Ctxt, ty, "Constant")} :
       \E f \in {introduce(r.st, Append(pool, [t |-> r.ty, level |-> r.ctxt.var_level]),
                          [c |-> "var"], r.ctxt.var_level)} :
           /\ st' = f.s /\ base' = f.s
           /\ pool' = f.pool
           /\ scopes' = Append(scopes, Len(pool))
           /\ calls' = <<>>
  /\ left' = [left EXCEPT !.scopes = @ - 1]

LeaveForall ==
  /\ Alive /\ scopes # <<>>
  /\ pool' = SubSeq(pool, 1, scopes[Len(scopes)])
  /\ scopes' = SubSeq(scopes, 1, Len(scopes) - 1)
  /\ base' = st /\ calls' = <<>>
  /\ UNCHANGED <<st, left>>

Call(op, r, i, j) ==
  /\ st' = r.st
  /\ calls' = Append(calls, [op |-> op, i |-> i, j |-> j, ok |-> r.ok])
  /\ left' = [left EXCEPT !.calls = @ - 1]
  /\ UNCHANGED <<pool, scopes, base>>

UnifyTypes ==
  /\ Alive /\ left.calls > 0
  /\ \E i, j \in DOMAIN pool :
       i < j /\ Call("unify", unify(st, pool[i].t, pool[j].t, Ctxt), i, j)

SubsumeTypes ==
  /\ Alive /\ left.calls > 0
  /\ \E i, j \in DOMAIN pool :
       i # j /\ Call("subsume", subsumed_by(st, pool[i].t, pool[j].t, Ctxt), i, j)

Next == EnterForall \/ LeaveForall \/ UnifyTypes \/ SubsumeTypes

Spec == Init /\ [][Next]_vars

----------------------------------------------------------------------------
(***************************************************************************)
(* What the types mean: every assigned variable replaced, rows as sets.    *)
(***************************************************************************)
RECURSIVE Norm(_, _), NormRows(_, _)
NormRows(s, t0) ==
  LET t == into_root(s, t0)
      r == NormRows(s, RowTail(t))
      c == [i \in DOMAIN RowContent(t) |-> Norm(s, RowContent(t)[i])]
  IN  IF IsExtend(t) THEN [rows |-> {<<t.id, c>>} \cup r.rows, tail |-> r.tail]
      ELSE [rows |-> {}, tail |-> Norm(s, t)]
Norm(s, t0) ==
  LET t == into_root(s, t0)
      r == NormRows(s, t)
  IN  CASE t.k # "con" -> [h |-> t.k, of |-> <<t.sort, t.i>>, sub |-> <<>>, rows |-> {}]
        [] IsExtend(t) -> [h |-> "rows", of |-> <<>>, sub |-> <<r.tail>>, rows |-> r.rows]
        [] OTHER -> [h |-> t.op, of |-> <<t.id>>,
                     sub |-> [i \in DOMAIN t.sub |-> Norm(s, t.sub[i])], rows |-> {}]

\* The rows of a record or enum type, in order: identifier and content.
RECURSIVE RowsIn(_, _)
RowsIn(s, t0) ==
  LET t == into_root(s, t0)
  IN  IF IsExtend(t) THEN <<<<t.id, Len(RowContent(t))>>>> \o RowsIn(s, RowTail(t))
      ELSE <<>>
RECURSIVE Subterms(_, _)
Subterms(s, t0) ==
  LET t == into_root(s, t0)
  IN  {t} \cup (IF t.k # "con" THEN {} ELSE UNION {Subterms(s, t.sub[i]) : i \in DOMAIN t.sub})

Sane == ~st.overflow /\ ~Cyclic(st)

(***************************************************************************)
(* The upper bound stored in a concrete type covers the levels of the free *)
(* type variables below it ("the following invariant must always be        *)
(* satisfied", UnifType in mod.rs).                                        *)
(***************************************************************************)
UpperBoundHolds ==
  Sane => \A k \in DOMAIN pool : \A t \in Subterms(st, pool[k].t) :
            t.k = "con" /\ SortOf(t) = "type" =>
              \A v \in Subterms(st, t) :
                v.k = "var" /\ v.sort = "type" => get_level(st, "type", v.i) =< t.ub

(***************************************************************************)
(* No rigid variable is captured: the free variables of a type introduced  *)
(* before the scope of a rigid variable was entered are never bound to it  *)
(* (the levels of [^check-unif-var-level] and the updates that             *)
(* force_type_updates applies before they are compared), as long as the    *)
(* stored bounds are right.                                                *)
(***************************************************************************)
NoCapture ==
  \A k \in DOMAIN pool : \A t \in Subterms(st, pool[k].t) :
    LET r == into_root(st', t)
    IN  t.k = "var" /\ r.k = "cst" => get_level(st', r.sort, r.i) =< pool[k].level

NothingCaptured == [][Sane /\ ~Cyclic(st') /\ UpperBoundHolds => NoCapture]_vars

(***************************************************************************)
(* Whether a set of unifications has a solution does not depend on the     *)
(* order they are issued in, nor on which side is the expected type        *)
(* ("unification is symmetric in principle").                              *)
(***************************************************************************)
Replay(order, swap) ==
  LET f[n \in 0 .. Len(calls)] ==
        IF n = 0 THEN Ok(base)
        ELSE IF ~f[n - 1].ok \/ Cyclic(f[n - 1].st) THEN f[n - 1]
        ELSE LET c == calls[order[n]]
                 x == pool[IF swap THEN c.j ELSE c.i].t
                 y == pool[IF swap THEN c.i ELSE c.j].t
             IN  unify(f[n - 1].st, x, y, Ctxt)
  IN  f[Len(calls)]

OrderIrrelevant ==
  Sane /\ ~st.lost /\ scopes = <<>> /\ (\A k \in DOMAIN calls : calls[k].op = "unify") =>
    \A order \in {p \in [DOMAIN calls -> DOMAIN calls] : Range(p) = DOMAIN calls} :
      \A swap \in BOOLEAN :
        \E r \in {Replay(order, swap)} :
          r.st.overflow \/ r.st.lost \/ st.overwritten \/ Cyclic(r.st)
          \/ (r.ok <=> \A k \in DOMAIN calls : calls[k].ok)
=============================================================================
