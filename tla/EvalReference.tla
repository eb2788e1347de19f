---------------------------- MODULE EvalReference ----------------------------
(***************************************************************************)
(* What the terms of module Eval mean, without thunks, stack or sharing: a *)
(* call-by-name interpreter.  A recursive record is its declarations; a    *)
(* field is computed from the declarations of highest priority, evaluated  *)
(* where the names of their own literal stand for the fields of the record *)
(* at hand, and merged.  Depth bounds the recursion: what exhausts it is   *)
(* taken to have no value.                                                 *)
(***************************************************************************)
EXTENDS Naturals, Sequences

LOCAL INSTANCE TLC

LOCAL Failed(e) == [r |-> "fail", e |-> e]
LOCAL IsFail(a) == a.r = "fail"
LOCAL Extend(e, x, b) == (x :> b) @@ e

\* Free variables, and the dependencies the free_vars transformation records
\* for each field: the fields of the same literal that occur free in it.
RECURSIVE FreeVars(_)
FreeVars(v) ==
  CASE v.t = "var" -> {v.x}
    [] v.t = "fun" -> FreeVars(v.body) \ {v.x}
    [] v.t = "app" -> FreeVars(v.f) \cup FreeVars(v.a)
    [] v.t = "let" -> (FreeVars(v.body) \ {v.x})
                      \cup (FreeVars(v.bound) \ (IF v.rec THEN {v.x} ELSE {}))
    [] v.t = "op1" -> FreeVars(v.a)
    [] v.t = "op2" -> FreeVars(v.a) \cup FreeVars(v.b)
    [] v.t = "recrec" -> UNION {FreeVars(v.fs[x].value) : x \in DOMAIN v.fs} \ DOMAIN v.fs
    [] OTHER -> {}

Literal(decls) ==
  LET names == {decls[k].id : k \in DOMAIN decls}
      Decl(x) == decls[CHOOSE k \in DOMAIN decls : decls[k].id = x]
  IN [t |-> "recrec", closurized |-> FALSE,
      fs |-> [x \in names |-> [value |-> Decl(x).value, prio |-> Decl(x).prio,
                               deps |-> FreeVars(Decl(x).value) \cap names]]]

-----------------------------------------------------------------------------
\* The value both evaluated operands of a merge have.
LOCAL Combine(a, b) ==
  IF a.r = "num" /\ b.r = "num" /\ a.n = b.n THEN a
  ELSE IF a.r = "record" /\ b.r = "record"
  THEN [r |-> "record",
        decls |-> [x \in DOMAIN a.decls \cup DOMAIN b.decls |->
                     (IF x \in DOMAIN a.decls THEN a.decls[x] ELSE <<>>)
                     \o (IF x \in DOMAIN b.decls THEN b.decls[x] ELSE <<>>)]]
  ELSE Failed("MergeIncompatibleArgs")

\* An operation other than seq and unseal blames on a sealed argument.
LOCAL Unsealed(a) == IF a.r = "sealed" THEN Failed("BlameError") ELSE a

RECURSIVE Denote(_, _, _), Force(_, _), Select(_, _, _), MergeDecls(_, _, _), SeqArg(_, _)

Force(b, depth) ==
  CASE b.b = "closure" -> Denote(b.v, b.e, depth)
    [] b.b = "letrec"  -> Denote(b.v, Extend(b.e, b.x, b), depth)
    [] b.b = "field"   -> Select(b.record, b.x, depth)

Select(record, x, depth) ==
  LET ds == record.decls[x]
      top == {k \in DOMAIN ds : \A j \in DOMAIN ds : ds[j].prio <= ds[k].prio}
      Wins(d) == \A j \in DOMAIN ds : ds[j].prio <= d.prio
  IN IF top = {} THEN Failed("MissingFieldDef")
     ELSE MergeDecls(SelectSeq(ds, Wins), record, depth)

MergeDecls(ds, record, depth) ==
  LET d == ds[Len(ds)]
      env == [y \in d.scope |-> [b |-> "field", record |-> record, x |-> y]] @@ d.e
      rest == Unsealed(MergeDecls(SubSeq(ds, 1, Len(ds) - 1), record, depth))
      this == Unsealed(Denote(d.v, env, depth))
  IN IF Len(ds) = 1 THEN Denote(d.v, env, depth)
     ELSE IF IsFail(rest) THEN rest
     ELSE IF IsFail(this) THEN this
     ELSE Combine(rest, this)

\* seq sees through seals.
SeqArg(a, depth) ==
  IF a.r = "sealed" THEN SeqArg(Denote(a.v, a.e, depth), depth) ELSE a

Denote(v, e, depth) ==
  LET Sub(w) == Denote(w, e, depth - 1)
      Strict(w) == Unsealed(Sub(w))
      Closed(w) == [b |-> "closure", v |-> w, e |-> e]
  IN
  IF depth = 0 THEN Failed("InfiniteRecursion")
  ELSE CASE v.t = "num"    -> [r |-> "num", n |-> v.n]
         [] v.t = "key"    -> [r |-> "key", n |-> v.n]
         [] v.t = "label"  -> [r |-> "label"]
         [] v.t = "fun"    -> [r |-> "fun", x |-> v.x, body |-> v.body, e |-> e]
         [] v.t = "sealed" -> [r |-> "sealed", n |-> v.n, v |-> v.inner, e |-> e]
         [] v.t = "error"  -> Failed(v.e)
         [] v.t = "var"    -> IF v.x \in DOMAIN e THEN Force(e[v.x], depth - 1)
                              ELSE Failed("UnboundIdentifier")
         [] v.t = "let"    -> Denote(v.body,
                                     Extend(e, v.x, IF v.rec
                                                    THEN [b |-> "letrec", x |-> v.x, v |-> v.bound,
                                                          e |-> e]
                                                    ELSE Closed(v.bound)),
                                     depth - 1)
         [] v.t = "record" -> [r |-> "record", decls |-> [x \in {} |-> <<>>]]
         [] v.t = "recrec" ->
              [r |-> "record",
               decls |-> [x \in DOMAIN v.fs |->
                            IF v.fs[x].value.t = "none" THEN <<>>
                            ELSE <<[v |-> v.fs[x].value, e |-> e, prio |-> v.fs[x].prio,
                                    scope |-> DOMAIN v.fs]>>]]
         [] v.t = "app" /\ v.f.t = "op1" /\ v.f.op = "seq" ->
              LET a == SeqArg(Sub(v.f.a), depth - 1)
              IN IF IsFail(a) THEN a ELSE Sub(v.a)
         [] v.t = "app" /\ v.f.t = "op2" /\ v.f.op = "unseal" ->
              LET k == Strict(v.f.a)
                  s == Sub(v.f.b)
              IN IF IsFail(k) THEN k ELSE IF IsFail(s) THEN s
                 ELSE IF k.r # "key" THEN Failed("TypeError")
                 ELSE IF s.r = "sealed" /\ s.n = k.n THEN Denote(s.v, s.e, depth - 1)
                 ELSE Sub(v.a)
         [] v.t = "app" /\ ~ (v.f.t \in {"op1", "op2"} /\ v.f.op \in {"seq", "unseal"}) ->
              LET f == Strict(v.f)
              IN IF IsFail(f) THEN f
                 ELSE IF f.r # "fun" THEN Failed("NotAFunc")
                 ELSE Denote(f.body, Extend(f.e, f.x, Closed(v.a)), depth - 1)
         [] v.t = "op1" /\ v.op = "seq" ->
              LET a == SeqArg(Sub(v.a), depth - 1)
              IN IF IsFail(a) THEN a ELSE Failed("NotEnoughArgs")
         [] v.t = "op1" /\ v.op = "access" ->
              LET a == Strict(v.a)
              IN IF IsFail(a) THEN a
                 ELSE IF a.r # "record" THEN Failed("TypeError")
                 ELSE IF v.x \notin DOMAIN a.decls THEN Failed("FieldMissing")
                 ELSE Select(a, v.x, depth - 1)
         [] v.t = "op2" ->
              LET a == Strict(v.a)
                  b == Strict(v.b)
              IN IF IsFail(a) THEN a ELSE IF IsFail(b) THEN b
                 ELSE CASE v.op = "plus" -> IF a.r = "num" /\ b.r = "num"
                                            THEN [r |-> "num", n |-> a.n + b.n]
                                            ELSE Failed("TypeError")
                        [] v.op = "merge" -> Combine(a, b)
                        [] v.op = "seal" -> IF a.r = "key" /\ b.r = "label"
                                            THEN [r |-> "fun", x |-> "x", e |-> [y \in {} |-> 0],
                                                  body |-> [t |-> "sealed", n |-> a.n,
                                                            inner |-> [t |-> "var", x |-> "x"]]]
                                            ELSE Failed("TypeError")

-----------------------------------------------------------------------------
\* The outcome of evaluating the field of a program that a path leads to.
RECURSIVE At(_, _, _)
At(r, path, depth) ==
  IF path = <<>> THEN Unsealed(r)
  ELSE At(Unsealed(Select(r, Head(path), depth)), Tail(path), depth)

Outcome(v, path, depth) ==
  LET r == At(Unsealed(Denote(v, [y \in {} |-> 0], depth)), path, depth)
  IN CASE r.r = "num" -> <<"num", r.n>>
       [] r.r = "record" -> <<"record", DOMAIN r.decls>>
       [] r.r = "fail" -> <<"fail", r.e>>
       [] OTHER -> <<r.r>>

\* The errors met when evaluating a program and, down to a number of levels, the
\* fields of the records it yields.
RECURSIVE Failures(_, _, _, _)
Failures(r, path, limit, depth) ==
  CASE r.r = "fail" -> {[path |-> path, err |-> r.e]}
    [] r.r = "record" ->
         UNION {IF r.decls[x] = <<>>
                THEN {[path |-> Append(path, x), err |-> "MissingFieldDef"]}
                ELSE IF limit = 1 THEN {}
                ELSE Failures(Unsealed(Select(r, x, depth)), Append(path, x), limit - 1, depth) :
                x \in DOMAIN r.decls}
    [] OTHER -> {}

=============================================================================
