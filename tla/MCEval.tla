------------------------------- MODULE MCEval -------------------------------
(***************************************************************************)
(* Programs for the evaluator: sessions that evaluate the fields of        *)
(*   let r = R1 in let m = r & R2 in { p = .., q = .., .. }                *)
(* for many record literals R1, R2 with fields a and b, in every order;    *)
(* and some programs about functions, sharing and seals.                   *)
(***************************************************************************)
EXTENDS Eval

CONSTANTS Depth   \* recursion depth at which the reference gives up

Ref == INSTANCE EvalReference

Get(x, v) == Op1("access", x, v)
Then(a, b) == App(Op1("seq", "", a), b)
Let(x, v, b) == [t |-> "let", rec |-> FALSE, x |-> x, bound |-> v, body |-> b]
LetRec(x, v, b) == [t |-> "let", rec |-> TRUE, x |-> x, bound |-> v, body |-> b]
Def(x, v) == [id |-> x, value |-> v, prio |-> Neutral]
Default(x, v) == [id |-> x, value |-> v, prio |-> 0]
Boom == Failing("Runtime")

\* One-field and two-field literals.
Literals(as, bs) ==
  {Ref!Literal(<<f>>) : f \in as \cup bs} \cup {Ref!Literal(<<f, g>>) : f \in as, g \in bs}

As == {Default("a", Num(1)), Def("a", Num(2)), Def("a", Boom), Def("a", None)}
BsOf1 == {Default("b", Op2("plus", Var("a"), Num(1))), Def("b", Var("a"))}
BsOf2 == {Def("b", Num(2)), Def("b", Var("b"))}

Override(r1, r2, queries) ==
  Let("r", r1, Let("m", Op2("merge", Var("r"), r2), Ref!Literal(queries)))

Queries ==
  {<<Def("p", Get("b", Var("r"))), Def("q", Get("b", Var("m"))), Def("s", Get("a", Var("m")))>>}

Overrides ==
  {Override(r1, r2, qs) :
     r1 \in {Ref!Literal(<<f, g>>) : f \in As \cup {Def("a", Var("b"))}, g \in BsOf1},
     r2 \in Literals(As, BsOf2) \cup {Record(EmptyEnv), Num(1)}, qs \in Queries}

\* Three records, the first two merged and evaluated before the third comes.
ThreeWay ==
  {Let("r", Op2("merge", Ref!Literal(<<Default("a", Num(1)), Def("b", Var("a"))>>),
                         Ref!Literal(<<f, Def("b", Var("a"))>>)),
       Let("m", Op2("merge", Var("r"), Ref!Literal(<<g>>)),
           Ref!Literal(<<Def("p", Get("b", Var("r"))), Def("q", Get("b", Var("m")))>>))) :
     f \in {Default("a", Num(1)), Def("a", Num(2)), Def("a", None)},
     g \in {Def("a", Num(3)), Def("a", Num(2)), Def("b", Num(2)), Default("b", Num(3))}}

\* Overriding a field of a nested record.
Nested ==
  Override(Ref!Literal(<<Def("a", Ref!Literal(<<Default("x", Num(1)), Def("y", Var("x"))>>)),
                         Def("b", Get("y", Var("a")))>>),
           Ref!Literal(<<Def("a", Ref!Literal(<<Def("x", Num(5))>>))>>),
           <<Def("p", Get("a", Var("r"))), Def("q", Var("m"))>>)

Key(n) == [t |-> "key", n |-> n]
UnsealWith(k, v, blame) == App(Op2("unseal", k, v), blame)

Seals ==
  Let("s", App(Op2("seal", Key(1), [t |-> "label"]), Op2("plus", Num(1), Num(1))),
      Ref!Literal(<<Def("p", UnsealWith(Key(1), Var("s"), Boom)),
                    Def("q", UnsealWith(Key(2), Var("s"), Boom)),
                    Def("u", Then(Var("s"), Num(3))),
                    Def("w", Op2("plus", Var("s"), Num(1)))>>))

Misuses ==
  Let("r", Ref!Literal(<<Def("a", Num(1))>>),
      Ref!Literal(<<Def("p", App(Num(1), Num(2))), Def("q", Get("z", Var("r"))),
                    Def("u", Get("z", Num(1))), Def("w", Op2("plus", Var("r"), Num(1))),
                    Def("y", UnsealWith(Key(1), Num(1), Num(4)))>>))

MoreMisuses ==
  Ref!Literal(<<Def("p", Op2("seal", Num(1), Num(1))), Def("q", UnsealWith(Num(1), Num(1), Num(4))),
                Def("u", UnsealWith(Num(1), App(Op2("seal", Key(1), [t |-> "label"]), Num(1)),
                                    Num(4))),
                Def("w", App(Op2("seal", Key(1), [t |-> "label"]), Num(1))),
                Def("y", Op1("seq", "", Num(1)))>>)

Loops ==
  LetRec("x", Op2("plus", Var("x"), Num(1)),
         Ref!Literal(<<Def("p", Var("x")), Def("q", App(Fun("y", Num(1)), Var("x"))),
                       Def("u", App(Fun("y", Op2("plus", Var("y"), Var("y"))),
                                    Op2("plus", Num(1), Num(1)))),
                       Def("w", Op2("plus", Var("p"), Num(1)))>>))

\* A field that merges the record it belongs to while it is being evaluated.
SelfMerge ==
  LetRec("r", Ref!Literal(
               <<Def("a", Let("m", Op2("merge", Var("r"),
                                       Ref!Literal(<<Def("a", Ref!Literal(<<Def("z", Num(1))>>))>>)),
                              Then(Var("m"), Ref!Literal(<<Def("x", Get("z", Get("a", Var("m"))))>>))))>>),
         Get("x", Get("a", Var("r"))))

AllPrograms == Overrides \cup ThreeWay \cup {Nested, Seals, Misuses, MoreMisuses, Loops, SelfMerge}

-----------------------------------------------------------------------------
MachineOutcome ==
  IF mode = "err" THEN <<"fail", err>>
  ELSE CASE cur.v.t = "num" -> <<"num", cur.v.n>>
         [] cur.v.t = "record" -> <<"record", DOMAIN cur.v.fs>>
         [] OTHER -> <<cur.v.t>>

\* Whatever was evaluated before, with or without an error, whatever was shared,
\* overridden or reverted: each evaluation ends with the value, or the error,
\* that the term denotes.  In particular infinite recursion is reported only of
\* a term that has no value.
OutcomeAlwaysRight ==
  mode \in {"ok", "err"} => MachineOutcome = Ref!Outcome(prog, path, Depth)

\* The same, as long as saturate copied no thunk that was being evaluated.
OutcomeRight == stuck = {} => OutcomeAlwaysRight

=============================================================================
