----------------------------- MODULE MCFrontEnd -----------------------------
(***************************************************************************)
(* The way of a source text to its types, in three stages whose inputs are *)
(* chosen apart: the lexer and the strings of the text (Strings), the      *)
(* annotations (Uniterm) and the unifications (Unification).               *)
(* A setup without calls leaves the typechecker idle and runs the lexer.   *)
(***************************************************************************)
EXTENDS Uniterm, Strings

Idle == left.calls = 0 /\ left.scopes = 0

FInit ==
  /\ AInit
  /\ IF Idle THEN SInit
     ELSE /\ text = <<>> /\ at = 1 /\ status = "end"
          /\ lexer = Normal(0) /\ modes = <<>> /\ buffer = 0
          /\ open = <<>> /\ strings = <<>>

FNext ==
  \/ ANext /\ UNCHANGED svars
  \/ SNext /\ UNCHANGED <<vars, parser>>

FSpec == FInit /\ [][FNext]_<<vars, parser, svars>>

-----------------------------------------------------------------------------
Var == [c |-> "var"]
Inst(t) == [c |-> "inst", t |-> t]
Access(id) == [c |-> "access", id |-> id]
Variant(id) == [c |-> "variant", id |-> id]
Tag(id) == [c |-> "tag", id |-> id]
ArrayOf(i) == [c |-> "array", of |-> i]
DictOf(i) == [c |-> "dict", of |-> i]
ArrowOf(i, j) == [c |-> "arrow", of |-> i, to |-> j]

NumberT == Atom("Number")
\* forall r. { a : Number; r } -> { b : Number; r }
Move == Forall("rrows", "r", {"a", "b"},
               arrow(Record(RRow("a", NumberT, TypeVar("rrows", "r"))),
                     Record(RRow("b", NumberT, TypeVar("rrows", "r")))))
\* forall r. [| 'a Number; r |] -> [| 'b Number; r |]
Widen == Forall("erows", "r", {"a", "b"},
                arrow(Enum(ERow("a", NumberT, TypeVar("erows", "r"))),
                      Enum(ERow("b", NumberT, TypeVar("erows", "r")))))
Just == Forall("type", "x", {}, TypeVar("type", "x"))

MCSetups == {
  \* levels: variables inside types that an outer variable is bound to
  [cmds |-> <<Var, Inst(Just), ArrayOf(2)>>, calls |-> 3, scopes |-> 2],
  \* records
  [cmds |-> <<Var, Access("a"), Access("b"), ArrowOf(2, 1), Inst(Move), DictOf(1)>>,
   calls |-> 3, scopes |-> 0],
  \* enums
  [cmds |-> <<Var, Variant("a"), Variant("b"), Tag("a"), ArrowOf(2, 1), Inst(Widen)>>,
   calls |-> 3, scopes |-> 0],
  \* annotations: parsed, then used once
  [cmds |-> <<>>, calls |-> 1, scopes |-> 0],
  \* the lexer
  [cmds |-> <<>>, calls |-> 0, scopes |-> 0]}

MCScopes == {Just}

\* r, Number, 1, { b : Number; r }, { b : r } and forall r. { b : r }
Row(tail, t) == RecordOf(<<Field(<<"b">>, <<t>>, <<>>, <<>>, FALSE)>>, {}, tail, FALSE)
MCOperands == {Name("r"), TypeBuiltin, NumLiteral, Row(<<"r">>, TypeBuiltin), Row(<<>>, Name("r")),
               ForallT("r", Row(<<>>, Name("r")))}

\* Texts put together from delimiters and characters; and multiline strings
\* of several lines with expressions.
Open(n) == IF n = 1 THEN <<"m", "%", "\"">> ELSE <<"m", "%", "%", "\"">>
End(n)  == CASE n = 0 -> <<"\"">> [] n = 1 -> <<"\"", "%">> [] n = 2 -> <<"\"", "%", "%">>
Fragments ==
  {Open(1), End(0), End(1), <<"%", "{">>, <<"%">>, <<"{">>, <<"}">>, <<"a">>, <<"\\">>, <<"#">>,
   <<"\n">>, <<" ">>}
Words(S, n) ==
  LET W[k \in 0 .. n] ==
        IF k = 0 THEN {<<>>} ELSE {w \o f : w \in W[k - 1], f \in S \cup {<<>>}}
  IN  W[n]
MCTexts ==
  {{Open(1) \o w \o End(1) : w \in Words(Fragments, 4)},
   {Open(2) \o w \o End(2) : w \in Words(Fragments, 3)},
   {End(0) \o w \o End(0) : w \in Words(Fragments, 3)},
   {Open(1) \o w : w \in Words(Fragments, 3)},
   {Open(1) \o w \o End(1) : w \in Words({<<" ">>, <<"\n">>, <<"a">>, <<"%", "{", "}">>}, 6)}}
=============================================================================
