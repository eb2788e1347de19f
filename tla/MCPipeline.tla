----------------------------- MODULE MCPipeline -----------------------------
EXTENDS Pipeline

TNumber == Atom("Number")
TString == Atom("String")
TBool   == Atom("Bool")
Rec1(id, t) == Record(RRow(id, t, Empty("rrows")))
Plus1(t) == Op("Plus", <<t, NumT(1)>>)
Length(t) == Op("StringLength", <<t>>)
Rec_(defs) == RecordT(defs, <<>>)
X == Var("x")
Y == Var("y")

MCImports == [lib |-> Fun(<<AnyPat("y")>>, Y), num |-> Annot(HasType(TNumber), NumT(3)), data |-> NoAst]

----------------------------------------------------------------------------
\* Patterns against values.
Leaves1 == {WildPat, AnyPat("x"), ConstPat("Num", NumC(1)), ConstPat("Null", NullC), TagPat("A"),
            VariantPat("A", AnyPat("x")), As("w", VariantPat("A", AnyPat("x")))}
FieldPats == {<<FieldPat("a", NoAnnot, NoAst, AnyPat("x"))>>,
              <<FieldPat("a", NoAnnot, NumT(7), AnyPat("x"))>>,
              <<FieldPat("a", HasContract(TNumber), NoAst, AnyPat("x"))>>,
              <<FieldPat("a", NoAnnot, NoAst, VariantPat("A", AnyPat("x"))),
                FieldPat("b", NoAnnot, StrT("d"), AnyPat("y"))>>,
              <<FieldPat("a", NoAnnot, NumT(7), AnyPat("x")),
                FieldPat("b", NoAnnot, StrT("d"), AnyPat("y"))>>}
Patterns ==
  Leaves1
  \cup {RecordPat(f, t, "r") : f \in FieldPats, t \in {"Empty", "Open", "Capture"}}
  \cup {As("w", RecordPat(f, "Capture", "r")) : f \in FieldPats}
  \cup {ArrayPat(ps, t, "r") : ps \in {<<>>, <<AnyPat("x")>>, <<AnyPat("x"), ConstPat("Num", NumC(1))>>},
                               t \in {"Empty", "Open", "Capture"}}
  \cup {OrPat(<<VariantPat("A", AnyPat("x")), RecordPat(<<FieldPat("a", NoAnnot, NoAst, AnyPat("x"))>>, "Open", "")>>),
        OrPat(<<TagPat("A"), TagPat("B")>>),
        As("w", OrPat(<<ArrayPat(<<AnyPat("x")>>, "Empty", ""), VariantPat("B", AnyPat("x"))>>))}

Opt_ == [opt |-> TRUE, prio |-> 0]
Values ==
  {Null, NumT(1), StrT("a"), Tag("A"), Tag("B"), Variant("A", NumT(1)), Variant("B", StrT("b")),
   ArrayT(<<>>), ArrayT(<<NumT(1)>>), ArrayT(<<NumT(1), NumT(2)>>), ArrayT(<<NumT(2), NumT(1), NumT(3)>>),
   Rec_(<<>>), Rec_(<<Def("a", NumT(1))>>), Rec_(<<Def("a", StrT("s"))>>),
   Rec_(<<Def("a", Variant("A", NumT(2))), Def("b", StrT("b"))>>),
   Rec_(<<Def("a", Variant("A", NumT(2)))>>), Rec_(<<Def("b", NumT(5)), Def("c", Var("b"))>>),
   Rec_(<<FieldDef(<<Ident("a")>>, NoAnnot, Opt_, NoAst)>>),
   Rec_(<<FieldDef(<<Ident("a")>>, NoAnnot, NoMeta, NoAst), Def("b", NumT(1))>>),
   Rec_(<<FieldDef(<<Ident("a")>>, HasContract(TString), NoMeta, NoAst), Def("c", Var("a"))>>)}

\* A record of all that is bound.
Shown(ids) ==
  LET s == SetToSeq(ids) IN Rec_([i \in DOMAIN s |-> Def("o" \o s[i], Var(s[i]))])
Destructuring ==
  UNION {{App(MatchT(<<Branch(p, Shown(bindings(p))), Branch(WildPat, Tag("none"))>>), <<v>>),
          Let1(p, v, Shown(bindings(p))),
          App(Fun(<<p, AnyPat("z")>>, Shown(bindings(p))), <<v, NumT(0)>>)} : p \in Patterns, v \in Values}

\* Several branches, with guards.
Few == {AnyPat("x"), TagPat("A"), TagPat("B"), WildPat, VariantPat("A", AnyPat("y")), ConstPat("Num", NumC(1))}
Guards == {NoAst, BoolT(FALSE), BoolT(TRUE)}
Branches ==
  {App(MatchT(<<Guarded(p, g, NumT(10)), Branch(q, NumT(20))>>), <<v>>) :
     <<p, q>> \in {pq \in Few \X Few : pq[1] # pq[2]}, g \in Guards,
     v \in {NumT(1), Tag("A"), Tag("B"), Variant("A", NumT(1))}}

----------------------------------------------------------------------------
\* Piecewise definitions.
At(path, t) == FieldDef([i \in DOMAIN path |-> Ident(path[i])], NoAnnot, NoMeta, t)
Prio(id, n, t) == FieldDef(<<Ident(id)>>, NoAnnot, [opt |-> FALSE, prio |-> n], t)
Defs == {At(<<"a">>, NumT(1)), At(<<"a">>, Rec_(<<Def("b", NumT(1))>>)), At(<<"a", "b">>, NumT(2)),
         At(<<"a", "c">>, Var("d")), Prio("a", -1, NumT(3)), Prio("d", -1, NumT(4)), At(<<"d">>, NumT(5)),
         FieldDef(<<Ident("d")>>, HasContract(TNumber), NoMeta, NoAst),
         FieldDef(<<Dynamic(Chunks(<<StrT("e")>>))>>, NoAnnot, NoMeta, Var("d")),
         FieldDef(<<Ident("e"), Dynamic(Chunks(<<StrT("f"), StrT("g")>>))>>, NoAnnot, NoMeta, NumT(6))}
Piecewise == {Rec_(ds) : ds \in UNION {[1 .. n -> Defs] : n \in 1 .. 3}}

----------------------------------------------------------------------------
\* Typed code.
IdType == Forall("type", "t", {}, arrow(TypeVar("type", "t"), TypeVar("type", "t")))
Types1 == {TNumber, TString, arrow(TNumber, TNumber), Rec1("a", TNumber), dict(TNumber), array(TNumber), IdType,
           Enum(ETag("A", ERow("B", TNumber, Empty("erows"))))}
Annots1 == {NoAnnot} \cup {HasType(t) : t \in Types1} \cup {HasContract(t) : t \in {TNumber, TString, arrow(TNumber, TNumber)}}
Bound1 == {NumT(1), StrT("a"), BoolT(TRUE), Tag("A"), Variant("B", NumT(1)), Variant("B", StrT("s")),
           Rec_(<<Def("a", NumT(1))>>), Rec_(<<Def("a", StrT("s"))>>), Rec_(<<Def("a", NumT(1)), Def("b", Plus1(Var("a")))>>),
           ArrayT(<<NumT(1)>>), ArrayT(<<NumT(1), StrT("s")>>), Fun(<<AnyPat("y")>>, Y), Fun(<<AnyPat("y")>>, Plus1(Y)),
           ImportT("lib"), ImportT("num"), ImportT("data"), Var("nowhere")}
Uses == {X, Plus1(X), Length(X), Access(X, "a"), Plus1(Access(X, "a")), If(X, NumT(1), NumT(2)),
         App(X, <<NumT(1)>>), Plus1(App(X, <<StrT("a")>>)), App(MatchT(<<Branch(TagPat("A"), NumT(1)), Branch(VariantPat("B", AnyPat("y")), Plus1(Y))>>), <<X>>),
         Plus1(Op("RecordGet", <<StrT("a"), X>>)), Plus1(Op("ArrayAt", <<X, NumT(0)>>)),
         Plus1(Annot(HasContract(TNumber), X)), Length(Annot(HasType(TString), X)),
         Rec_(<<Def("b", X), Def("c", Plus1(Var("b")))>>), Op("Merge", <<X, Rec_(<<Def("z", NumT(1))>>)>>)}
Typed1 == {LetIn(<<Bind1(AnyPat("x"), a, v)>>, FALSE, u) : a \in Annots1, v \in Bound1, u \in Uses}

\* Recursion, includes, functions of functions, and records that depend on
\* an outer variable.
F == Var("f")
Apply == Fun(<<AnyPat("f"), AnyPat("y")>>, App(F, <<Y>>))
Wide ==
  {LetIn(<<Bind1(AnyPat("x"), a, v), Bind1(AnyPat("f"), b, w)>>, rec, u) :
     a \in {NoAnnot, HasType(TNumber), HasContract(TNumber), HasType(dict(TNumber))},
     v \in {NumT(1), X, Rec_(<<Def("a", NumT(1))>>), App(F, <<NumT(1)>>)},
     b \in {NoAnnot, HasType(arrow(TNumber, TNumber)), HasType(IdType), HasContract(arrow(TString, TNumber))},
     w \in {Fun(<<AnyPat("y")>>, Y), Fun(<<AnyPat("y")>>, Plus1(X)), Fun(<<AnyPat("y")>>, Length(Y)), Apply},
     rec \in BOOLEAN,
     u \in {App(F, <<X>>), Plus1(App(F, <<X>>)), RecordT(<<Def("z", Plus1(X))>>, <<Include("x", NoAnnot)>>),
            RecordT(<<Def("z", App(F, <<X>>))>>, <<Include("f", HasType(arrow(TNumber, TNumber)))>>),
            Rec_(<<FieldDef(<<Dynamic(Chunks(<<StrT("d"), StrT("e")>>))>>, NoAnnot, NoMeta, X), Def("z", NumT(2))>>)}}

\* Casts between contracts.
C == Var("c")
D == Var("d")
Consts == {NumT(1), Rec_(<<Def("a", NumT(1))>>), Rec_(<<Def("a", NumT(1)), Def("b", NumT(2))>>),
           Rec_(<<Def("b", NumT(2)), Def("a", NumT(1))>>)}
Contracts == {C, D, Var("e"), Rec_(<<Def("a", C)>>), Rec_(<<Def("a", NumT(1))>>), Access(C, "a"), ArrayT(<<C, D>>),
              App(C, <<D>>), Variant("A", C)}
Casts ==
  {LetIn(<<Bind1(AnyPat("c"), NoAnnot, v), Bind1(AnyPat("d"), NoAnnot, w)>>, FALSE,
     Let1(AnyPat("e"), u, Annot(HasType(Contract(q)), Annot(HasContract(Contract(p)), Null)))) :
       v \in Consts, w \in Consts, u \in {C, Rec_(<<Def("a", C)>>)}, p \in Contracts, q \in Contracts}
\* A variable of an earlier branch must not be seen by a later one.
Shadowing ==
  {Let1(AnyPat("x"), Tag("outer"),
        App(MatchT(<<Branch(p, Shown(bindings(p))), Branch(WildPat, X)>>), <<v>>)) : p \in Patterns, v \in Values}

\* Typed code used by untyped code: what a static annotation checks.
TV(id) == TypeVar("type", id)
RowVar == TypeVar("rrows", "r")
Endo(t) == arrow(t, t)
AX(tail) == Record(RRow("x", TNumber, tail))
Signatures ==
  {Endo(TNumber), IdType, arrow(Endo(TNumber), TNumber), arrow(arrow(Endo(TNumber), TNumber), TNumber),
   arrow(IdType, TNumber), Forall("type", "t", {}, arrow(Endo(TV("t")), Endo(TV("t")))),
   arrow(Forall("type", "t", {}, arrow(Endo(TV("t")), Endo(TV("t")))), TNumber),
   Rec1("a", Endo(TNumber)), array(Endo(TNumber)), arrow(dict(TNumber), dict(TNumber)),
   Enum(ETag("A", ERow("B", Endo(TNumber), Empty("erows")))),
   Endo(Enum(ETag("A", ERow("B", TNumber, Empty("erows"))))),
   Forall("erows", "e", {}, Endo(Enum(ETag("A", TypeVar("erows", "e"))))),
   Forall("rrows", "r", {"x"}, Endo(AX(RowVar))), Forall("rrows", "r", {"x"}, arrow(AX(RowVar), TNumber)),
   arrow(Forall("rrows", "r", {"x"}, Endo(AX(RowVar))), TNumber),
   arrow(Forall("rrows", "r", {"x"}, Endo(AX(RowVar))), AX(Empty("rrows"))),
   arrow(AX(TailDyn), TNumber), arrow(TDyn, TNumber), arrow(TNumber, TDyn)}
Record1 == Rec_(<<Def("x", NumT(1))>>)
Record2 == Rec_(<<Def("x", NumT(1)), Def("z", StrT("s"))>>)
IdF == Fun(<<AnyPat("y")>>, Y)
Bodies ==
  {IdF, Fun(<<AnyPat("y")>>, Plus1(Y)), Apply, Fun(<<AnyPat("y")>>, NumT(3)),
   Fun(<<AnyPat("f")>>, App(F, <<NumT(1)>>)), Fun(<<AnyPat("f")>>, App(F, <<Fun(<<AnyPat("y")>>, Plus1(Y))>>)),
   Fun(<<AnyPat("f")>>, App(F, <<IdF, NumT(2)>>)),
   Fun(<<AnyPat("y")>>, Plus1(Access(Y, "x"))),
   Fun(<<AnyPat("f")>>, App(F, <<Record1>>)), Fun(<<AnyPat("f")>>, Access(App(F, <<Record2>>), "x")),
   Fun(<<AnyPat("y")>>, Record1),
   Rec_(<<Def("a", IdF)>>), ArrayT(<<IdF>>), Variant("B", IdF), Tag("A")}
Arguments ==
  {NumT(1), StrT("s"), IdF, Fun(<<AnyPat("y")>>, StrT("t")),
   Fun(<<AnyPat("f")>>, App(F, <<StrT("u")>>)), Fun(<<AnyPat("f")>>, App(F, <<NumT(4)>>)),
   Record1, Record2, Rec_(<<Def("x", StrT("s"))>>),
   Fun(<<AnyPat("y")>>, Op("Merge", <<Y, Rec_(<<Def("z", NumT(5))>>)>>)), Fun(<<AnyPat("y")>>, Access(Y, "z")),
   Tag("A"), Variant("B", StrT("s"))}
Calls == {App(X, <<v>>) : v \in Arguments}
         \cup {App(X, <<v, w>>) : v \in {IdF, Fun(<<AnyPat("y")>>, StrT("t"))},
                                  w \in {NumT(1), StrT("s")}}
         \cup {App(f, <<v>>) : f \in {Access(X, "a"), Op("ArrayAt", <<X, NumT(0)>>)}, v \in {NumT(1), StrT("s")}}
         \cup {App(MatchT(<<Branch(VariantPat("B", AnyPat("y")), App(Y, <<v>>)), Branch(WildPat, NumT(0))>>), <<X>>) :
                  v \in {NumT(1), StrT("s")}}
\* Bodies that do not have the type are rejected however they are called.
Called(t, v, u) == LetIn(<<Bind1(AnyPat("x"), HasType(t), v)>>, FALSE, u)
Contracted ==
  UNION {{Called(t, v, u) : u \in IF typecheck(Called(t, v, X), NoTypes, "Walk").ok THEN Calls ELSE {X}} :
         t \in Signatures, v \in Bodies}

\* Contracts that are merged.
Fld(id, annot) == FieldDef(<<Ident(id)>>, annot, NoMeta, NoAst)
Shape == Rec_(<<Fld("a", HasContract(TNumber))>>)
RecordContracts ==
  {C, D, Shape, Rec_(<<Fld("a", HasContract(TString))>>), Rec_(<<Fld("a", HasContract(TNumber)), Fld("b", NoAnnot)>>),
   Rec_(<<Fld("a", HasContract(Contract(C)))>>), Access(Rec_(<<Def("e", C)>>), "e"), Access(Rec_(<<Def("e", D)>>), "e"),
   TypeT(Rec1("a", TNumber)), TypeT(Rec1("a", TString)), Tag("A")}
Deduplicated ==
  {LetIn(<<Bind1(AnyPat("c"), NoAnnot, c)>>, FALSE,
     LetIn(<<Bind1(AnyPat("d"), NoAnnot, d)>>, FALSE,
       Op("Merge", <<Op("Merge", <<Rec_(<<Fld("x", HasContract(Contract(p)))>>),
                                   Rec_(<<Fld("x", HasContract(Contract(q)))>>)>>),
                     Rec_(<<Def("x", v)>>)>>))) :
     c \in {Shape, Rec_(<<Fld("b", NoAnnot), Fld("a", HasContract(TNumber))>>)}, d \in {C, Rec_(<<Fld("a", HasContract(TString))>>)},
     p \in RecordContracts, q \in RecordContracts,
     v \in {Rec_(<<Def("a", NumT(1))>>), Rec_(<<Def("a", NumT(1)), Def("b", NumT(2))>>)}}

MCCandidates == {Deduplicated, Contracted, Casts, Shadowing, Wide, Destructuring, Branches, Piecewise, Typed1}

----------------------------------------------------------------------------
\* Programs in an editor: variables, and fields of records.
Small == {NumT(1), X, Fun(<<AnyPat("x")>>, X)}
Scoped ==
  {Let1(AnyPat("x"), v, LetIn(<<Bind1(AnyPat(y), NoAnnot, w)>>, rec, body)) :
     y \in {"x", "y"}, v \in {NumT(1), X}, w \in Small, rec \in BOOLEAN,
     body \in {ArrayT(<<X, Y>>), App(Fun(<<AnyPat("x")>>, ArrayT(<<X, Y>>)), <<Y>>),
               App(MatchT(<<Branch(VariantPat("A", AnyPat("y")), X), Branch(AnyPat("x"), ArrayT(<<X, Y>>))>>), <<Y>>),
               LetIn(<<Bind1(AnyPat("x"), NoAnnot, Y), Bind1(AnyPat("y"), NoAnnot, X)>>, FALSE, ArrayT(<<X, Y>>))}}
A == Var("a")
R == Var("r")
AB == Rec_(<<Def("a", NumT(1)), Def("b", A)>>)
Merged(t, u) == Op("Merge", <<t, u>>)
Nested == Rec_(<<Def("a", Rec_(<<Def("b", NumT(1))>>))>>)
C2 == Rec_(<<Def("c", NumT(2))>>)
Records ==
  {AB, Nested,
   Rec_(<<Def("a", NumT(1)), Def("b", Rec_(<<Def("a", NumT(2)), Def("c", A)>>))>>),
   Rec_(<<Def("a", NumT(1)), Def("b", Rec_(<<Def("c", A)>>))>>),
   Rec_(<<Def("a", Nested), Def("b", Access(Access(A, "a"), "b"))>>),
   Rec_(<<Def("a", Merged(Nested, C2)), Def("b", Access(A, "c"))>>),
   Merged(AB, C2), Merged(Shape, AB), Merged(Merged(AB, Shape), C2),
   Merged(Nested, Rec_(<<Def("a", Rec_(<<Def("c", NumT(2)), Def("d", C)>>))>>)),
   Annot(HasContract(Contract(Shape)), Rec_(<<Def("a", NumT(1))>>)),
   Let1(AnyPat("a"), Nested, Merged(A, Rec_(<<Def("b", A)>>)))}
\* Fields with several definitions, or with a type.
Pieces ==
  {Rec_(<<At(<<"a", "b">>, NumT(1)), At(<<"a", "c">>, NumT(2))>>),
   Rec_(<<Def("a", NumT(1)), Fld("a", HasContract(TNumber))>>),
   Merged(Nested, Rec_(<<At(<<"a", "c">>, NumT(2))>>)),
   Annot(HasContract(Rec1("a", TNumber)), Rec_(<<Def("a", NumT(1))>>))}
FieldUses ==
  {R, Access(R, "a"), Access(Access(R, "a"), "b"), Rec_(<<Def("b", Access(R, "a")), Def("a", R)>>),
   Access(Merged(R, Rec_(<<Def("e", NumT(5))>>)), "e")}
\* Uses through patterns and functions.
OtherUses ==
  {Let1(RecordPat(<<FieldPat("a", NoAnnot, NoAst, AnyPat("x"))>>, "Open", ""), R, Access(X, "b")),
   App(MatchT(<<Branch(RecordPat(<<FieldPat("a", NoAnnot, NoAst, AnyPat("x"))>>, "Open", ""), Access(X, "b"))>>), <<R>>)}
Used(records, uses) == records \cup {Let1(AnyPat("r"), v, u) : v \in records, u \in uses}
MCRenamed == Scoped \cup Used(Records, FieldUses)
MCCompleted == Scoped \cup Used(Records \cup Pieces, FieldUses \cup OtherUses)
=============================================================================
