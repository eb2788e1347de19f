------------------------------ MODULE Uniterm -------------------------------
(***************************************************************************)
(* Uniterms (parser/src/uniterm.rs), and the annotations of a source text  *)
(* that are made of them and used by the typechecker.                      *)
(***************************************************************************)
EXTENDS Unification

-----------------------------------------------------------------------------
(***************************************************************************)
(* The uniterm syntax (parser/src/uniterm.rs): terms and types share their *)
(* notation, and the parser, which works bottom-up, learns only later      *)
(* which of the two it has read.  A uniterm keeps the choice open until    *)
(* the enclosing construct converts it; the variables of a type are        *)
(* settled later still, when an annotation is complete (fix_type_vars).    *)
(*                                                                         *)
(* A rejected program is Bad, whatever the error.  Positions are left out. *)
(***************************************************************************)
Bad == [bad |-> TRUE]
IsBad(x) == "bad" \in DOMAIN x
AnyBad(parts) == \E i \in DOMAIN parts : IsBad(parts[i])

\* The ? operator: an error ends the conversion.
Try(x, Rest(_)) == IF IsBad(x) THEN Bad ELSE Rest(x)


\* UniTermNode.
UVar(id)   == [u |-> "Var", id |-> id]
UType(typ) == [u |-> "Type", typ |-> typ]
UTerm(ast) == [u |-> "Term", ast |-> ast]
UniRecord(fields, includes, tail, open) ==
  [u |-> "Record", fields |-> fields, includes |-> includes, tail |-> tail, open |-> open]

\* A field definition: its path, type, contracts and value, and whether it
\* has other metadata.  Computed is a name computed by an expression.
Computed == "%{..}"
FieldDef(path, typ, contracts, value, meta) ==
  [path |-> path, typ |-> typ, contracts |-> contracts, value |-> value, meta |-> meta]

VarAst(id)   == [n |-> "Var", id |-> id]
TypeAst(typ) == [n |-> "Type", typ |-> typ]
RecordAst(fields, includes, open) ==
  [n |-> "Record", fields |-> fields, includes |-> includes, open |-> open]

Literals == {"Null", "Bool", "Num", "Str", "Array", "Enum", "Chunks"}

----------------------------------------------------------------------------
(***************************************************************************)
(* Fixing.  kinds has the variables bound by the foralls around, each with *)
(* the cell of its kind: empty, or one kind with its excluded rows.        *)
(***************************************************************************)
Fixed(t, kinds) == [t |-> t, kinds |-> kinds]

\* VarKindCell::try_set.
try_set(kinds, id, kind, excluded) ==
  LET cell == kinds[id]
  IN  CASE cell = <<>> -> [kinds EXCEPT ![id] = <<[kind |-> kind, excluded |-> excluded]>>]
        [] cell # <<>> /\ cell[1].kind = kind ->
             [kinds EXCEPT ![id] = <<[kind |-> kind, excluded |-> cell[1].excluded \cup excluded]>>]
        [] OTHER -> Bad

\* An occurrence of a variable that a forall binds fixes its kind.
Occurs(t, kinds, kind, excluded) ==
  Try(try_set(kinds, t.id, kind, excluded), LAMBDA set : Fixed(t, set))

RECURSIVE fix_type_vars_env(_, _), fix_all(_, _), fix_rows(_, _, _)

\* Subterms are fixed from left to right and share the cells.
fix_all(ts, kinds) ==
  LET f[i \in 0 .. Len(ts)] ==
        IF i = 0 THEN Fixed(<<>>, kinds)
        ELSE Try(f[i - 1], LAMBDA before :
               Try(fix_type_vars_env(ts[i], before.kinds), LAMBDA r :
                 Fixed(Append(before.t, r.t), r.kinds)))
  IN  f[Len(ts)]

\* do_fix, for record rows and for enum rows: a tag without an argument is
\* not excluded.  An unbound tail variable is left as it is.
fix_rows(t, kinds, excluded) ==
  CASE t.op \in {"RVar", "EVar"} /\ t.id \in DOMAIN kinds ->
         Occurs(t, kinds, SortOf(t), excluded)
    [] IsExtend(t) ->
         Try(fix_all(RowContent(t), kinds), LAMBDA content :
           Try(fix_rows(RowTail(t), content.kinds,
                        IF content.t = <<>> THEN excluded ELSE excluded \cup {t.id}),
               LAMBDA tail :
                 Fixed(concrete(t.op, t.id, Append(content.t, tail.t)), tail.kinds)))
    [] OTHER -> Fixed(t, kinds)

\* A forall has a cell of its own, which hides an outer one of that name.
fix_forall(t, kinds) ==
  Try(fix_type_vars_env(t.sub[1], (t.id :> <<>>) @@ kinds), LAMBDA r :
    LET k == IF r.kinds[t.id] = <<>> THEN [kind |-> "type", excluded |-> {}]
             ELSE r.kinds[t.id][1]
    IN  Fixed(Forall(k.kind, t.id, k.excluded, r.t),
              [id \in DOMAIN kinds |-> IF id = t.id THEN kinds[id] ELSE r.kinds[id]]))

\* Contracts, the contracts of dictionaries included, are not visited.
fix_type_vars_env(t, kinds) ==
  CASE t.op = "Var" ->
         IF t.id \in DOMAIN kinds THEN Occurs(t, kinds, "type", {})
         ELSE Fixed(Contract(VarAst(t.id)), kinds)
    [] t.op = "Forall" -> fix_forall(t, kinds)
    [] t.op \in {"Record", "Enum"} ->
         Try(fix_rows(t.sub[1], kinds, {}), LAMBDA rows :
           Fixed(concrete(t.op, "", <<rows.t>>), rows.kinds))
    [] t.op \in {"Arrow", "Array"} \/ (t.op = "Dict" /\ t.id # "Contract") ->
         Try(fix_all(t.sub, kinds), LAMBDA sub :
           Fixed(concrete(t.op, t.id, sub.t), sub.kinds))
    [] OTHER -> Fixed(t, kinds)

fix_type_vars(t) == Try(fix_type_vars_env(t, <<>>), LAMBDA r : r.t)

\* The annotations of a field of a record literal are boundaries.
keep_field_types(d) == d \* a plausible bug: left to the enclosing type

fix_field_types(d) ==
  LET fixed(ts) == [i \in DOMAIN ts |-> fix_type_vars(ts[i])]
      Annotated(typ, contracts) ==
        IF AnyBad(typ \o contracts) THEN Bad
        ELSE [d EXCEPT !.typ = typ, !.contracts = contracts]
  IN  Annotated(fixed(d.typ), fixed(d.contracts))

----------------------------------------------------------------------------
(***************************************************************************)
(* Records: a literal, or a type.                                          *)
(***************************************************************************)
IsRow(d) == d.value = <<>> /\ d.typ # <<>> /\ d.contracts = <<>> /\ ~d.meta

is_record_type(ur) ==
  ur.includes = {} /\ \A i \in DOMAIN ur.fields : Len(ur.fields[i].path) = 1 /\ IsRow(ur.fields[i])

\* Rows are added from the last to the first, in front of the tail.
into_type_strict(ur) ==
  LET n == Len(ur.fields)
      f[k \in 0 .. n] ==
        IF k = 0 THEN IF ur.tail = <<>> THEN Empty("rrows") ELSE ur.tail[1]
        ELSE RRow(ur.fields[n + 1 - k].path[1], ur.fields[n + 1 - k].typ[1], f[k - 1])
      seen(i) == \E j \in DOMAIN ur.fields : j > i /\ ur.fields[j].path = ur.fields[i].path
      valid == \A i \in 1 .. n : /\ Len(ur.fields[i].path) = 1 /\ ur.fields[i].path # <<Computed>>
                                 /\ ~seen(i) /\ IsRow(ur.fields[i])
  IN  IF ur.open \/ ur.includes # {} \/ ~valid THEN Bad ELSE Record(f[n])

\* A typed field needs a definition, here or in another piece; a composite
\* or a computed path needs it here.
check_typed_field_without_def(ur) ==
  \A i \in DOMAIN ur.fields :
    LET d == ur.fields[i]
    IN  d.value = <<>> /\ d.typ # <<>> =>
          /\ Len(d.path) = 1 /\ d.path # <<Computed>>
          /\ \E j \in DOMAIN ur.fields : ur.fields[j].path = d.path /\ ur.fields[j].value # <<>>

\* Ast::try_convert(UniRecord).
record_into_ast(ur) ==
  LET Literal(fields) == IF AnyBad(fields) THEN Bad
                         ELSE RecordAst(fields, ur.includes, ur.open)
  IN  IF ur.tail # <<>> \/ (is_record_type(ur) /\ ur.fields # <<>>)
      THEN Try(into_type_strict(ur), LAMBDA typ : Try(fix_type_vars(typ), TypeAst))
      ELSE IF ~check_typed_field_without_def(ur) THEN Bad
      ELSE Literal([i \in DOMAIN ur.fields |-> fix_field_types(ur.fields[i])])

\* Type::try_convert(UniRecord).
record_into_type(ur) ==
  LET typ == into_type_strict(ur)
  IN  IF ur.tail # <<>> \/ ~IsBad(typ) THEN typ ELSE Try(record_into_ast(ur), Contract)

----------------------------------------------------------------------------
(***************************************************************************)
(* Uniterms.                                                               *)
(***************************************************************************)
\* Type::try_convert(UniTerm).
into_type(ut) ==
  CASE ut.u = "Var"    -> TypeVar("type", ut.id)
    [] ut.u = "Record" -> record_into_type(ut)
    [] ut.u = "Type"   -> ut.typ
    [] ut.u = "Term"   -> IF ut.ast.n \in Literals THEN Bad ELSE Contract(ut.ast)

\* Ast::try_convert(UniTerm).
into_ast(ut) ==
  CASE ut.u = "Var"    -> VarAst(ut.id)
    [] ut.u = "Record" -> record_into_ast(ut)
    [] ut.u = "Type"   ->
         Try(fix_type_vars(ut.typ), LAMBDA typ :
           IF IsCon(typ, "Contract") THEN typ.ast ELSE TypeAst(typ))
    [] ut.u = "Term"   -> ut.ast

\* The right-hand side of an annotation (FixedType in grammar.lalrpop).
FixedType(ut) == Try(into_type(ut), fix_type_vars)

-----------------------------------------------------------------------------
(***************************************************************************)
(* From the text of an annotation to the unification table.  The parser    *)
(* reduces one construct of parser/src/grammar.lalrpop after the other     *)
(* around the uniterm on top of its stack; a complete annotation is fixed, *)
(* instantiated where the annotated name is used and unified.              *)
(*                                                                         *)
(* Beside the uniterm the model keeps the source text it stands for, as a  *)
(* tree, and defines on the tree what the text means: scopes are read from *)
(* the outside in, which the parser cannot do.                             *)
(***************************************************************************)
CONSTANTS
  Operands,   \* the uniterms beside the one on top: other operands, fields
  TypeVars,   \* the variables a forall may bind
  Reductions  \* bound: constructs reduced

VARIABLES
  top,     \* the uniterm on top of the parser's stack, with its source
  reduced  \* the constructs reduced

parser == <<top, reduced>>

----------------------------------------------------------------------------
(***************************************************************************)
(* The rules of the grammar.  Each converts the uniterms below it to what  *)
(* the construct needs; a failed conversion ends the parser.               *)
(***************************************************************************)
Parsed(ut, src) == [ut |-> ut, src |-> src]
Src(s, sub) == [s |-> s, sub |-> sub]

\* A node over converted parts, or the parse error of one of them.
Over(parts, Node(_), src) ==
  Parsed(IF AnyBad(parts) THEN Bad ELSE Node(parts), src)

Name(id)      == Parsed(UVar(id), Src("var", <<>>) @@ [id |-> id])
TypeBuiltin   == Parsed(UType(Atom("Number")), Src("builtin", <<>>))
NumLiteral    == Parsed(UTerm([n |-> "Num"]), Src("literal", <<>>))

Arrow(p, q) ==
  Over(<<into_type(p.ut), into_type(q.ut)>>, LAMBDA c : UType(arrow(c[1], c[2])),
       Src("arrow", <<p.src, q.src>>))
TypeArray(p) ==
  Over(<<into_type(p.ut)>>, LAMBDA c : UType(array(c[1])), Src("array", <<p.src>>))
ForallT(id, p) ==
  Over(<<into_type(p.ut)>>, LAMBDA c : UType(Forall("type", id, {}, c[1])),
       Src("forall", <<p.src>>) @@ [id |-> id])
TypeDict(p) ==
  Over(<<into_type(p.ut)>>, LAMBDA c : UType(dict(c[1])), Src("dict", <<p.src>>))
\* Contracts of dictionaries are annotations: fixed at once.
ContractDict(p) ==
  Over(<<FixedType(p.ut)>>, LAMBDA c : UType(concrete("Dict", "Contract", c)),
       Src("dict_contract", <<p.src>>))

\* A tag without argument, a variant, and a tail or none.
TypeEnum(p, tail) ==
  LET end == IF tail = <<>> THEN Empty("erows") ELSE TypeVar("erows", tail[1])
  IN  Over(<<into_type(p.ut)>>, LAMBDA c : UType(Enum(ETag("b", ERow("a", c[1], end)))),
           Src("enum", <<p.src>>) @@ [tail |-> tail])

Applicative(p, q) ==
  Over(<<into_ast(p.ut), into_ast(q.ut)>>,
       LAMBDA c : UTerm([n |-> "App", head |-> c[1], args |-> <<c[2]>>]),
       Src("app", <<p.src, q.src>>))
AnnotatedInfixExpr(p, q) ==
  Over(<<into_ast(p.ut), FixedType(q.ut)>>,
       LAMBDA c : UTerm([n |-> "Annot", inner |-> c[1], typ |-> c[2]]),
       Src("annot", <<p.src, q.src>>))

\* The source of a field: its path, the typed annotation, the contract and
\* the value, each present or not, and other metadata.
Field(path, typ, ctr, value, meta) ==
  [path |-> path, typ |-> typ, ctr |-> ctr, value |-> value, meta |-> meta]

\* A record of fields over uniterms: annotations are converted, not fixed.
RecordOf(fields, includes, tail, open) ==
  LET typed(o) == [i \in DOMAIN o |-> into_type(o[i].ut)]
      terms(o) == [i \in DOMAIN o |-> into_ast(o[i].ut)]
      text(o)  == [i \in DOMAIN o |-> o[i].src]
      srcs == [i \in DOMAIN fields |->
                 Field(fields[i].path, text(fields[i].typ), text(fields[i].ctr),
                       text(fields[i].value), fields[i].meta)]
      rows == IF tail = <<>> THEN <<>>
              ELSE <<IF tail[1] = "Dyn" THEN TailDyn ELSE TypeVar("rrows", tail[1])>>
      parts(d) == d.typ \o d.contracts \o d.value
      clash == \E i \in DOMAIN fields : fields[i].path[1] \in includes
      Built(defs) == IF clash \/ \E i \in DOMAIN defs : AnyBad(parts(defs[i]))
                     THEN Bad
                     ELSE UniRecord(defs, includes, rows, open)
  IN  Parsed(Built([i \in DOMAIN fields |->
                      FieldDef(fields[i].path, typed(fields[i].typ), typed(fields[i].ctr),
                               terms(fields[i].value), fields[i].meta)]),
             Src("record", <<>>) @@ [fields |-> srcs, includes |-> includes,
                                     tail |-> tail, open |-> open])

Parsing == pool = <<>> /\ left.calls > 0 /\ ~IsBad(top.ut)

Reduce(p) == top' = p /\ reduced' = reduced + 1 /\ UNCHANGED vars

ReduceType ==
  \/ \E q \in Operands : Reduce(Arrow(top, q)) \/ Reduce(Arrow(q, top))
  \/ Reduce(TypeArray(top)) \/ Reduce(TypeDict(top)) \/ Reduce(ContractDict(top))
  \/ \E id \in TypeVars : Reduce(ForallT(id, top)) \/ Reduce(TypeEnum(top, <<id>>))
  \/ Reduce(TypeEnum(top, <<>>))

ReduceTerm ==
  \/ \E q \in Operands : Reduce(Applicative(q, top)) \/ Reduce(AnnotatedInfixExpr(q, top))
  \/ Reduce(Applicative(top, NumLiteral)) \/ Reduce(AnnotatedInfixExpr(top, TypeBuiltin))

\* The field with the uniterm on top, beside other fields.
OwnFields ==
  {Field(<<"a">>, <<top>>, <<>>, <<>>, FALSE), Field(<<"a">>, <<>>, <<top>>, <<>>, FALSE),
   Field(<<"a">>, <<>>, <<>>, <<top>>, FALSE), Field(<<"a">>, <<top>>, <<>>, <<>>, TRUE),
   Field(<<"a">>, <<top>>, <<>>, <<NumLiteral>>, FALSE)}
OddPaths == {<<"a", "b">>, <<Computed>>}
OtherFields ==
  {<<>>, <<Field(<<"a">>, <<>>, <<>>, <<NumLiteral>>, FALSE)>>,
   <<Field(<<"a">>, <<TypeBuiltin>>, <<>>, <<>>, FALSE)>>}
  \cup {<<Field(<<"b">>, <<q>>, <<>>, <<>>, FALSE)>> : q \in Operands}
Endings ==
  {[tail |-> <<>>, open |-> FALSE, includes |-> {}], [tail |-> <<>>, open |-> TRUE, includes |-> {}],
   [tail |-> <<>>, open |-> FALSE, includes |-> {"b"}],
   [tail |-> <<"Dyn">>, open |-> FALSE, includes |-> {}]}
  \cup {[tail |-> <<id>>, open |-> FALSE, includes |-> {}] : id \in TypeVars}

ReduceRecord ==
  \/ \E own \in OwnFields, others \in OtherFields, e \in Endings :
       Reduce(RecordOf(<<own>> \o others, e.includes, e.tail, e.open))
  \/ \E path \in OddPaths :
       Reduce(RecordOf(<<Field(path, <<top>>, <<>>, <<>>, FALSE)>>, {}, <<>>, FALSE))

\* The annotation is complete.  The name it annotates is used as a function
\* on a record with a field b: its type is instantiated and unified.
UseAnnotated ==
  /\ Parsing
  /\ \E typ \in {FixedType(top.ut)} :
       /\ ~IsBad(typ) /\ IsCon(typ, "Forall")
       /\ \E r \in {introduce_all(<<[c |-> "var"], [c |-> "access", id |-> "b"],
                                    [c |-> "arrow", of |-> 2, to |-> 1],
                                    [c |-> "inst", t |-> from_type(typ, <<>>)]>>)} :
            st' = r.s /\ base' = r.s /\ pool' = r.pool
  /\ UNCHANGED <<scopes, calls, left, parser>>

AInit ==
  /\ Init /\ reduced = 0
  /\ top \in IF pool = <<>> /\ left.calls > 0 THEN Operands ELSE {TypeBuiltin}

ANext ==
  \/ Parsing /\ reduced < Reductions /\ (ReduceType \/ ReduceTerm \/ ReduceRecord)
  \/ UseAnnotated
  \/ Next /\ UNCHANGED parser

----------------------------------------------------------------------------
(***************************************************************************)
(* What a source text means, from the outside in.  A record is a type when *)
(* it has rows only; a forall scopes over the type below it, but not into  *)
(* contracts and annotations; its kind comes from the places of the bound  *)
(* occurrences, its excluded rows from those written beside them.          *)
(***************************************************************************)
IsRecordType(src) ==
  /\ ~src.open /\ src.includes = {}
  /\ \A i \in DOMAIN src.fields :
       LET f == src.fields[i]
       IN  /\ Len(f.path) = 1 /\ f.path # <<Computed>>
           /\ f.typ # <<>> /\ f.ctr = <<>> /\ f.value = <<>> /\ ~f.meta
           /\ \A j \in DOMAIN src.fields : i # j => src.fields[j].path # f.path

\* Every typed field is defined and no field is also included.
IsRecordLiteral(src) ==
  /\ src.tail = <<>>
  /\ \A i \in DOMAIN src.fields :
       LET f == src.fields[i]
       IN  /\ f.path[1] \notin src.includes
           /\ f.typ # <<>> /\ f.value = <<>> =>
                /\ Len(f.path) = 1 /\ f.path # <<Computed>>
                /\ \E j \in DOMAIN src.fields :
                     src.fields[j].path = f.path /\ src.fields[j].value # <<>>

RECURSIVE Occurrences(_, _)
Occurrences(x, src) ==
  LET below == UNION {Occurrences(x, src.sub[i]) : i \in DOMAIN src.sub}
      rows  == UNION {Occurrences(x, src.fields[i].typ[1]) : i \in DOMAIN src.fields}
      At(kind, ids) == {[kind |-> kind, excluded |-> ids]}
  IN  CASE src.s = "var" -> IF src.id = x THEN At("type", {}) ELSE {}
        [] src.s \in {"arrow", "array", "dict"} -> below
        [] src.s = "forall" -> IF src.id = x THEN {} ELSE below
        [] src.s = "enum" -> below \cup IF src.tail = <<x>> THEN At("erows", {"a"}) ELSE {}
        [] src.s = "record" /\ IsRecordType(src) ->
             rows \cup IF src.tail = <<x>>
                       THEN At("rrows", {src.fields[i].path[1] : i \in DOMAIN src.fields}) ELSE {}
        [] OTHER -> {}

AllGood(parts, x) == IF AnyBad(parts) THEN Bad ELSE x

RECURSIVE TypeMeaning(_, _), TermMeaning(_), LiteralMeaning(_), RowsMeaning(_, _, _)

RowsMeaning(src, i, scope) ==
  LET t    == TypeMeaning(src.fields[i].typ[1], scope)
      rest == RowsMeaning(src, i + 1, scope)
  IN  IF i =< Len(src.fields) THEN AllGood(<<t, rest>>, RRow(src.fields[i].path[1], t, rest))
      ELSE CASE src.tail = <<>> -> Empty("rrows")
             [] src.tail = <<"Dyn">> -> TailDyn
             [] OTHER -> TypeVar("rrows", src.tail[1])

LiteralMeaning(src) ==
  LET types(o) == [i \in DOMAIN o |-> TypeMeaning(o[i], {})]
      terms(o) == [i \in DOMAIN o |-> TermMeaning(o[i])]
      defs == [i \in DOMAIN src.fields |->
                 LET f == src.fields[i]
                 IN  FieldDef(f.path, types(f.typ), types(f.ctr), terms(f.value), f.meta)]
  IN  IF ~IsRecordLiteral(src) THEN Bad
      ELSE AllGood(FlattenSeq([i \in DOMAIN defs |->
                                 defs[i].typ \o defs[i].contracts \o defs[i].value]),
                   RecordAst(defs, src.includes, src.open))

TypeMeaning(src, scope) ==
  LET t   == [i \in DOMAIN src.sub |-> TypeMeaning(src.sub[i], scope)]
      ast == TermMeaning(src)
      rows  == RowsMeaning(src, 1, scope)
      occ   == Occurrences(src.id, src.sub[1])
      kinds == {o.kind : o \in occ}
      body  == TypeMeaning(src.sub[1], scope \cup {src.id})
      fixed == TypeMeaning(src.sub[1], {})
  IN  CASE src.s = "var" ->
             IF src.id \in scope THEN TypeVar("type", src.id) ELSE Contract(VarAst(src.id))
        [] src.s = "builtin" -> Atom("Number")
        [] src.s = "literal" -> Bad
        [] src.s = "arrow" -> AllGood(t, arrow(t[1], t[2]))
        [] src.s = "array" -> AllGood(t, array(t[1]))
        [] src.s = "dict" -> AllGood(t, dict(t[1]))
        [] src.s = "dict_contract" -> AllGood(<<fixed>>, concrete("Dict", "Contract", <<fixed>>))
        [] src.s = "enum" ->
             AllGood(t, Enum(ETag("b", ERow("a", t[1], IF src.tail = <<>> THEN Empty("erows")
                                                       ELSE TypeVar("erows", src.tail[1])))))
        [] src.s = "forall" ->
             IF Cardinality(kinds) > 1 THEN Bad
             ELSE AllGood(<<body>>,
                          Forall(IF kinds = {} THEN "type" ELSE CHOOSE k \in kinds : TRUE, src.id,
                                 UNION {o.excluded : o \in occ}, body))
        [] src.s = "record" /\ IsRecordType(src) -> AllGood(<<rows>>, Record(rows))
        [] OTHER -> AllGood(<<ast>>, Contract(ast))

TermMeaning(src) ==
  LET t   == TypeMeaning(src, {})
      ast == [i \in DOMAIN src.sub |-> TermMeaning(src.sub[i])]
      ann == TypeMeaning(src.sub[2], {})
  IN  CASE src.s = "var" -> VarAst(src.id)
        [] src.s = "literal" -> [n |-> "Num"]
        [] src.s = "app" -> AllGood(ast, [n |-> "App", head |-> ast[1], args |-> <<ast[2]>>])
        [] src.s = "annot" ->
             AllGood(<<ast[1], ann>>, [n |-> "Annot", inner |-> ast[1], typ |-> ann])
        [] src.s = "record" /\ ~(IsRecordType(src) /\ (src.fields # <<>> \/ src.tail # <<>>)) ->
             LiteralMeaning(src)
        [] OTHER -> AllGood(<<t>>, TypeAst(t))

(***************************************************************************)
(* Whatever the parser has read so far converts to what its text means, as *)
(* a term and as an annotation, and is rejected when the text has no       *)
(* meaning: no variable escapes or is caught by a forall on the wrong side *)
(* of a boundary, and the order of the conversions does not show           *)
(* (fix_type_vars, try_convert).                                           *)
(***************************************************************************)
ScopesRight ==
  LET term == IF IsBad(top.ut) THEN Bad ELSE into_ast(top.ut)
      type == IF IsBad(top.ut) THEN Bad ELSE FixedType(top.ut)
  IN  pool = <<>> => term = TermMeaning(top.src) /\ type = TypeMeaning(top.src, {})
=============================================================================
