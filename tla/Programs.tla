------------------------------ MODULE Programs ------------------------------
(***************************************************************************)
(* The syntax of programs, with what the typechecker asks of their patterns *)
(* and record literals.                                                    *)
(***************************************************************************)
EXTENDS Unify

-----------------------------------------------------------------------------
(***************************************************************************)
(* Patterns: the shape is in p, with an alias ("" for none).               *)
(***************************************************************************)
NoPat == [p |-> "none"]

AnyPat(id) == [p |-> "Any", alias |-> "", id |-> id]
ConstTypes == [Null |-> "Dyn", Bool |-> "Bool", Num |-> "Number", Str |-> "String"]

\* The identifiers a pattern binds (parser/src/ast/pattern/bindings.rs).
RECURSIVE bindings(_)
bindings(pat) ==
  LET sub == CASE pat.p = "Record" -> [i \in DOMAIN pat.fields |-> pat.fields[i].pat]
               [] pat.p \in {"Array", "Or"} -> pat.pats
               [] pat.p = "Enum" /\ pat.arg # NoPat -> <<pat.arg>>
               [] OTHER -> <<>>
      own == CASE pat.p = "Any" -> {pat.id}
               [] pat.p \in {"Record", "Array"} /\ pat.tail = "Capture" -> {pat.rest}
               [] OTHER -> {}
  IN  own \cup UNION {bindings(sub[i]) : i \in DOMAIN sub}
          \cup (IF pat.alias = "" THEN {} ELSE {pat.alias})

-----------------------------------------------------------------------------
(***************************************************************************)
(* Resolution of record literals (core/src/typecheck/record.rs): piecewise *)
(* definitions are grouped by field and paths broken into levels.  A       *)
(* shallow record has its static fields in order and its dynamic ones; a   *)
(* field has a resolved part and the definitions that end at it.           *)
(***************************************************************************)
Shallow(stat, dyn) == [stat |-> stat, dyn |-> dyn]
EmptyShallow == Shallow(<<>>, <<>>)
IsEmptyRecord(rec) == rec = EmptyShallow

FieldOf(rec, id) == rec.stat[CHOOSE i \in DOMAIN rec.stat : rec.stat[i].id = id].field
StatIds(rec) == {rec.stat[i].id : i \in DOMAIN rec.stat}

\* Combine: the fields of the left only, of the right only, then the common.
RECURSIVE combine_records(_, _)
combine_fields(f, g) ==
  [resolved |-> combine_records(f.resolved, g.resolved), defs |-> f.defs \o g.defs]
combine_records(a, b) ==
  LET only(x, y) == SelectSeq(x.stat, LAMBDA e : e.id \notin StatIds(y))
      both == SelectSeq(a.stat, LAMBDA e : e.id \in StatIds(b))
      merged == [i \in DOMAIN both |->
                   [both[i] EXCEPT !.field = combine_fields(@, FieldOf(b, both[i].id))]]
  IN  Shallow(only(a, b) \o only(b, a) \o merged, a.dyn \o b.dyn)

\* resolve for FieldDef: the levels below the first element of the path.
resolve_def(def) ==
  LET n == Len(def.path)
      f[i \in 0 .. n - 1] ==
        LET e == def.path[n + 1 - i]
        IN  IF i = 0 THEN [resolved |-> EmptyShallow, defs |-> <<def>>]
            ELSE [resolved |-> IF e.expr = NoAst
                               THEN Shallow(<<[id |-> e.id, field |-> f[i - 1]]>>, <<>>)
                               ELSE Shallow(<<>>, <<[expr |-> e.expr, field |-> f[i - 1]]>>),
                  defs |-> <<>>]
  IN  f[n - 1]

\* resolve for Record: insert_static_field keeps the place of a field.
resolve(record) ==
  LET place(rec, def) ==
        LET e == def.path[1]
            f == resolve_def(def)
        IN  IF e.expr # NoAst
            THEN [rec EXCEPT !.dyn = Append(@, [expr |-> e.expr, field |-> f])]
            ELSE IF e.id \in StatIds(rec)
            THEN [rec EXCEPT !.stat =
                    [i \in DOMAIN @ |-> IF @[i].id = e.id
                                        THEN [@[i] EXCEPT !.field = combine_fields(@, f)]
                                        ELSE @[i]]]
            ELSE [rec EXCEPT !.stat = Append(@, [id |-> e.id, field |-> f])]
      all[i \in 0 .. Len(record.defs)] ==
        IF i = 0 THEN EmptyShallow ELSE place(all[i - 1], record.defs[i])
  IN  all[Len(record.defs)]

----------------------------------------------------------------------------
(***************************************************************************)
(* Annotations: one, or those of the definitions of a field as if they had *)
(* been combined (AnnotSeqRef).                                            *)
(***************************************************************************)
NoAnnot == [typ |-> NoType, contracts |-> <<>>]
Annots(a) == Opt(a.typ) \o a.contracts   \* iter
FirstOf(s) == IF s = <<>> THEN NoType ELSE s[1]
first(a) == FirstOf(Annots(a))

\* The view of a piecewise definition; "order" is what iter goes through.
CombinedAnnots(defs) ==
  LET typs == FlattenSeq([i \in DOMAIN defs |-> Opt(defs[i].annot.typ)])
      ctrs == FlattenSeq([i \in DOMAIN defs |-> defs[i].annot.contracts])
      all  == FlattenSeq([i \in DOMAIN defs |-> Annots(defs[i].annot)])
  IN  [typ |-> FirstOf(typs), contracts |-> SubSeq(typs, 2, Len(typs)) \o ctrs,
       order |-> all]
AnnotView(a) == [typ |-> a.typ, contracts |-> a.contracts, order |-> Annots(a)]

\* first_annot: the first type of all definitions, or the first contract.
first_annot(defs) ==
  LET v == CombinedAnnots(defs)
      ctrs == FlattenSeq([i \in DOMAIN defs |-> defs[i].annot.contracts])
  IN  IF v.typ # NoType THEN v.typ ELSE FirstOf(ctrs)

DefValues(defs) == SelectSeq([i \in DOMAIN defs |-> defs[i].value], LAMBDA v : v # NoAst)

-----------------------------------------------------------------------------
(***************************************************************************)
(* The abstract syntax of programs (parser/src/ast), as the constructors   *)
(* of the terms that Typecheck, Semantics and Lowering work on.            *)
(***************************************************************************)
CONSTANT Imports \* what the import resolver finds: NoAst is not a program

\* A constant is a record with one field, named for its kind.
BoolC(b)  == [bool |-> b]
NumC(i)   == [num |-> i]
StrC(ws)  == [str |-> ws]
NullC     == [null |-> 0]
Null      == [n |-> "Null", v |-> NullC]
BoolT(b)  == [n |-> "Bool", v |-> BoolC(b)]
NumT(i)   == [n |-> "Num", v |-> NumC(i)]
StrT(w)   == [n |-> "Str", v |-> StrC(<<w>>)]
Chunks(args) == [n |-> "Chunks", args |-> args]
Var(id)   == [n |-> "Var", id |-> id]
Tag(tag)  == [n |-> "Enum", tag |-> tag, arg |-> NoAst]
Variant(tag, t) == [n |-> "Enum", tag |-> tag, arg |-> t]
App(f, args) == [n |-> "App", head |-> f, args |-> args]
Fun(args, body) == [n |-> "Fun", args |-> args, body |-> body]
Bind1(pat, annot, t) == [pat |-> pat, annot |-> annot, value |-> t]
LetIn(bs, rec, body) == [n |-> "Let", bs |-> bs, rec |-> rec, body |-> body]
Let1(pat, t, body) == LetIn(<<Bind1(pat, NoAnnot, t)>>, FALSE, body)
Branch(pat, body) == [pat |-> pat, guard |-> NoAst, body |-> body]
Guarded(pat, guard, body) == [pat |-> pat, guard |-> guard, body |-> body]
MatchT(branches) == [n |-> "Match", branches |-> branches]
If(c, t, e) == [n |-> "If", args |-> <<c, t, e>>]
Op(op, args) == [n |-> "Op", op |-> op, id |-> "", args |-> args]
OpId(op, id, args) == [n |-> "Op", op |-> op, id |-> id, args |-> args]
Access(t, id) == OpId("RecordStatAccess", id, <<t>>)
ArrayT(elts) == [n |-> "Array", elts |-> elts]
ImportT(file) == [n |-> "Import", file |-> file]
TypeT(typ) == [n |-> "Type", typ |-> typ]

NoMeta == [opt |-> FALSE, prio |-> 0]
HasType(typ) == [typ |-> typ, contracts |-> <<>>]
HasContract(typ) == [typ |-> NoType, contracts |-> <<typ>>]
Annot(annot, t) == [n |-> "Annot", annot |-> annot, inner |-> t]
FieldDef(path, annot, meta, t) == [path |-> path, annot |-> annot, meta |-> meta, value |-> t]
Def(id, t) == FieldDef(<<Ident(id)>>, NoAnnot, NoMeta, t)
Include(id, annot) == [id |-> id, annot |-> annot]
RecordT(defs, includes) == [n |-> "Record", defs |-> defs, includes |-> includes, open |-> FALSE]

WildPat == [p |-> "Wildcard", alias |-> ""]
TagPat(tag) == [p |-> "Enum", alias |-> "", tag |-> tag, arg |-> NoPat]
VariantPat(tag, pat) == [p |-> "Enum", alias |-> "", tag |-> tag, arg |-> pat]
ConstPat(of, val) == [p |-> "Const", alias |-> "", of |-> of, val |-> val]
OrPat(pats) == [p |-> "Or", alias |-> "", pats |-> pats]
ArrayPat(pats, tail, rest) == [p |-> "Array", alias |-> "", pats |-> pats, tail |-> tail, rest |-> rest]
FieldPat(id, annot, default, pat) == [id |-> id, annot |-> annot, default |-> default, pat |-> pat]
RecordPat(fields, tail, rest) ==
  [p |-> "Record", alias |-> "", fields |-> fields, tail |-> tail, rest |-> rest]
As(id, pat) == [pat EXCEPT !.alias = id]

Evaluated(s) == s \o <<>>  \* the same sequence, element by element
=============================================================================
