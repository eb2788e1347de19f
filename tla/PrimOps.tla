------------------------------ MODULE PrimOps -------------------------------
(***************************************************************************)
(* Run-time values and the primitive operations on them (operation.rs).    *)
(***************************************************************************)
EXTENDS Integers, Sequences, FiniteSets, TLC

-----------------------------------------------------------------------------
(***************************************************************************)
(* Evaluated values and static types, as far as the primitive operations   *)
(* tell them apart (core/src/eval/value/mod.rs, core/src/term/record.rs).  *)
(*                                                                         *)
(* Arrays, records and enum variants are lazy: what they hold is not       *)
(* evaluated, and all that is known of it is its static type.  A number is *)
(* twice its value, so that 1 is a half.  The elements of an operand are   *)
(* chosen from a few representatives of every type.                        *)
(***************************************************************************)
CONSTANTS Names,    \* field names, which are also strings
          Keys,     \* sealing keys
          MaxElems  \* bound on the length of an array

-----------------------------------------------------------------------------
(* Types                                                                   *)

TNumber == [ty |-> "Number"]
TBool == [ty |-> "Bool"]
TString == [ty |-> "String"]
TSym == [ty |-> "Symbol"]
TDyn == [ty |-> "Dyn"]
TErrorData == [ty |-> "Contract"]       \* error_data_type
TArray(t) == [ty |-> "Array", of |-> t]
TDict(t) == [ty |-> "Dict", of |-> t]
TArrow(s, t) == [ty |-> "Arrow", dom |-> s, cod |-> t]
TRecord(rows) == [ty |-> "Record", rows |-> rows]
TEnum(rows) == [ty |-> "Enum", rows |-> rows]
TRigidEnum == [ty |-> "RigidEnum"]      \* [| ; r |] with r a type constant

TExactly(v) == [ty |-> "Exactly", is |-> v]  \* of a value that is known
NoArg == [ty |-> "NoArg"]               \* a row of a tag without argument
Tags(names) == TEnum([n \in names |-> NoArg])

-----------------------------------------------------------------------------
(* Values                                                                  *)

Null == [t |-> "Null"]
Bool(b) == [t |-> "Bool", bool |-> b]
Num(n) == [t |-> "Number", num |-> n]
Str(s) == [t |-> "String", str |-> s]
Variant(tag, arg) == [t |-> "Enum", tag |-> tag, arg |-> arg]
Tag(tag) == Variant(tag, NoArg)
Fun(type) == [t |-> "Function", type |-> type]
Key(k) == [t |-> "SealingKey", key |-> k]
Label(pol, tvars) == [t |-> "Label", pol |-> pol, tvars |-> tvars]
Opaque(t) == [t |-> t]                  \* ForeignId, CustomContract, Type

\* A field: the type of its value or Undefined, whether it is optional, and
\* whether contracts wait to be applied to it.
Undefined == [ty |-> "Undefined"]
Field(val, opt, pending) == [val |-> val, opt |-> opt, pending |-> pending]
Defined(type) == Field(type, FALSE, FALSE)

\* SealedTail: the key and the sealed record, which is returned for that key.
NoTail == [key |-> "none", sealed |-> [fields |-> << >>]]
SealedTail(key, record) == [key |-> key, sealed |-> record]

\* RecordData in a value block, and the empty record inlined in a value.
RecordBlock(fields, open, frozen, tail) ==
    [t |-> "Record", inline |-> FALSE, fields |-> fields, open |-> open,
     frozen |-> frozen, tail |-> tail]
EmptyRecord == [RecordBlock(<< >>, FALSE, FALSE, NoTail) EXCEPT !.inline = TRUE]

\* NickelValue::record
Record(fields, open, frozen, tail) ==
    IF fields = << >> /\ tail = NoTail /\ ~open THEN EmptyRecord
    ELSE RecordBlock(fields, open, frozen, tail)

\* empty_record_block, empty_array_block: about to be modified
Allocated(v) == [v EXCEPT !.inline = FALSE]

ArrayBlock(elems, pending) ==
    [t |-> "Array", inline |-> FALSE, elems |-> elems, pending |-> pending]
EmptyArray == [ArrayBlock(<< >>, FALSE) EXCEPT !.inline = TRUE]

\* NickelValue::array
Array(elems, pending) ==
    IF elems = << >> THEN EmptyArray ELSE ArrayBlock(elems, pending)

is_empty_optional(f) == f.val = Undefined /\ f.opt
MissingDef(f) == f.val = Undefined /\ ~f.opt

\* field_names: what an operation of a kind (RecordOpKind) takes into account.
field_names(r, kind) ==
    {n \in DOMAIN r.fields : kind = "ConsiderAllFields" \/ ~is_empty_optional(r.fields[n])}

has_only_empty_opts(r) ==
    r.inline \/ (r.tail = NoTail /\ \A n \in DOMAIN r.fields : is_empty_optional(r.fields[n]))

\* Mutant: as precise as type_of.
type_tag_precise(v) == IF v.t = "Null" THEN "Other" ELSE v.t

\* type_tag, what typeof and cast say of a value
type_tag(v) == IF v.t \in {"Null", "SealingKey"} THEN "Other" ELSE v.t

Stringable(v) ==        \* to_nickel_string
    \/ v.t \in {"Null", "Bool", "String", "Number"}
    \/ v.t = "Enum" /\ v.arg = NoArg

-----------------------------------------------------------------------------
(* Representatives of the values of a type, and membership in a type.      *)

Numbers == {Num(n) : n \in {-2, 0, 1, 2}}
Bools == {Bool(TRUE), Bool(FALSE)}
Strings == {Str(s) : s \in Names \cup {"1", "("}}
Labels == {Label(p, ks) : p \in {"Positive", "Negative"}, ks \in SUBSET Keys}

Arrays(t) ==
    {EmptyArray, ArrayBlock(<< >>, FALSE)} \cup
    {ArrayBlock([i \in 1..n |-> t], p) : n \in 1..MaxElems, p \in BOOLEAN}

\* Records of one field: operations make larger ones of them.
Dicts(t) ==
    {EmptyRecord} \cup
    {RecordBlock(n :> f, FALSE, FALSE, NoTail) :
       n \in Names, f \in {Defined(t), Field(t, FALSE, TRUE), Field(Undefined, TRUE, FALSE),
                          Field(Undefined, FALSE, FALSE)}}

\* One value of every kind, and what operations on Dyn expect.
Untyped ==
    {Null, Num(2), Tag("Ok"), Variant("Ok", TDyn), Variant("Error", TDyn), Fun(TArrow(TDyn, TDyn)),
     Opaque("ForeignId"), Opaque("CustomContract"), Opaque("Type"), ArrayBlock(<<TDyn>>, FALSE),
     RecordBlock(<< >>, TRUE, FALSE, NoTail)}
    \cup {Key(k) : k \in Keys}
    \cup {Label("Positive", ks) : ks \in {{}, Keys}}

\* What an expression of a static type may evaluate to.
AnyOf(type) ==
    CASE type = TNumber -> Numbers
      [] type = TBool -> Bools
      [] type = TString -> Strings
      [] type = TSym -> {Key(k) : k \in Keys}
      [] type = TRigidEnum -> {Tag("x")}
      [] type.ty = "Array" -> Arrays(type.of)
      [] type.ty = "Dict" -> Dicts(type.of)
      [] type.ty = "Arrow" -> {Fun(type)}
      [] type.ty = "Exactly" -> {type.is}
      [] type.ty = "Record" ->
            {Record([n \in DOMAIN type.rows |-> Defined(type.rows[n])], FALSE, FALSE, NoTail)}
      [] type.ty = "Enum" -> {Variant(tag, type.rows[tag]) : tag \in DOMAIN type.rows}
      [] OTHER -> Untyped

\* The values that a static type admits, and the components: those of which
\* only the type is known fit that type, and Dyn.
RECURSIVE Inhabits(_, _)
Fits(component, type) ==
    IF component.ty = "Exactly" THEN Inhabits(component.is, type) ELSE type \in {TDyn, component}

Inhabits(v, type) ==
    CASE type = TNumber -> v.t = "Number"
      [] type = TBool -> v.t = "Bool"
      [] type = TString -> v.t = "String"
      [] type = TSym -> v.t = "SealingKey"
      [] type = TRigidEnum -> v.t = "Enum"
      [] type.ty = "Array" -> v.t = "Array" /\ \A i \in DOMAIN v.elems : Fits(v.elems[i], type.of)
      [] type.ty = "Dict" ->
            /\ v.t = "Record"
            /\ \A n \in DOMAIN v.fields :
                 v.fields[n].val = Undefined \/ Fits(v.fields[n].val, type.of)
      [] type.ty = "Arrow" -> v.t = "Function" /\ type \in {v.type, TArrow(TDyn, TDyn)}
      [] type.ty = "Record" ->
            /\ v.t = "Record"
            /\ DOMAIN v.fields = DOMAIN type.rows
            /\ \A n \in DOMAIN v.fields : Fits(v.fields[n].val, type.rows[n])
      [] type.ty = "Enum" ->
            /\ v.t = "Enum"
            /\ v.tag \in DOMAIN type.rows
            /\ IF v.arg = NoArg THEN type.rows[v.tag] = NoArg
               ELSE type.rows[v.tag] # NoArg /\ Fits(v.arg, type.rows[v.tag])
      [] OTHER -> TRUE

-----------------------------------------------------------------------------
(***************************************************************************)
(* The primitive operations (core/src/eval/operation.rs).  An operator     *)
(* takes the evaluated arguments `a` and the types of the unevaluated      *)
(* arguments `l` on the stack, and gives the set of possible outcomes: an  *)
(* evaluated result, or an error.  Where evaluation goes on with an        *)
(* unevaluated expression, that is any value of its type, or an error.     *)
(* What is computed from numbers and strings is any number or string: only *)
(* bounds, field names and formats are tracked.                            *)
(***************************************************************************)
Ok(values) == {[out |-> "value", val |-> v] : v \in values}
Err(kind) == {[out |-> kind]}
TypeError(i) == {[out |-> "TypeError", arg |-> i]}
NotEnoughArgs == Err("NotEnoughArgs")

\* mk_type_error: argument i has to be of a kind.
On(v, kind, i, Result) == IF v.t = kind THEN Result ELSE TypeError(i)

\* pop_arg: an argument that is not evaluated is taken from the stack.
Pop(l, Result) == IF l = << >> THEN NotEnoughArgs ELSE Result

\* Evaluation goes on with an expression of a type, under the contracts that
\* are pending on it.
Cont(type) == Ok(AnyOf(type))
ContWithCtrs(type, pending) == Cont(type) \cup (IF pending THEN Err("Blame") ELSE {})

\* A number as an index: usize::try_from fails on a fraction or below zero.
IsIndex(v) == v.num >= 0 /\ v.num % 2 = 0
Index(v) == v.num \div 2

-----------------------------------------------------------------------------
(* Unary operations                                                        *)

IfThenElse(a, l) ==
    On(a[1], "Bool", 1, IF a[1].bool THEN Cont(l[1]) ELSE Cont(l[2]))

Typeof(a, l) == Ok({Tag(type_tag(a[1]))})

Cast(a, l) == Ok({Variant(type_tag(a[1]), TExactly(a[1]))})

\* Only the first operand of a Boolean operator is checked.
BoolAnd(a, l) ==
    Pop(l, On(a[1], "Bool", 1, IF a[1].bool THEN Cont(l[1]) ELSE Ok({a[1]})))
BoolOr(a, l) ==
    Pop(l, On(a[1], "Bool", 1, IF a[1].bool THEN Ok({a[1]}) ELSE Cont(l[1])))
BoolNot(a, l) == On(a[1], "Bool", 1, Ok({Bool(~a[1].bool)}))

Blame(a, l) == On(a[1], "Label", 1, Err("Blame"))

EnumEmbed(a, l) == On(a[1], "Enum", 1, Ok({a[1]}))

LabelFlipPol(a, l) ==
    On(a[1], "Label", 1,
       Ok({[a[1] EXCEPT !.pol = IF @ = "Positive" THEN "Negative" ELSE "Positive"]}))
LabelPol(a, l) == On(a[1], "Label", 1, Ok({Tag(a[1].pol)}))

\* go_dom, go_codom, go_array, go_dict: the path of a label is not tracked.
LabelGo(a, l) == On(a[1], "Label", 1, Ok({a[1]}))
LabelPushDiag(a, l) == On(a[1], "Label", 1, Ok({a[1]}))

\* iter_without_opts: the defined fields, or an error if one is missing.
DefinedFields(r) == {n \in DOMAIN r.fields : r.fields[n].val # Undefined}
SomeMissing(r) == \E n \in DOMAIN r.fields : MissingDef(r.fields[n])

\* get_value_with_ctrs, and what an access makes of its result
AccessField(r, n) ==
    IF n \in DOMAIN r.fields /\ MissingDef(r.fields[n]) THEN Err("MissingFieldDef")
    ELSE IF n \in DOMAIN r.fields /\ r.fields[n].val # Undefined
    THEN ContWithCtrs(r.fields[n].val, r.fields[n].pending)
    ELSE IF n \in DOMAIN r.tail.sealed.fields THEN Err("IllegalTail")
    ELSE Err("FieldMissing")

RecordAccess(id, a, l) == On(a[1], "Record", 1, AccessField(a[1], id))

RecordFields(kind, a, l) ==
    On(a[1], "Record", 1,
       Ok({Array([i \in 1..Cardinality(field_names(a[1], kind)) |-> TString], FALSE)}))

\* The values of a set of fields, in some order.
Enumerations(S) == {e \in [1..Cardinality(S) -> S] : \A i, j \in DOMAIN e : e[i] = e[j] => i = j}

RecordValues(a, l) ==
    On(a[1], "Record", 1,
       IF SomeMissing(a[1]) THEN Err("MissingFieldDef")
       ELSE Ok({Array([i \in DOMAIN e |-> a[1].fields[e[i]].val], FALSE) :
                  e \in Enumerations(DefinedFields(a[1]))}))

ArrayMap(a, l) ==
    Pop(l, On(a[1], "Array", 1,
       IF a[1].inline THEN Ok({a[1]})
       ELSE Ok({Array([i \in DOMAIN a[1].elems |-> l[1].cod], FALSE)})))

ArrayGen(a, l) ==
    Pop(l, On(a[1], "Number", 1,
       IF ~IsIndex(a[1]) THEN Err("Other")
       ELSE Ok({Array([i \in 1..Index(a[1]) |-> l[1].cod], FALSE)})))

\* Mapping applies the pending contracts, leaves out the optional fields
\* without value, and freezes the record.
RecordMap(a, l) ==
    LET r == a[1] IN
    Pop(l, On(r, "Record", 1,
       IF r.inline THEN Ok({r})
       ELSE IF r.tail # NoTail THEN Err("IllegalTail")
       ELSE IF SomeMissing(r) THEN Err("MissingFieldDef")
       ELSE Ok({Record([n \in DefinedFields(r) |->
                          Field(l[1].cod.cod, r.fields[n].opt, FALSE)],
                       r.open, TRUE, NoTail)})))

Seq1(a, l) == Pop(l, Cont(l[1]))

\* deep_seq evaluates what the value holds, one after the other, before it
\* takes the next argument; a non-empty record without a defined field leaves
\* it no term to begin with.
DeepSeq(a, l) ==
    LET v == a[1]
        holds == \/ v.t = "Record" /\ DefinedFields(v) # {}
                 \/ v.t = "Array" /\ v.elems # << >>
                 \/ v.t = "Enum" /\ v.arg # NoArg
    IN  IF v.t = "Record" /\ SomeMissing(v) THEN Err("MissingFieldDef")
        ELSE IF v.t = "Record" /\ v.fields # << >> /\ DefinedFields(v) = {} THEN Err("Panic")
        ELSE Pop(l, Cont(l[1])) \cup (IF holds THEN Err("Other") ELSE {})

ArrayLength(a, l) == On(a[1], "Array", 1, Ok({Num(2 * Len(a[1].elems))}))

\* ChunksConcat, on one interpolated value
ChunksConcat(a, l) == IF Stringable(a[1]) THEN Ok(Strings) ELSE TypeError(1)

\* trim, uppercase, lowercase
StringToString(a, l) == On(a[1], "String", 1, Ok(Strings))
StringChars(a, l) ==
    On(a[1], "String", 1, Ok({Array([i \in 1..n |-> TString], FALSE) : n \in 0..MaxElems}))
StringLength(a, l) == On(a[1], "String", 1, Ok({Num(2 * n) : n \in 0..MaxElems}))
ToStringOp(a, l) == IF Stringable(a[1]) THEN Ok(Strings) ELSE Err("Other")
NumberFromString(a, l) ==
    On(a[1], "String", 1, IF a[1].str = "1" THEN Ok({Num(2)}) ELSE Err("Other"))
EnumFromString(a, l) == On(a[1], "String", 1, Ok({Tag(a[1].str)}))

\* The three regex operations compile their first argument and give back a
\* function that matches the second.
RegexOp(a, l, Matches) ==
    On(a[1], "String", 1,
       IF a[1].str = "(" THEN Err("Other")
       ELSE Pop(l, IF l[1] = TString THEN Matches ELSE TypeError(2)))

TMatch == TRecord([matched |-> TString, index |-> TNumber, groups |-> TArray(TString)])

StringIsMatch(a, l) == RegexOp(a, l, Ok(Bools))
StringFind(a, l) == RegexOp(a, l, Ok(AnyOf(TMatch)))
StringFindAll(a, l) ==
    RegexOp(a, l, Ok({Array([i \in 1..n |-> TMatch], FALSE) : n \in 0..MaxElems}))

\* Force: as the value, with its components evaluated and the pending
\* contracts applied.
Force(a, l) ==
    LET v == a[1] IN
    IF v.t = "Record" /\ ~v.inline
    THEN IF SomeMissing(v) THEN Err("MissingFieldDef")
         ELSE Ok({Record([n \in DefinedFields(v) |-> [v.fields[n] EXCEPT !.pending = FALSE]],
                         v.open, v.frozen, v.tail)})
    ELSE IF v.t = "Array" THEN Ok({Array(v.elems, FALSE)})
    ELSE Ok({v})

RecordEmptyWithTail(a, l) ==
    On(a[1], "Record", 1, Ok({Record(<< >>, FALSE, FALSE, a[1].tail)}))

\* A record that is frozen is returned at once; a debug build asserts that it
\* has no sealed tail.
RecordFreeze(a, l) ==
    LET r == a[1] IN
    On(r, "Record", 1,
       IF r.inline \/ r.frozen THEN Ok({r}) \cup (IF r.tail # NoTail THEN Err("Panic") ELSE {})
       ELSE IF r.tail # NoTail THEN Err("IllegalTail")
       ELSE Ok({Record([n \in DOMAIN r.fields |-> [r.fields[n] EXCEPT !.pending = FALSE]],
                       r.open, TRUE, NoTail)}))

Trace(a, l) == On(a[1], "String", 1, Pop(l, Cont(l[1])))

EnumGetArg(a, l) ==
    IF a[1].t = "Enum" /\ a[1].arg # NoArg THEN Cont(a[1].arg) ELSE TypeError(1)
EnumMakeVariant(a, l) == On(a[1], "String", 1, Pop(l, Ok({Variant(a[1].str, l[1])})))
EnumGetTag(a, l) == On(a[1], "Enum", 1, Ok({Tag(a[1].tag)}))
EnumIsVariant(a, l) == Ok({Bool(a[1].t = "Enum" /\ a[1].arg # NoArg)})

ContractCustom(a, l) == On(a[1], "Function", 1, Ok({Opaque("CustomContract")}))

\* What a custom contract returned: the checked value, or the data of an error
\* to attach to the label and to blame with.
ContractPostprocessResult(a, l) ==
    IF a[1].t = "Enum" /\ a[1].arg # NoArg /\ a[1].tag = "Ok" THEN Cont(a[1].arg)
    ELSE IF a[1].t = "Enum" /\ a[1].arg # NoArg /\ a[1].tag = "Error" THEN Err("Blame")
    ELSE TypeError(1)

\* number_op1: the result of a floating-point function may not be a number.
number_op1(a, l) == On(a[1], "Number", 1, Ok(Numbers) \cup Err("Other"))

-----------------------------------------------------------------------------
(* Binary operations                                                       *)

\* Both arguments, checked from left to right.
On2(a, kind1, kind2, Result) == On(a[1], kind1, 1, On(a[2], kind2, 2, Result))

Seal(a, l) == On2(a, "SealingKey", "Label", Ok({Fun(TArrow(TDyn, TDyn))}))

number_op2(a, l) == On2(a, "Number", "Number", Ok(Numbers))
number_cmp2(a, l) == On2(a, "Number", "Number", Ok(Bools))

\* Div, Modulo
DivOp(a, l) ==
    On2(a, "Number", "Number", IF a[2].num = 0 THEN Err("Other") ELSE Ok(Numbers))
\* NumberArcTan2, NumberLog, Pow: through floating-point numbers
FloatOp2(a, l) == On2(a, "Number", "Number", Ok(Numbers) \cup Err("Other"))

StringConcat(a, l) == On2(a, "String", "String", Ok(Strings))

\* The contract of a type is evaluated first, then takes its place.
ContractsOf(v) ==
    IF v.t = "Type" THEN {Fun(TArrow(TDyn, TDyn)), Opaque("CustomContract"), EmptyRecord} ELSE {v}

ApplyContract(ctr, a, l, OfFunction, OfCustom) ==
    On(a[2], "Label", 2,
       Pop(l, IF ctr.t = "Function" THEN OfFunction
              ELSE IF ctr.t \in {"CustomContract", "Record"} THEN OfCustom
              ELSE TypeError(1)))

\* A custom contract or a record contract has its result post-processed.
ContractApply(a, l) ==
    UNION {ApplyContract(ctr, a, l, Cont(TDyn) \cup Err("Blame"),
                         UNION {ContractPostprocessResult(<<r>>, <<TDyn>>) : r \in Untyped})
             : ctr \in ContractsOf(a[1])}

TContractRet == TEnum([Ok |-> TDyn, Error |-> TErrorData])

\* ContractCheck attaches a default label to the data of an error.
ContractCheck(a, l) ==
    LET checked == Ok(AnyOf(TContractRet)) \cup TypeError(1) \cup Err("Other")
    IN  UNION {ApplyContract(ctr, a, l, checked, checked) : ctr \in ContractsOf(a[1])}

LabelWithErrorData(a, l) ==
    On(a[2], "Label", 2,
       On(a[1], "Record", 1,
          (IF a[1].inline THEN {} ELSE Ok(Labels) \cup TypeError(1)) \cup Ok({a[2]})))

\* The last argument blames: it is dropped when the key fits the seal.  A
\* sealed term is not a value of the model, so it is not reached here.
Unseal(a, l) == On(a[1], "SealingKey", 1, Pop(l, Cont(l[1]) \cup Err("Blame")))

\* eq: components are compared one after the other, in any order of names.
gen_eqs(pairs) ==
    IF pairs = {} THEN Ok({Bool(TRUE)})
    ELSE Ok(Bools) \cup Err("MissingFieldDef") \cup Err("IncomparableValues")

\* Two labels may differ in what the model leaves out.
eq_scalars(v, w) == Ok(IF v.t = "Label" /\ v = w THEN Bools ELSE {Bool(v = w)})

eq_variants(v, w) ==
    IF v.tag = w.tag /\ v.arg # NoArg /\ w.arg # NoArg THEN gen_eqs({v.tag}) ELSE Ok({Bool(v = w)})

\* Optional fields without value do not count; an inlined record equals only
\* one without any other field and without sealed tail.
eq_records(v, w) ==
    LET only(r, s) == DOMAIN r.fields \ DOMAIN s.fields
        center == DOMAIN v.fields \cap DOMAIN w.fields
        undefined(r) == {n \in center : r.fields[n].val = Undefined}
    IN  IF has_only_empty_opts(v) /\ has_only_empty_opts(w) THEN Ok({Bool(TRUE)})
        ELSE IF \/ v.inline \/ w.inline
                \/ \E n \in only(v, w) : ~is_empty_optional(v.fields[n])
                \/ \E n \in only(w, v) : ~is_empty_optional(w.fields[n])
        THEN Ok({Bool(FALSE)})
        ELSE IF undefined(v) # undefined(w) THEN Err("MissingFieldDef")
        ELSE gen_eqs(center \ undefined(v))

eq_arrays(v, w) ==
    IF Len(v.elems) = Len(w.elems) THEN gen_eqs(DOMAIN v.elems) ELSE Ok({Bool(FALSE)})

\* What a comparison answers once the components have been compared.
Eq(a, l) ==
    LET v == a[1]
        w == a[2]
    IN  CASE v.t # w.t -> Ok({Bool(FALSE)})
          [] v.t = w.t /\ v.t \in {"Function", "ForeignId", "CustomContract"} ->
               Err("IncomparableValues")
          [] v.t = w.t /\ v.t = "Enum" -> eq_variants(v, w)
          [] v.t = w.t /\ v.t = "Record" -> eq_records(v, w)
          [] v.t = w.t /\ v.t = "Array" -> eq_arrays(v, w)
          [] v.t = w.t /\ v.t = "Type" -> Ok({Bool(FALSE)})
          [] OTHER -> eq_scalars(v, w)

LabelGoField(a, l) == On2(a, "String", "Label", Ok({a[2]}))

RecordGet(a, l) == On2(a, "String", "Record", AccessField(a[2], a[1].str))

\* Mutant: an optional field without value is in the way whatever the kind.
RecordInsertStrict(kind, a, l) ==
    On2(a, "String", "Record",
       Pop(l, IF a[1].str \in DOMAIN a[2].fields THEN Err("Other")
              ELSE Ok({[Allocated(a[2]) EXCEPT !.fields = a[1].str :> Defined(l[1]) @@ @]})))

RecordInsert(kind, a, l) ==
    On2(a, "String", "Record",
       Pop(l, IF a[1].str \in field_names(a[2], kind) THEN Err("Other")
              ELSE Ok({[Allocated(a[2]) EXCEPT !.fields = a[1].str :> Defined(l[1]) @@ @]})))

Restricted(fields, names) == [n \in names |-> fields[n]]

RecordRemove(kind, a, l) ==
    LET n == a[1].str IN
    On2(a, "String", "Record",
       IF n \in field_names(a[2], kind)
       THEN Ok({[Allocated(a[2]) EXCEPT !.fields = Restricted(@, DOMAIN @ \ {n})]})
       ELSE IF n \in DOMAIN a[2].tail.sealed.fields THEN Err("IllegalTail")
       ELSE Err("FieldMissing"))

RecordHasField(kind, a, l) ==
    On2(a, "String", "Record", Ok({Bool(a[1].str \in field_names(a[2], kind))}))

RecordFieldIsDefined(kind, a, l) ==
    On2(a, "String", "Record",
       Ok({Bool(a[1].str \in DefinedFields(a[2]) \cap field_names(a[2], kind))}))

\* An empty operand that is inlined leaves the other as it is; pending
\* contracts are kept if the two arrays have the same.
ArrayConcat(a, l) ==
    On2(a, "Array", "Array",
       IF a[1].inline THEN Ok({a[2]})
       ELSE IF a[2].inline THEN Ok({a[1]})
       ELSE Ok({Array(a[1].elems \o a[2].elems, p) : p \in {FALSE, a[1].pending /\ a[2].pending}}))

ArrayAt(a, l) ==
    On2(a, "Array", "Number",
       IF ~IsIndex(a[2]) \/ Index(a[2]) >= Len(a[1].elems) THEN Err("Other")
       ELSE ContWithCtrs(a[1].elems[Index(a[2]) + 1], a[1].pending))

\* merge of values without components is idempotent.
merge_scalars(v, w) ==
    (IF v = w THEN Ok({v}) ELSE {}) \cup
    (IF v # w \/ v.t = "Label" THEN Err("MergeIncompatibleArgs") ELSE {})

merge_variants(v, w) ==
    IF v.tag # w.tag \/ (v.arg = NoArg) # (w.arg = NoArg) THEN Err("MergeIncompatibleArgs")
    ELSE Ok({IF v.arg = NoArg THEN v ELSE Variant(v.tag, TDyn)})

\* Arrays are merged by the contract that the second equals the first.
merge_arrays(v, w) ==
    Err("Blame") \cup (IF Len(v.elems) = Len(w.elems) THEN Ok({Array(w.elems, FALSE)}) ELSE {})

\* merge_fields: the priorities decide on the value if both have one.
merge_fields(f, g) ==
    {Field(val, f.opt /\ g.opt, f.pending \/ g.pending) :
       val \in IF f.val = Undefined THEN {g.val} ELSE IF g.val = Undefined THEN {f.val}
               ELSE {f.val, g.val, TDyn}}

\* The fields of two records, put together in every possible way.
merge_records(v, w) ==
    LET both == DOMAIN v.fields \cap DOMAIN w.fields
        merged == {f \in [both -> UNION {merge_fields(v.fields[n], w.fields[n]) : n \in both}] :
                     \A n \in both : f[n] \in merge_fields(v.fields[n], w.fields[n])}
    IN  {Record(f @@ v.fields @@ w.fields, v.open \/ w.open, v.frozen /\ w.frozen, NoTail) : f \in merged}

\* A closed record contract has no room for other fields: an error value, not
\* an exception.  An inlined empty record is merged without this check.
ExtraFields(v, w, contract) ==
    contract /\ ~w.open /\ ~(DOMAIN v.fields \subseteq DOMAIN w.fields)

\* In a contract merge a result is wrapped.
wrap_in_ok(outcomes, contract) ==
    {IF contract /\ r.out = "value" THEN [r EXCEPT !.val = Variant("Ok", TExactly(@))] ELSE r :
       r \in outcomes}

merge_record_values(v, w, contract) ==
    IF v.inline \/ w.inline THEN wrap_in_ok(Ok({IF v.inline THEN w ELSE v}), contract)
    ELSE IF v.tail # NoTail \/ w.tail # NoTail THEN Err("IllegalTail")
    ELSE IF ExtraFields(v, w, contract) THEN Ok({Variant("Error", TDyn)})
    ELSE wrap_in_ok(Ok(merge_records(v, w)), contract)

\* merge: the second operand is the contract when a record contract is applied.
merge(v, w, contract) ==
    CASE v.t # w.t -> Err("MergeIncompatibleArgs")
      [] v.t = w.t /\ v.t = "Record" -> merge_record_values(v, w, contract)
      [] v.t = w.t /\ v.t = "Enum" -> wrap_in_ok(merge_variants(v, w), contract)
      [] v.t = w.t /\ v.t = "Array" -> wrap_in_ok(merge_arrays(v, w), contract)
      [] v.t = w.t /\ v.t \in {"Null", "Bool", "Number", "String", "Label"} ->
           wrap_in_ok(merge_scalars(v, w), contract)
      [] OTHER -> Err("MergeIncompatibleArgs")

MergeOp(a, l) == merge(a[1], a[2], FALSE)

\* A format, or another enumerated parameter, given as a tag.
TagParam(v, tags, Result) ==
    IF v.t = "Enum" /\ v.arg = NoArg /\ v.tag \in tags THEN Result ELSE TypeError(1)

HashTags == {"Md5", "Sha1", "Sha256", "Sha512"}
Formats == {"Json", "Toml", "Yaml", "YamlDocuments"}
Base64Variants == {"Standard", "UrlSafe", "NoPad", "UrlSafeNoPad"}

\* The string is checked before the tag is looked at.
Hash(a, l) ==
    IF a[1].t = "Enum" /\ a[1].arg = NoArg
    THEN On(a[2], "String", 2, TagParam(a[1], HashTags, Ok(Strings)))
    ELSE TypeError(1)

Serialize(a, l) == TagParam(a[1], Formats, Ok(Strings) \cup Err("NonSerializable"))

Deserialize(a, l) ==
    IF a[1].t = "Enum" /\ a[1].arg = NoArg
    THEN On(a[2], "String", 2, TagParam(a[1], Formats, Cont(TDyn) \cup Err("Other")))
    ELSE TypeError(1)

StringSplit(a, l) ==
    On2(a, "String", "String", Ok({Array([i \in 1..n |-> TString], FALSE) : n \in 0..MaxElems}))
StringContains(a, l) == On2(a, "String", "String", Ok(Bools))
StringCompare(a, l) ==
    On2(a, "String", "String", Ok({Tag(t) : t \in {"Lesser", "Equal", "Greater"}}))

TDecoded == TEnum([Ok |-> TString, Error |-> TRecord([message |-> TString])])

StringBase64Encode(a, l) ==
    IF a[1].t = "Enum" /\ a[1].arg = NoArg
    THEN On(a[2], "String", 2, TagParam(a[1], Base64Variants, Ok(Strings)))
    ELSE TypeError(1)
StringBase64Decode(a, l) ==
    IF a[1].t = "Enum" /\ a[1].arg = NoArg
    THEN On(a[2], "String", 2, TagParam(a[1], Base64Variants, Ok(AnyOf(TDecoded))))
    ELSE TypeError(1)

\* The contract is the argument on the stack: a label, an array, a contract.
ContractArrayLazyApp(a, l) ==
    Pop(l, On2(a, "Label", "Array", Ok({[Allocated(a[2]) EXCEPT !.pending = TRUE]})))

\* Lazy contracts unfreeze a record, whose recursive fields are then computed
\* anew.
ContractRecordLazyApp(a, l) ==
    Pop(l, On2(a, "Label", "Record",
       IF a[2].inline THEN Ok({EmptyRecord})
       ELSE Ok({Record([n \in DOMAIN a[2].fields |-> [a[2].fields[n] EXCEPT !.pending = TRUE]],
                       a[2].open, FALSE, a[2].tail)})))

\* with_message, append_note
LabelWithText(a, l) == On2(a, "String", "Label", Ok({a[2]}))
\* The notes have been forced by the caller.
LabelWithNotes(a, l) ==
    On2(a, "Array", "Label",
       IF \A i \in DOMAIN a[1].elems : a[1].elems[i] = TString THEN Ok({a[2]})
       ELSE Ok({a[2]}) \cup TypeError(1))

TPolarity == Tags({"Positive", "Negative"})
TTypeVarData == TRecord([polarity |-> TPolarity])

LabelLookupTypeVar(a, l) ==
    On2(a, "SealingKey", "Label",
       IF a[1].key \in a[2].tvars THEN Ok(AnyOf(TTypeVarData)) ELSE Err("Panic"))

\* What only one record has keeps its attributes and its tail; what both have
\* loses them.
RecordSplitPair(a, l) ==
    LET both == DOMAIN a[1].fields \cap DOMAIN a[2].fields
        only(r) == Record(Restricted(r.fields, DOMAIN r.fields \ both), r.open, r.frozen, r.tail)
        center(r) == Record(Restricted(r.fields, both), FALSE, FALSE, NoTail)
        parts == [left_only |-> only(a[1]), left_center |-> center(a[1]),
                  right_center |-> center(a[2]), right_only |-> only(a[2])]
    IN  On2(a, "Record", "Record",
           Ok({Record([n \in DOMAIN parts |-> Defined(TExactly(parts[n]))], FALSE, FALSE, NoTail)}))

\* The fields of the second record win; one sealed tail is kept.
RecordDisjointMerge(a, l) ==
    LET r1 == a[1]
        r2 == a[2]
    IN  On2(a, "Record", "Record",
           IF r1.inline THEN Ok({r2})
           ELSE IF r2.inline THEN Ok({r1})
           ELSE IF r1.tail # NoTail /\ r2.tail # NoTail THEN Err("IllegalTail")
           ELSE Ok({Record(r2.fields @@ r1.fields, r1.open \/ r2.open, r1.frozen /\ r2.frozen,
                           IF r1.tail # NoTail THEN r1.tail ELSE r2.tail)}))

-----------------------------------------------------------------------------
(* Operations with more arguments                                          *)

StringReplace(regex, a, l) ==
    On2(a, "String", "String",
       On(a[3], "String", 3,
          IF regex /\ a[2].str = "(" THEN Err("Other") ELSE Ok(Strings)))

\* substring: the bounds are checked against the string.
StringSubstr(a, l) ==
    On2(a, "String", "Number",
       On(a[3], "Number", 3, Err("Other") \cup
          IF IsIndex(a[2]) /\ IsIndex(a[3]) /\ a[2].num <= a[3].num THEN Ok(Strings) ELSE {}))

MergeContract(a, l) ==
    IF a[1].t = "Label" THEN merge(a[2], a[3], TRUE) ELSE Err("InternalError")

RecordSealTail(a, l) ==
    On2(a, "SealingKey", "Label",
       On(a[3], "Record", 3, On(a[4], "Record", 4,
          Ok({[Allocated(a[3]) EXCEPT !.tail = SealedTail(a[1].key, a[4])]}))))

\* Mutant: the key is not compared.
UnsealWithAnyKey(a, l) ==
    On2(a, "SealingKey", "Label",
       On(a[3], "Record", 3, IF a[3].tail # NoTail THEN Ok({a[3].tail.sealed}) ELSE Err("Blame")))

\* The sealed record is given back for the key it was sealed with.
RecordUnsealTail(a, l) ==
    On2(a, "SealingKey", "Label",
       On(a[3], "Record", 3,
          IF a[3].tail # NoTail /\ a[3].tail.key = a[1].key
          THEN Ok({a[3].tail.sealed})
          ELSE Err("Blame")))

LabelInsertTypeVar(a, l) ==
    On(a[1], "SealingKey", 1,
       IF a[2] \notin {Tag("Positive"), Tag("Negative")} THEN TypeError(2)
       ELSE On(a[3], "Label", 3, Ok({[a[3] EXCEPT !.tvars = @ \cup {a[1].key}]})))

ArraySlice(a, l) ==
    On2(a, "Number", "Number",
       On(a[3], "Array", 3,
          IF IsIndex(a[1]) /\ IsIndex(a[2]) /\ a[1].num <= a[2].num /\ Index(a[2]) <= Len(a[3].elems)
          THEN Ok({[Allocated(a[3]) EXCEPT !.elems = SubSeq(@, Index(a[1]) + 1, Index(a[2]))]})
          ELSE Err("Other")))
=============================================================================
