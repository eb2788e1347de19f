----------------------------- MODULE Operations -----------------------------
(***************************************************************************)
(* The types of the primitive operations (typecheck/operation.rs), and     *)
(* programs made of them.                                                  *)
(***************************************************************************)
EXTENDS PrimOps, SequencesExt

-----------------------------------------------------------------------------
(***************************************************************************)
(* The static types of the primitive operations                            *)
(* (core/src/typecheck/operation.rs): of the arguments that are evaluated  *)
(* first, of those left on the stack, and of the result.  The type         *)
(* variables are `a` and `b`.                                              *)
(***************************************************************************)
Sig(strict, lazy, cod) == [strict |-> strict, lazy |-> lazy, cod |-> cod]

TypeTags == {"Number", "Bool", "String", "Enum", "Function", "CustomContract", "Array", "Record",
             "Label", "ForeignId", "Type", "Other"}

TTypeof == Tags(TypeTags)
TCast ==
    TEnum([Number |-> TNumber, Bool |-> TBool, String |-> TString,
           Function |-> TArrow(TDyn, TDyn), Array |-> TArray(TDyn), Record |-> TDict(TDyn)]
          @@ [tag \in TypeTags |-> TDyn])

\* A parametric enumeration [| 'Ok Dyn |] stands for the rows of enum/embed.
EmbeddedRows == [Ok |-> TDyn]

BasicTypes(a) ==
    [Typeof |-> Sig(<<TDyn>>, << >>, TTypeof),
     Cast |-> Sig(<<TDyn>>, << >>, TCast),
     BoolAndOr |-> Sig(<<TBool>>, <<TBool>>, TBool),
     BoolNot |-> Sig(<<TBool>>, << >>, TBool),
     Blame |-> Sig(<<TDyn>>, << >>, a),
     LabelPol |-> Sig(<<TDyn>>, << >>, TPolarity),
     EnumEmbed |-> Sig(<<TEnum(EmbeddedRows)>>, << >>, TEnum(EmbeddedRows @@ ("x" :> NoArg))),
     LabelToLabel |-> Sig(<<TDyn>>, << >>, TDyn)]

ContainerTypes(a, b) ==
    [ArrayMap |-> Sig(<<TArray(a)>>, <<TArrow(a, b)>>, TArray(b)),
     ArrayGen |-> Sig(<<TNumber>>, <<TArrow(TNumber, a)>>, TArray(a)),
     RecordMap |-> Sig(<<TDict(a)>>, <<TArrow(TString, TArrow(a, b))>>, TDict(b)),
     Seq |-> Sig(<<a>>, <<b>>, b),
     ArrayLength |-> Sig(<<TArray(a)>>, << >>, TNumber),
     RecordFields |-> Sig(<<TDict(a)>>, << >>, TArray(TString)),
     RecordValues |-> Sig(<<TDict(a)>>, << >>, TArray(a))]

\* The access of a field by name: other rows may follow.
RecordStatAccess(id, a, rows) == Sig(<<TRecord(id :> a @@ rows)>>, << >>, a)

StringTypes ==
    [StringToString |-> Sig(<<TString>>, << >>, TString),
     StringChars |-> Sig(<<TString>>, << >>, TArray(TString)),
     StringLength |-> Sig(<<TString>>, << >>, TNumber),
     ToString |-> Sig(<<TDyn>>, << >>, TString),
     NumberFromString |-> Sig(<<TString>>, << >>, TNumber),
     EnumFromString |-> Sig(<<TString>>, << >>, TRigidEnum),
     StringIsMatch |-> Sig(<<TString>>, <<TString>>, TBool),
     StringFind |-> Sig(<<TString>>, <<TString>>, TMatch),
     StringFindAll |-> Sig(<<TString>>, <<TString>>, TArray(TMatch))]

\* custom_contract_type
TCustomContract == TArrow(TDyn, TArrow(TDyn, TContractRet))

UnaryTypes(a) ==
    [DynToDyn |-> Sig(<<TDyn>>, << >>, TDyn),
     RecordFreeze |-> Sig(<<TDict(a)>>, << >>, TDict(a)),
     Trace |-> Sig(<<TString>>, <<a>>, a),
     EnumMakeVariant |-> Sig(<<TString>>, <<TDyn>>, TDyn),
     EnumIsVariant |-> Sig(<<TDyn>>, << >>, TBool),
     ContractCustom |-> Sig(<<TCustomContract>>, << >>, TDyn),
     NumberToNumber |-> Sig(<<TNumber>>, << >>, TNumber)]

\* Conditionals and string interpolation, typed by the check of terms.
TermTypes(a) ==
    [IfThenElse |-> Sig(<<TBool>>, <<a, a>>, a),
     ChunksConcat |-> Sig(<<TString>>, << >>, TString)]

ContractTypes ==
    [Seal |-> Sig(<<TSym, TDyn>>, << >>, TArrow(TDyn, TDyn)),
     ContractApply |-> Sig(<<TDyn, TDyn>>, <<TDyn>>, TDyn),
     ContractCheck |-> Sig(<<TDyn, TDyn>>, <<TDyn>>, TContractRet),
     LabelWithErrorData |-> Sig(<<TErrorData, TDyn>>, << >>, TDyn),
     Unseal |-> Sig(<<TSym, TDyn>>, <<TDyn>>, TDyn)]

BinaryTypes(a, b) ==
    [NumberOp2 |-> Sig(<<TNumber, TNumber>>, << >>, TNumber),
     StringConcat |-> Sig(<<TString, TString>>, << >>, TString),
     Eq |-> Sig(<<a, b>>, << >>, TBool),
     NumberCmp2 |-> Sig(<<TNumber, TNumber>>, << >>, TBool),
     StringDynToDyn |-> Sig(<<TString, TDyn>>, << >>, TDyn),
     RecordGet |-> Sig(<<TString, TDict(a)>>, << >>, a),
     RecordInsert |-> Sig(<<TString, TDict(a)>>, <<a>>, TDict(a)),
     RecordRemove |-> Sig(<<TString, TDict(a)>>, << >>, TDict(a)),
     RecordHasField |-> Sig(<<TString, TDict(a)>>, << >>, TBool),
     ArrayConcat |-> Sig(<<TArray(a), TArray(a)>>, << >>, TArray(a)),
     ArrayAt |-> Sig(<<TArray(a), TNumber>>, << >>, a),
     Merge |-> Sig(<<TDyn, TDyn>>, << >>, TDyn)]

TextTypes(a) ==
    [Hash |-> Sig(<<Tags(HashTags), TString>>, << >>, TString),
     Serialize |-> Sig(<<Tags(Formats), a>>, << >>, TString),
     Deserialize |-> Sig(<<Tags(Formats), TString>>, << >>, TDyn),
     StringContains |-> Sig(<<TString, TString>>, << >>, TBool),
     StringCompare |-> Sig(<<TString, TString>>, << >>, Tags({"Lesser", "Equal", "Greater"})),
     StringSplit |-> Sig(<<TString, TString>>, << >>, TArray(TString)),
     StringBase64Encode |-> Sig(<<Tags(Base64Variants), TString>>, << >>, TString),
     StringBase64Decode |-> Sig(<<Tags(Base64Variants), TString>>, << >>, TDecoded)]

TSplit(a) ==
    TRecord([n \in {"left_only", "left_center", "right_center", "right_only"} |-> TDict(a)])

LazyAppTypes(a) ==
    [ContractArrayLazyApp |-> Sig(<<TDyn, TDyn>>, <<TArray(a)>>, TArray(a)),
     ContractRecordLazyApp |-> Sig(<<TDyn, TDict(a)>>, <<TDyn>>, TDict(a)),
     LabelWithNotes |-> Sig(<<TArray(TString), TDyn>>, << >>, TDyn),
     LabelLookupTypeVar |-> Sig(<<TSym, TDyn>>, << >>, TTypeVarData),
     RecordSplitPair |-> Sig(<<TDict(a), TDict(a)>>, << >>, TSplit(a)),
     RecordDisjointMerge |-> Sig(<<TDict(a), TDict(a)>>, << >>, TDict(a))]

NaryTypes(a) ==
    [StringReplace |-> Sig(<<TString, TString, TString>>, << >>, TString),
     StringSubstr |-> Sig(<<TString, TNumber, TNumber>>, << >>, TString),
     RecordSealTail |-> Sig(<<TDyn, TDyn, TDict(TDyn), TDict(TDyn)>>, << >>, TDyn),
     RecordUnsealTail |-> Sig(<<TDyn, TDyn, TDict(TDyn)>>, << >>, TDyn),
     ArraySlice |-> Sig(<<TNumber, TNumber, TArray(a)>>, << >>, TArray(a)),
     MergeContract |-> Sig(<<TDyn, TDyn, TDyn>>, << >>, TDyn),
     LabelInsertTypeVar |-> Sig(<<TSym, TPolarity, TDyn>>, << >>, TDyn)]

-----------------------------------------------------------------------------
\* The types that the type variables are instantiated with.
TypeInstances == {TNumber, TDyn}

\* Every operation, with the instances of its type.
PrimOpType ==
    LET all == {BasicTypes(a) @@ ContainerTypes(a, b) @@ StringTypes @@ UnaryTypes(a) @@ TermTypes(a)
                  @@ ContractTypes @@ BinaryTypes(a, b) @@ TextTypes(a) @@ LazyAppTypes(a)
                  @@ NaryTypes(a) : a, b \in TypeInstances}
    IN  [op \in DOMAIN (CHOOSE t \in all : TRUE) |-> {t[op] : t \in all}]

-----------------------------------------------------------------------------
(***************************************************************************)
(* Chains of primitive operations: the result of one is an argument of the *)
(* next, and the typechecker has accepted every application.               *)
(***************************************************************************)
CONSTANT MaxSteps   \* bound on the length of a chain

VARIABLES val,      \* the last result
          typ,      \* its static type
          failed,   \* the error that ended the chain (there is no result then), or NoFailure
          misapplied, \* ghost: contract/array_lazy_apply has been used
          steps     \* the operations performed

vars == <<val, typ, failed, misapplied, steps>>

NoFailure == [op |-> "none", out |-> "none", want |-> TDyn]

\* The typechecker accepts an argument: records are dictionaries if their
\* fields have one type, and any value may be annotated with Dyn.
Accepts(want, type) ==
    \/ want \in {type, TDyn}
    \/ want.ty = "Dict" /\ type.ty = "Record" /\ \A n \in DOMAIN type.rows : type.rows[n] = want.of

\* The arguments of which one is the last result.
Arguments(strict, i) ==
    FoldLeft(LAMBDA as, S : {Append(as1, x) : as1 \in as, x \in S}, {<< >>},
             [j \in DOMAIN strict |-> IF j = i THEN {val} ELSE AnyOf(strict[j])])

\* Bound: arrays stay short, and a sealed record has no sealed tail itself.
Small(v) ==
    /\ v.t = "Array" => Len(v.elems) <= MaxElems
    /\ v.t = "Record" => (v.tail # NoTail => v.tail.sealed.tail = NoTail)

Conclude(name, sig, r) ==
    IF r.out = "value"
    THEN /\ Small(r.val)
         /\ val' = r.val
         /\ typ' = sig.cod
         /\ failed' = NoFailure
    ELSE /\ failed' = [op |-> name, out |-> r.out,
                       want |-> IF r.out = "TypeError" THEN (sig.strict \o sig.lazy)[r.arg] ELSE TDyn]
         /\ val' = Null
         /\ typ' = TDyn

\* continue_op: an operation is applied once its arguments are evaluated.
ApplyAt(name, sigs, Op(_, _)) ==
    /\ failed = NoFailure
    /\ steps < MaxSteps
    /\ steps' = steps + 1
    /\ misapplied' = (misapplied \/ name = "ContractArrayLazyApp")
    /\ \E sig \in sigs : \E i \in DOMAIN sig.strict :
         /\ Accepts(sig.strict[i], typ)
         /\ \E a \in Arguments(sig.strict, i) : \E r \in Op(a, sig.lazy) : Conclude(name, sig, r)

Apply(name, Op(_, _)) == ApplyAt(name, PrimOpType[name], Op)

\* The operands of a merge have the type Dyn: records among them.
MergedRecords(sigs) ==
    sigs \cup {[sig EXCEPT !.strict[Len(sig.strict)] = TDict(TDyn)] : sig \in sigs}

RecordOpKinds == {"IgnoreEmptyOpt", "ConsiderAllFields"}

Init ==
    /\ typ \in {TNumber, TString, TBool, TSym, TDyn} \cup
               UNION {{TDict(t), TArray(t)} : t \in TypeInstances} \cup
               {TRecord([n \in Names |-> TNumber]), TCustomContract, TEnum(EmbeddedRows)}
    /\ val \in AnyOf(typ)
    /\ failed = NoFailure
    /\ misapplied = FALSE
    /\ steps = 0

Basic ==
    \/ Apply("IfThenElse", IfThenElse)
    \/ Apply("BoolAndOr", BoolAnd)
    \/ Apply("BoolAndOr", BoolOr)
    \/ Apply("BoolNot", BoolNot)
    \/ Apply("Typeof", Typeof)
    \/ Apply("Cast", Cast)
    \/ Apply("Seq", Seq1)
    \/ Apply("Seq", DeepSeq)
    \/ Apply("DynToDyn", Force)
    \/ Apply("Trace", Trace)
    \/ Apply("Eq", Eq)
    \/ ApplyAt("Merge", MergedRecords(PrimOpType["Merge"]), MergeOp)
    \/ ApplyAt("MergeContract", MergedRecords(PrimOpType["MergeContract"]), MergeContract)

Numeric ==
    \/ Apply("NumberToNumber", number_op1)
    \/ Apply("NumberOp2", number_op2)
    \/ Apply("NumberCmp2", number_cmp2)
    \/ Apply("NumberOp2", DivOp)
    \/ Apply("NumberOp2", FloatOp2)

Enums ==
    \/ Apply("EnumEmbed", EnumEmbed)
    \/ Apply("EnumFromString", EnumFromString)
    \/ Apply("DynToDyn", EnumGetArg)
    \/ Apply("EnumMakeVariant", EnumMakeVariant)
    \/ Apply("DynToDyn", EnumGetTag)
    \/ Apply("EnumIsVariant", EnumIsVariant)

Text ==
    \/ Apply("ChunksConcat", ChunksConcat)
    \/ Apply("StringToString", StringToString)
    \/ Apply("StringChars", StringChars)
    \/ Apply("StringLength", StringLength)
    \/ Apply("ToString", ToStringOp)
    \/ Apply("NumberFromString", NumberFromString)
    \/ Apply("StringIsMatch", StringIsMatch)
    \/ Apply("StringFind", StringFind)
    \/ Apply("StringFindAll", StringFindAll)
    \/ Apply("StringConcat", StringConcat)
    \/ Apply("StringContains", StringContains)
    \/ Apply("StringCompare", StringCompare)
    \/ Apply("StringSplit", StringSplit)
    \/ \E regex \in BOOLEAN : Apply("StringReplace", LAMBDA a, l : StringReplace(regex, a, l))
    \/ Apply("StringSubstr", StringSubstr)
    \/ Apply("Hash", Hash)
    \/ Apply("Serialize", Serialize)
    \/ Apply("Deserialize", Deserialize)
    \/ Apply("StringBase64Encode", StringBase64Encode)
    \/ Apply("StringBase64Decode", StringBase64Decode)

ArrayOps ==
    \/ Apply("ArrayMap", ArrayMap)
    \/ Apply("ArrayGen", ArrayGen)
    \/ Apply("ArrayLength", ArrayLength)
    \/ Apply("ArrayConcat", ArrayConcat)
    \/ Apply("ArrayAt", ArrayAt)
    \/ Apply("ArraySlice", ArraySlice)

RecordOps ==
    \/ \E id \in Names, a \in TypeInstances :
         ApplyAt("RecordAccess", {RecordStatAccess(id, a, rows) : rows \in {<< >>, [n \in Names |-> a]}},
                 LAMBDA v, l : RecordAccess(id, v, l))
    \/ Apply("RecordValues", RecordValues)
    \/ Apply("RecordMap", RecordMap)
    \/ Apply("RecordFreeze", RecordFreeze)
    \/ Apply("DynToDyn", RecordEmptyWithTail)
    \/ Apply("RecordGet", RecordGet)
    \/ Apply("RecordSplitPair", RecordSplitPair)
    \/ Apply("RecordDisjointMerge", RecordDisjointMerge)
    \/ Apply("RecordSealTail", RecordSealTail)
    \/ Apply("RecordUnsealTail", RecordUnsealTail)

RecordKindOps(kind) ==
    \/ Apply("RecordFields", LAMBDA a, l : RecordFields(kind, a, l))
    \/ Apply("RecordInsert", LAMBDA a, l : RecordInsert(kind, a, l))
    \/ Apply("RecordRemove", LAMBDA a, l : RecordRemove(kind, a, l))
    \/ Apply("RecordHasField", LAMBDA a, l : RecordHasField(kind, a, l))
    \/ Apply("RecordHasField", LAMBDA a, l : RecordFieldIsDefined(kind, a, l))

Contracts ==
    \/ Apply("ContractCustom", ContractCustom)
    \/ Apply("ContractApply", ContractApply)
    \/ Apply("ContractCheck", ContractCheck)
    \/ Apply("ContractArrayLazyApp", ContractArrayLazyApp)
    \/ Apply("ContractRecordLazyApp", ContractRecordLazyApp)
    \/ Apply("Seal", Seal)
    \/ Apply("Unseal", Unseal)
    \/ Apply("Blame", Blame)

LabelOps ==
    \/ Apply("LabelPol", LabelPol)
    \/ Apply("LabelToLabel", LabelFlipPol)
    \/ Apply("LabelToLabel", LabelGo)
    \/ Apply("LabelToLabel", LabelPushDiag)
    \/ Apply("StringDynToDyn", LabelGoField)
    \/ Apply("StringDynToDyn", LabelWithText)
    \/ Apply("LabelWithNotes", LabelWithNotes)
    \/ Apply("LabelWithErrorData", LabelWithErrorData)
    \/ Apply("LabelInsertTypeVar", LabelInsertTypeVar)
    \/ Apply("LabelLookupTypeVar", LabelLookupTypeVar)

Next ==
    \/ Basic
    \/ Numeric
    \/ Enums
    \/ Text
    \/ ArrayOps
    \/ RecordOps
    \/ \E kind \in RecordOpKinds : RecordKindOps(kind)
    \/ Contracts
    \/ LabelOps

Spec == Init /\ [][Next]_vars

-----------------------------------------------------------------------------
(* Properties                                                              *)

Typed ==
    /\ failed.out = "TypeError" => failed.want \in {TDyn, TErrorData}
    /\ Inhabits(val, typ)

\* Statically typed code does not fail on the kind of an argument: eval_op1,
\* eval_op2 and eval_opn reject only an argument whose type is Dyn or a
\* contract, and a result is of the type that primop_type announces, unless
\* contract/array_lazy_apply, whose type is wrong, was used on the way.
WellTyped == misapplied \/ Typed

\* No operation brings the interpreter down.
NoPanic == failed.out # "Panic"

\* The values of the outcomes of an operation.
Results(outcomes) == {r.val : r \in {o \in outcomes : o.out = "value"}}
Succeeds(outcomes) == Results(outcomes) # {}

HasField(kind, r, n) == RecordHasField(kind, <<Str(n), r>>, << >>) = Ok({Bool(TRUE)})

\* The operations on records agree on which fields a record has, whichever way
\* they treat optional fields without a value: has_field says so exactly when
\* fields lists the field, remove finds it, insert refuses it; a field that can
\* be read, statically or by name, is defined, and a defined one is present;
\* and once inserted a field is there, once removed it is not.  Equality and
\* merging leave out what has_field leaves out: removing an optional field
\* without value changes no comparison with a record that does not mention it,
\* and merging keeps the fields.
FieldsAgree ==
    val.t = "Record" =>
      /\ \A kind \in RecordOpKinds, n \in Names :
           LET on == <<Str(n), val>>
               has == HasField(kind, val, n)
               defined == RecordFieldIsDefined(kind, on, << >>) = Ok({Bool(TRUE)})
               removed == RecordRemove(kind, on, << >>)
               inserted == RecordInsert(kind, on, <<TNumber>>)
           IN  /\ has <=> Succeeds(removed)
               /\ has <=> ~Succeeds(inserted)
               /\ Succeeds(RecordGet(on, << >>)) <=> defined
               /\ RecordGet(on, << >>) = RecordAccess(n, <<val>>, << >>)
               /\ defined => has
               /\ \A r \in Results(removed) : ~HasField(kind, r, n)
               /\ \A r \in Results(inserted) : HasField(kind, r, n)
      /\ \A kind \in RecordOpKinds : \A w \in Results(RecordFields(kind, <<val>>, << >>)) :
           Len(w.elems) = Cardinality({m \in DOMAIN val.fields : HasField(kind, val, m)})
      /\ \A n \in DOMAIN val.fields \cap Names :
           val.tail = NoTail /\ is_empty_optional(val.fields[n]) =>
             \A r \in Results(RecordRemove("ConsiderAllFields", <<Str(n), val>>, << >>)),
                w \in {d \in Dicts(TNumber) : n \notin DOMAIN d.fields} :
               Eq(<<val, w>>, << >>) = Eq(<<r, w>>, << >>)
      /\ \A w \in Dicts(TNumber) : \A r \in Results(MergeOp(<<val, w>>, << >>)) :
           \A kind \in RecordOpKinds, n \in Names : HasField(kind, val, n) => HasField(kind, r, n)

\* What an operation shows of a record with a sealed tail, when the content of
\* the tail and the kind of the error are ignored.
Blind(v) ==
    IF v.t = "Record" /\ v.tail # NoTail THEN [v EXCEPT !.tail.sealed = EmptyRecord] ELSE v
Seen(outcomes) ==
    {IF o.out = "value" THEN Blind(o.val) ELSE Opaque("Failure") : o \in outcomes}

Observations(v) ==
    LET other == RecordBlock([n \in {} |-> Defined(TDyn)], TRUE, FALSE, NoTail) IN
    <<[n \in Names |-> Seen(RecordGet(<<Str(n), v>>, << >>))],
      [k \in RecordOpKinds |-> Seen(RecordFields(k, <<v>>, << >>))],
      [k \in RecordOpKinds, n \in Names |-> Seen(RecordHasField(k, <<Str(n), v>>, << >>))],
      [k \in RecordOpKinds, n \in Names |-> Seen(RecordFieldIsDefined(k, <<Str(n), v>>, << >>))],
      [k \in RecordOpKinds, n \in Names |-> Seen(RecordInsert(k, <<Str(n), v>>, <<TDyn>>))],
      [k \in RecordOpKinds, n \in Names |-> Seen(RecordRemove(k, <<Str(n), v>>, << >>))],
      [k \in Keys \ {v.tail.key} |->
         Seen(RecordUnsealTail(<<Key(k), Label("Positive", {}), v>>, << >>))],
      Seen(RecordValues(<<v>>, << >>)),
      Seen(RecordMap(<<v>>, <<TArrow(TString, TArrow(TDyn, TDyn))>>)),
      Seen(RecordFreeze(<<v>>, << >>)),
      Seen(Force(<<v>>, << >>)),
      Seen(DeepSeq(<<v>>, <<TNumber>>)),
      Seen(ContractRecordLazyApp(<<Label("Positive", {}), v>>, <<TDyn>>)),
      Seen(RecordDisjointMerge(<<v, other>>, << >>)),
      Seen(RecordDisjointMerge(<<other, v>>, << >>)),
      Seen(MergeOp(<<v, other>>, << >>)),
      Seen(Eq(<<v, other>>, << >>))>>

\* What is sealed in the tail of a record stays there: without the key no
\* operation succeeds, or gives another result, because of what the tail holds
\* ("access to the enclosed term must only be allowed when a matching sealing
\* key is provided", SealedTail in term/record.rs).
TailOpaque ==
    val.t = "Record" /\ val.tail # NoTail => Observations(val) = Observations(Blind(val))
=============================================================================
