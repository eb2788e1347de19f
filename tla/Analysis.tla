------------------------------ MODULE Analysis ------------------------------
(***************************************************************************)
(* The language server's static analysis: positions of a program, the usages *)
(* of its variables, and the definitions of its fields.                    *)
(***************************************************************************)
EXTENDS Programs, TLC

-----------------------------------------------------------------------------
(***************************************************************************)
(* Programs with the positions the parser gives them, as the language      *)
(* server works on them (lsp/nls/src/identifier.rs, term.rs).  A position  *)
(* is the way down from the root of the file.  A located identifier is a   *)
(* name followed by its position, and a located term carries its position, *)
(* so that two occurrences are never equal.                                *)
(***************************************************************************)
LocIdent(id, at) == id \o "@" \o at
\* The name alone.
ident(l) ==
  LET n == CHOOSE i \in 1 .. Len(l) : SubSeq(l, i, i) = "@" /\ \A j \in 1 .. i - 1 : SubSeq(l, j, j) # "@"
  IN  SubSeq(l, 1, n - 1)

\* An input that does not parse: text is the path that ends at the cursor,
\* before the last dot (NoAst if there is none).
ParseError(text, at) == [n |-> "ParseError", text |-> text, pos |-> at]

----------------------------------------------------------------------------
(***************************************************************************)
(* What an edit does to a program: the identifiers at some positions get a *)
(* new name; or what is at the cursor, the field of an access or the last  *)
(* name of a definition, is not written yet.  Then the file as it is does  *)
(* not parse there (Cut), and the program around the cursor is the rest    *)
(* (Drop).  Locating a program changes all of its identifiers.             *)
(***************************************************************************)
Locating == [k |-> "Locate", at |-> {}, new |-> ""]
Replacing(locs, new) == [k |-> "Replace", at |-> locs, new |-> new]
Cutting(pos) == [k |-> "Cut", at |-> {pos}, new |-> ""]
Dropping(pos) == [k |-> "Drop", at |-> {pos}, new |-> ""]
IsAccess(t) == t.n = "Op" /\ t.op = "RecordStatAccess"

NewId(m, id, at) ==
  CASE m.k \in {"Locate", "Cut"} /\ id # "" -> LocIdent(id, at)
    [] m.k = "Replace" /\ LocIdent(id, at) \in m.at -> m.new
    [] OTHER -> id

Under(at, k, i) == at \o k \o ToString(i)

RECURSIVE EditAst(_, _, _), EditPat(_, _, _), EditType(_, _, _)
EditOpt(m, t, at) == IF t = NoAst THEN NoAst ELSE EditAst(m, t, at)
EditAll(m, ts, at, k) == Evaluated([i \in DOMAIN ts |-> EditOpt(m, ts[i], Under(at, k, i))])

\* The rows of a record type have identifiers, its variables have none.
EditType(m, t, at) ==
  LET sub == Evaluated([i \in DOMAIN t.sub |-> EditType(m, t.sub[i], Under(at, "s", i))])
  IN  CASE t.k # "con" -> t
        [] t.op = "Contract" -> [t EXCEPT !.ast = EditAst(m, @, at)]
        [] t.op = "RExtend" -> [t EXCEPT !.id = NewId(m, @, at), !.sub = sub]
        [] OTHER -> [t EXCEPT !.sub = sub]
EditAnnot(m, a, at) ==
  [typ |-> IF a.typ = NoType THEN NoType ELSE EditType(m, a.typ, at \o "t"),
   contracts |-> Evaluated([i \in DOMAIN a.contracts |-> EditType(m, a.contracts[i], Under(at, "c", i))])]

\* In the pattern {x}, the field and the variable are one identifier.
EditField(m, f, at) ==
  LET punned == f.pat.p = "Any" /\ f.pat.id = f.id
  IN  [id |-> NewId(m, f.id, at), annot |-> EditAnnot(m, f.annot, at), default |-> EditOpt(m, f.default, at \o "d"),
       pat |-> EditPat(m, f.pat, IF punned THEN at ELSE at \o "p")]
EditPat(m, pat, at) ==
  LET p == [pat EXCEPT !.alias = NewId(m, @, at \o "w")]
      pats(ps) == Evaluated([i \in DOMAIN ps |-> EditPat(m, ps[i], Under(at, "p", i))])
  IN  CASE p.p = "Any" -> [p EXCEPT !.id = NewId(m, @, at)]
        [] p.p = "Enum" -> [p EXCEPT !.arg = IF @ = NoPat THEN @ ELSE EditPat(m, @, at \o "a")]
        [] p.p = "Or" -> [p EXCEPT !.pats = pats(@)]
        [] p.p = "Array" -> [p EXCEPT !.pats = pats(@), !.rest = NewId(m, @, at \o "r")]
        [] p.p = "Record" ->
             [p EXCEPT !.rest = NewId(m, @, at \o "r"),
                       !.fields = Evaluated([i \in DOMAIN @ |-> EditField(m, @[i], Under(at, "f", i))])]
        [] OTHER -> p

EditDef(m, d, at) ==
  [path |-> Evaluated([j \in DOMAIN d.path |->
              [id |-> NewId(m, d.path[j].id, Under(at, "i", j)), expr |-> EditOpt(m, d.path[j].expr, Under(at, "e", j))]]),
   annot |-> EditAnnot(m, d.annot, at), meta |-> d.meta, value |-> EditOpt(m, d.value, at \o "v")]
\* A definition that ends in a dot is a field whose name does not parse.
RECURSIVE PathText(_, _, _)
PathText(d, n, at) ==
  IF n = 0 THEN NoAst
  ELSE IF n = 1 THEN [n |-> "Var", id |-> LocIdent(d.path[1].id, at \o "1"), pos |-> at \o "1"]
  ELSE [n |-> "Op", op |-> "RecordStatAccess", id |-> LocIdent(d.path[n].id, Under(at, "", n)),
        args |-> <<PathText(d, n - 1, at)>>, pos |-> Under(at, "", n)]
CutDef(d, at) ==
  [path |-> <<[id |-> "", expr |-> ParseError(PathText(d, Len(d.path) - 1, at), at)]>>,
   annot |-> NoAnnot, meta |-> d.meta, value |-> NoAst]
EditDefs(m, defs, at) ==
  FlattenSeq(Evaluated([i \in DOMAIN defs |->
    LET here == Under(at, "d", i)
    IN  CASE m.k = "Drop" /\ here \in m.at -> <<>>
          [] m.k = "Cut" /\ here \in m.at -> <<CutDef(defs[i], here)>>
          [] OTHER -> <<EditDef(m, defs[i], here)>>]))

EditAst(m, t, at) ==
  LET e == CASE t.n = "Var" -> [t EXCEPT !.id = NewId(m, @, at)]
             [] t.n = "Op" -> [t EXCEPT !.id = NewId(m, @, at), !.args = EditAll(m, @, at, "a")]
             [] t.n \in {"Chunks", "If"} -> [t EXCEPT !.args = EditAll(m, @, at, "a")]
             [] t.n = "Enum" -> [t EXCEPT !.arg = EditOpt(m, @, at \o "a")]
             [] t.n = "Array" -> [t EXCEPT !.elts = EditAll(m, @, at, "a")]
             [] t.n = "App" -> [t EXCEPT !.head = EditAst(m, @, at \o "h"), !.args = EditAll(m, @, at, "a")]
             [] t.n = "Type" -> [t EXCEPT !.typ = EditType(m, @, at \o "t")]
             [] t.n = "Annot" -> [t EXCEPT !.annot = EditAnnot(m, @, at), !.inner = EditAst(m, @, at \o "n")]
             [] t.n = "Fun" ->
                  [t EXCEPT !.args = Evaluated([i \in DOMAIN @ |-> EditPat(m, @[i], Under(at, "p", i))]),
                            !.body = EditAst(m, @, at \o "b")]
             [] t.n = "Let" ->
                  [t EXCEPT !.bs = Evaluated([i \in DOMAIN @ |->
                                     [pat |-> EditPat(m, @[i].pat, Under(at, "p", i)),
                                      annot |-> EditAnnot(m, @[i].annot, Under(at, "l", i)),
                                      value |-> EditAst(m, @[i].value, Under(at, "v", i))]]),
                            !.body = EditAst(m, @, at \o "b")]
             [] t.n = "Match" ->
                  [t EXCEPT !.branches = Evaluated([i \in DOMAIN @ |->
                                           [pat |-> EditPat(m, @[i].pat, Under(at, "p", i)),
                                            guard |-> EditOpt(m, @[i].guard, Under(at, "g", i)),
                                            body |-> EditAst(m, @[i].body, Under(at, "b", i))]])]
             [] t.n = "Record" ->
                  [t EXCEPT !.defs = EditDefs(m, @, at),
                            !.includes = Evaluated([i \in DOMAIN @ |->
                                           [id |-> NewId(m, @[i].id, Under(at, "n", i)),
                                            annot |-> EditAnnot(m, @[i].annot, Under(at, "n", i))]])]
             [] OTHER -> t
      here == IsAccess(t) /\ at \in m.at
  IN  CASE m.k = "Drop" /\ here -> t.args[1]
        [] m.k = "Cut" /\ here -> ParseError(e.args[1], at)
        [] m.k \in {"Locate", "Cut"} -> e @@ [pos |-> at]
        [] OTHER -> e

Locate(t) == EditAst(Locating, t, "")

----------------------------------------------------------------------------
(***************************************************************************)
(* Traversal (TraverseAlloc): the terms below a term, those in its types   *)
(* and in the patterns of functions and branches included.                 *)
(***************************************************************************)
RECURSIVE TypeTerms(_)
TypeTerms(t) ==
  CASE t.k # "con" -> {}
    [] t.op = "Contract" -> {t.ast}
    [] OTHER -> UNION {TypeTerms(t.sub[i]) : i \in DOMAIN t.sub}
AnnotTerms(a) == UNION {TypeTerms(t) : t \in Range(Annots(a))}
Given(t) == {t} \ {NoAst}

RECURSIVE PatTerms(_)
FieldPatTerms(f) == AnnotTerms(f.annot) \cup Given(f.default) \cup PatTerms(f.pat)
PatTerms(p) ==
  CASE p.p = "Enum" /\ p.arg # NoPat -> PatTerms(p.arg)
    [] p.p \in {"Or", "Array"} -> UNION {PatTerms(p.pats[i]) : i \in DOMAIN p.pats}
    [] p.p = "Record" -> UNION {FieldPatTerms(f) : f \in Range(p.fields)}
    [] OTHER -> {}
DefTerms(d) == AnnotTerms(d.annot) \cup Given(d.value) \cup UNION {Given(e.expr) : e \in Range(d.path)}

BindingTerms(b) == AnnotTerms(b.annot) \cup {b.value}

traverse_ref(t) ==
  CASE t.n \in {"Chunks", "If", "Op"} -> Range(t.args)
    [] t.n = "Enum" -> Given(t.arg)
    [] t.n = "Array" -> Range(t.elts)
    [] t.n = "App" -> {t.head} \cup Range(t.args)
    [] t.n = "Type" -> TypeTerms(t.typ)
    [] t.n = "Annot" -> AnnotTerms(t.annot) \cup {t.inner}
    [] t.n = "Fun" -> UNION {PatTerms(p) : p \in Range(t.args)} \cup {t.body}
    [] t.n = "Let" -> UNION {BindingTerms(b) : b \in Range(t.bs)} \cup {t.body}
    [] t.n = "Match" -> UNION {PatTerms(b.pat) \cup Given(b.guard) \cup {b.body} : b \in Range(t.branches)}
    [] t.n = "Record" -> UNION {DefTerms(d) : d \in Range(t.defs)}
    [] OTHER -> {}

RECURSIVE Subterms(_)
Subterms(t) == {t} \cup UNION {Subterms(s) : s \in traverse_ref(t)}

\* The variables of a pattern, in order, each with the path of the field it
\* matches and the annotation of the field (inject_bindings).
PatBinding(id, path, annot) == [id |-> id, path |-> path, annot |-> annot]
RECURSIVE inject_bindings(_, _, _)
inject_bindings(pat, path, annot) ==
  LET own(id, a) == IF id = "" THEN <<>> ELSE <<PatBinding(id, path, a)>>
      each(ps, a) == FlattenSeq([i \in DOMAIN ps |-> inject_bindings(ps[i], path, a)])
      rest(a) == IF pat.tail = "Capture" THEN own(pat.rest, a) ELSE <<>>
  IN  own(pat.alias, annot)
        \o CASE pat.p = "Any" -> own(pat.id, annot)
             [] pat.p = "Enum" /\ pat.arg # NoPat -> inject_bindings(pat.arg, path, NoAnnot)
             [] pat.p = "Or" -> each(pat.pats, annot)
             [] pat.p = "Array" -> each(pat.pats, NoAnnot) \o rest(NoAnnot)
             [] pat.p = "Record" ->
                  FlattenSeq([i \in DOMAIN pat.fields |->
                    inject_bindings(pat.fields[i].pat, Append(path, ident(pat.fields[i].id)), pat.fields[i].annot)])
                  \o rest(annot)
             [] OTHER -> <<>>
pat_bindings(pat) == inject_bindings(pat, <<>>, NoAnnot)

-----------------------------------------------------------------------------
(***************************************************************************)
(* Where variables are defined and used (lsp/nls/src/usage.rs), and the    *)
(* definitions it collects (field_walker.rs).  A file is a located term;   *)
(* the tables of UsageLookup are the environment of every term that was    *)
(* visited and the definition of every symbol.                             *)
(***************************************************************************)
NoDefs == [x \in {} |-> NoAst]

----------------------------------------------------------------------------
(***************************************************************************)
(* Pieces of field definitions: a definition, from an index in its path    *)
(* on.  The index one past the path stands for the value.                  *)
(***************************************************************************)
Piece(def, i) == [def |-> def, i |-> i]
is_final_value(p) == p.i = Len(p.def.path) + 1
is_leaf(p) == p.i >= Len(p.def.path)
piece_value(p) == IF is_leaf(p) THEN p.def.value ELSE NoAst
piece_ident(p) == IF is_final_value(p) THEN "" ELSE p.def.path[p.i].id   \* "" if it is dynamic
backtrack(p) == [p EXCEPT !.i = @ - 1]
advance(p) == [p EXCEPT !.i = @ + 1]
\* The names on the way to the piece; defined if they are all static.
StaticUpTo(def, n) == \A j \in 1 .. n : def.path[j].expr = NoAst
Names(def, n) == [j \in 1 .. n |-> ident(def.path[j].id)]

----------------------------------------------------------------------------
(***************************************************************************)
(* Definitions.                                                            *)
(***************************************************************************)
NoDef == [d |-> "none"]
LetDef(b, binding) ==
  [d |-> "Let", id |-> b.id, values |-> {binding.value}, annots |-> {binding.annot}, path |-> b.path]
MatchDef(b, value) ==
  [d |-> "MatchBinding", id |-> b.id, values |-> Given(value), annots |-> {b.annot}, path |-> b.path]
FnDef(id) == [d |-> "Fn", id |-> id, values |-> {}, annots |-> {}, path |-> <<>>]

\* loc_ident: the first piece with a value, or the first one.
PieceIdent(pieces) ==
  LET with == SelectSeq(pieces, LAMBDA p : piece_value(p) # NoAst)
  IN  piece_ident(IF with # <<>> THEN with[1] ELSE pieces[1])
FieldDefOf(pieces, record) ==
  [d |-> "Field", id |-> PieceIdent(pieces), pieces |-> pieces, record |-> record,
   values |-> UNION {Given(p.def.value) : p \in Range(pieces)},
   annots |-> {p.def.annot : p \in Range(pieces)}, path |-> <<>>]

\* The pieces of the field at a static path of a record (AggregatedDef).
AggregatedDef(record, path) ==
  LET n == Len(path)
      at == SelectSeq(record.defs, LAMBDA d : Len(d.path) >= n /\ StaticUpTo(d, n) /\ Names(d, n) = path)
  IN  [i \in DOMAIN at |-> Piece(at[i], n)]

\* Of an element of a path after the first; after a dynamic one, the
\* definition is not put together with others.
PathDef(record, d, j) ==
  FieldDefOf(IF StaticUpTo(d, j) THEN AggregatedDef(record, Names(d, j)) ELSE <<Piece(d, j)>>, record)

----------------------------------------------------------------------------
(***************************************************************************)
(* Environments: names to definitions, the last one inserted wins.         *)
(***************************************************************************)
insert_defs(env, defs) ==
  LET last(x) == CHOOSE i \in DOMAIN defs : /\ ident(defs[i].id) = x
                                            /\ \A j \in DOMAIN defs : ident(defs[j].id) = x => j =< i
  IN  [x \in {ident(defs[i].id) : i \in DOMAIN defs} |-> defs[last(x)]] @@ env

LetDefs(t) ==
  FlattenSeq([i \in DOMAIN t.bs |->
    LET bs == pat_bindings(t.bs[i].pat) IN [j \in DOMAIN bs |-> LetDef(bs[j], t.bs[i])]])
MatchDefs(branch, value) ==
  LET bs == pat_bindings(branch.pat) IN [j \in DOMAIN bs |-> MatchDef(bs[j], value)]
FnDefs(t) ==
  FlattenSeq([i \in DOMAIN t.args |->
    LET bs == pat_bindings(t.args[i]) IN [j \in DOMAIN bs |-> FnDef(bs[j].id)]])

RootIds(record) == {ident(d.path[1].id) : d \in {x \in Range(record.defs) : x.path[1].expr = NoAst}}
record_env(record, env) == [x \in RootIds(record) |-> FieldDefOf(AggregatedDef(record, <<x>>), record)] @@ env
\* What the element n + 1 of the path of a definition sees; with all of the
\* path, what the annotations and the value see.
local_env(record, d, n, env) ==
  LET later == SelectSeq([j \in 1 .. n |-> j], LAMBDA j : j > 1 /\ d.path[j].expr = NoAst)
  IN  insert_defs(record_env(record, env), [k \in DOMAIN later |-> PathDef(record, d, later[k])])

----------------------------------------------------------------------------
(***************************************************************************)
(* fill: the terms below a term, each with its environment.  Patterns of   *)
(* let and match are not visited; those of a function are, in the scope of *)
(* its body.                                                               *)
(***************************************************************************)
In(terms, env) == {[t |-> s, env |-> env] : s \in terms}

fill_match(t, value, env) ==
  UNION {In(Given(b.guard) \cup {b.body}, insert_defs(env, MatchDefs(b, value))) : b \in Range(t.branches)}
\* As if every let were recursive.
fill_let_rec(t, env) ==
  LET new == insert_defs(env, LetDefs(t))
  IN  In({t.body}, new) \cup UNION {In(BindingTerms(b), new) : b \in Range(t.bs)}
fill_let(t, env) ==
  LET new == insert_defs(env, LetDefs(t))
      bound == IF t.rec THEN new ELSE env
  IN  In({t.body}, new) \cup UNION {In(BindingTerms(b), bound) : b \in Range(t.bs)}
fill_record(t, env) ==
  UNION {In(AnnotTerms(d.annot) \cup Given(d.value), local_env(t, d, Len(d.path), env))
           \cup UNION {In(Given(d.path[j].expr), local_env(t, d, j - 1, env)) : j \in DOMAIN d.path} :
         d \in Range(t.defs)}

AppliesMatch(t) == t.n = "App" /\ t.head.n = "Match"
fill_step(t, env) ==
  CASE t.n = "Fun" -> In(traverse_ref(t), insert_defs(env, FnDefs(t)))
    [] t.n = "Let" -> fill_let(t, env)
    [] t.n = "Record" -> fill_record(t, env)
    [] AppliesMatch(t) -> fill_match(t.head, t.args[1], env) \cup In(Range(t.args), env)
    [] t.n = "Match" -> fill_match(t, NoAst, env)
    [] OTHER -> In(traverse_ref(t), env)

RECURSIVE fill(_, _)
fill(t, env) == {[t |-> t, env |-> env]} \cup UNION {fill(s.t, s.env) : s \in fill_step(t, env)}

\* The symbols that a term adds, each with its definition.
SymsOf(t) ==
  LET syms(defs) == {<<defs[i].id, defs[i]>> : i \in DOMAIN defs}
  IN  CASE t.n = "Let" -> syms(LetDefs(t))
        [] t.n = "Match" -> UNION {syms(MatchDefs(b, NoAst)) : b \in Range(t.branches)}
        [] AppliesMatch(t) -> UNION {syms(MatchDefs(b, t.args[1])) : b \in Range(t.head.branches)}
        [] t.n = "Record" ->
             UNION {{<<d.path[j].id, PathDef(t, d, j)>> : j \in {k \in DOMAIN d.path : d.path[k].expr = NoAst}} :
                    d \in Range(t.defs)}
        [] OTHER -> {}

\* The tables as functions: of positions to environments, of the identifiers
\* of variables to environments, of symbols to definitions.
UsageLookup(visited) ==
  LET vars == {e \in visited : e.t.n = "Var"}
      syms == UNION {SymsOf(e.t) : e \in visited}
  IN  [envs |-> [p \in {e.t.pos : e \in visited} |-> (CHOOSE e \in visited : e.t.pos = p).env],
       vars |-> [l \in {e.t.id : e \in vars} |-> (CHOOSE e \in vars : e.t.id = l).env],
       syms |-> [l \in {s[1] : s \in syms} |-> (CHOOSE s \in syms : s[1] = l)[2]]]

\* The definition of an identifier: it may be at its own definition.
get_def(u, l) ==
  CASE l \in DOMAIN u.syms -> u.syms[l]
    [] l \in DOMAIN u.vars /\ ident(l) \in DOMAIN u.vars[l] -> u.vars[l][ident(l)]
    [] OTHER -> NoDef
\* The variables that have the name of the definition.
named_usages(u, l) == {v \in DOMAIN u.vars : ident(v) = ident(l)}
\* The variables that refer to the definition at a position.
get_usages(u, l) == {v \in DOMAIN u.vars : ident(v) \in DOMAIN u.vars[v] /\ u.vars[v][ident(v)].id = l}

-----------------------------------------------------------------------------
(***************************************************************************)
(* Resolution of fields by the language server (lsp/nls/src/analysis.rs,   *)
(* field_walker.rs, position.rs), and the requests that rest on it:        *)
(* definitions, references, renaming (world.rs, requests/) and completion. *)
(*                                                                         *)
(* The types inferred in typed blocks and the combinators of the standard  *)
(* library (any_of, all_of, Sequence) are not followed.                    *)
(***************************************************************************)
----------------------------------------------------------------------------
(***************************************************************************)
(* Parents (ParentLookup), each with the path from the parent down.  An    *)
(* element of a path is a name, or one of the following.                   *)
(***************************************************************************)
DynIdent == "%"
ArrayElt == "[]"
TagElt(tag) == "'" \o tag

NoParent == [t |-> NoAst, path |-> <<>>]
ChildPath(d, n) == [j \in 1 .. n |-> IF d.path[j].expr = NoAst THEN ident(d.path[j].id) ELSE DynIdent]
\* The children of a term with the path to each.
ChildPaths(t) ==
  LET to(s, path) == <<s.pos, [t |-> t, path |-> path]>>
  IN  CASE t.n = "Record" ->
             UNION {{to(s, ChildPath(d, Len(d.path))) : s \in AnnotTerms(d.annot) \cup Given(d.value)}
                      \cup UNION {{to(s, ChildPath(d, j - 1)) : s \in Given(d.path[j].expr)} : j \in DOMAIN d.path} :
                    d \in Range(t.defs)}
        [] t.n = "Array" -> {to(s, <<ArrayElt>>) : s \in Range(t.elts)}
        [] t.n = "Enum" -> {to(s, <<TagElt(t.tag)>>) : s \in Given(t.arg)}
        [] OTHER -> {to(s, <<>>) : s \in traverse_ref(t)}

\* What is known of the files: their terms, the tables and the parents.
World(terms, usage) ==
  LET links == UNION {ChildPaths(t) : t \in terms}
  IN  [terms |-> terms, usage |-> usage,
       parents |-> [p \in {l[1] : l \in links} |-> (CHOOSE l \in links : l[1] = p)[2]]]
parent(w, t) == IF t.pos \in DOMAIN w.parents THEN w.parents[t.pos] ELSE NoParent

MergeOps == {"Merge", "MergeContract"}
IsMergeTerm(t) == t.n = "Annot" \/ (t.n = "Op" /\ t.op \in MergeOps)
KeepsPath(t) ==
  t.n \in {"Record", "Annot", "Array"} \/ (t.n = "Enum" /\ t.arg # NoAst) \/ (t.n = "Op" /\ Len(t.args) = 2)

\* ParentChainIter: the ancestors that next_merge stops at, each with the
\* path back to where the walk started.  The path is kept in reverse; it is
\* lost for good at a term that has no fields.
RECURSIVE Ancestors(_, _, _, _)
Ancestors(w, next, some, rev) ==
  IF next.t = NoAst THEN {}
  ELSE LET keep == some /\ KeepsPath(next.t)
           path == IF keep THEN rev \o next.path ELSE <<>>
           up == parent(w, next.t)
           gp == IF up.t = NoAst THEN NoParent ELSE parent(w, up.t)
           skip == gp.t # NoAst /\ IsMergeTerm(gp.t)
       IN  (IF ~skip /\ (IsMergeTerm(next.t) \/ next.t.n = "Record")
            THEN {[t |-> next.t, path |-> Reverse(path)]} ELSE {})
           \cup Ancestors(w, up, keep, path)
next_merges(w, t) == Ancestors(w, parent(w, t), TRUE, <<>>)

----------------------------------------------------------------------------
(***************************************************************************)
(* Containers: what has elements.                                          *)
(***************************************************************************)
Container(c, it) == [c |-> c, it |-> it]
defs_of(record, x) == {d \in Range(record.defs) : d.path[1].expr = NoAst /\ ident(d.path[1].id) = x}

RECURSIVE Rows(_)
Rows(t) == IF t.op \in {"RExtend", "EExtend"} THEN {t} \cup Rows(t.sub[Len(t.sub)]) ELSE {}
RowName(row) == IF row.op = "RExtend" THEN ident(row.id) ELSE TagElt(row.id)
RowTypes(t, x) == {[c |-> "Type", it |-> r.sub[1]] : r \in {q \in Rows(t) : RowName(q) = x /\ Len(q.sub) = 2}}

\* get: the contents of an element, pieces of definitions or types.
elements(c, x) ==
  CASE c.c = "RecordTerm" -> {[c |-> "Piece", it |-> Piece(d, 2)] : d \in defs_of(c.it, x)}
    [] c.c = "FieldDefPiece" ->
         IF piece_ident(c.it) # "" /\ ident(piece_ident(c.it)) = x
         THEN {[c |-> "Piece", it |-> advance(c.it)]} ELSE {}
    [] c.c = "Dict" -> IF x = ArrayElt \/ SubSeq(x, 1, 1) = "'" THEN {} ELSE {[c |-> "Type", it |-> c.it]}
    [] c.c \in {"RecordType", "EnumType"} -> RowTypes(c.it, x)
    [] OTHER -> IF x = ArrayElt THEN {[c |-> "Type", it |-> c.it]} ELSE {}
get_field_def_pieces(c, x) == {e.it : e \in {y \in elements(c, x) : y.c = "Piece"}}

\* Records among the containers, with their fields.
IsRecord(c) == c.c \in {"RecordTerm", "FieldDefPiece", "RecordType"}
filter_records(cs) == {c \in cs : IsRecord(c)}
field_locs(c, x) ==
  CASE c.c = "RecordTerm" -> {d.path[1].id : d \in defs_of(c.it, x)}
    [] c.c = "FieldDefPiece" -> {piece_ident(c.it)}
    [] OTHER -> {r.id : r \in {q \in Rows(c.it) : ident(q.id) = x}}

----------------------------------------------------------------------------
(***************************************************************************)
(* FieldResolver.  An identifier being resolved is not resolved again.     *)
(***************************************************************************)
RECURSIVE resolve_container(_, _, _), resolve_containers_at_path(_, _, _, _), resolve_def_with_path(_, _, _),
          resolve_type(_, _, _), cousin_containers(_, _, _)

resolve_annot(w, a, black) == UNION {resolve_type(w, t, black) : t \in Range(Annots(a))}

containers_at_path(w, t, path, black) ==
  resolve_containers_at_path(w, resolve_container(w, t, black), path, black)

ElementContainers(w, e, black) ==
  CASE e.c = "Type" -> resolve_type(w, e.it, black)
    [] ~is_final_value(e.it) -> {Container("FieldDefPiece", e.it)}
    [] OTHER -> resolve_annot(w, e.it.def.annot, black)
                  \cup UNION {resolve_container(w, v, black) : v \in Given(e.it.def.value)}
resolve_containers_at_path(w, cs, path, black) ==
  IF path = <<>> THEN cs
  ELSE resolve_containers_at_path(w,
         UNION {ElementContainers(w, e, black) : e \in UNION {elements(c, path[1]) : c \in cs}}, Tail(path), black)

cousin_containers(w, t, black) ==
  UNION {containers_at_path(w, a.t, a.path, black) : a \in next_merges(w, t)}
cousin_defs_at_path(w, record, path, x, black) ==
  UNION {get_field_def_pieces(c, x) : c \in resolve_containers_at_path(w, cousin_containers(w, record, black), path, black)}
cousin_defs_at(w, record, x, black) ==
  UNION {get_field_def_pieces(c, x) : c \in cousin_containers(w, record, black)}
cousin_defs(w, def, black) ==
  IF def.d = "Field" THEN cousin_defs_at(w, def.record, ident(def.id), black) ELSE {}

resolve_def_with_path(w, def, black) ==
  UNION {containers_at_path(w, v, def.path, black) : v \in def.values}
  \cup UNION {resolve_annot(w, a, black) : a \in def.annots}
  \cup UNION {(IF is_leaf(p) THEN resolve_annot(w, p.def.annot, black) ELSE {})
                \cup UNION {resolve_container(w, v, black) : v \in Given(p.def.value)} :
              p \in cousin_defs(w, def, black)}

resolve_container(w, t, black) ==
  CASE t.n = "Record" -> {Container("RecordTerm", t)}
    [] t.n = "Var" ->
         LET def == get_def(w.usage, t.id)
         IN  IF t.id \in black \/ def = NoDef THEN {} ELSE resolve_def_with_path(w, def, black \cup {t.id})
    [] t.n = "Op" /\ t.op = "Merge" -> UNION {resolve_container(w, s, black) : s \in Range(t.args)}
    [] IsAccess(t) -> containers_at_path(w, t.args[1], <<ident(t.id)>>, black)
    [] t.n = "Let" -> resolve_container(w, t.body, black)
    [] t.n = "Annot" -> resolve_annot(w, t.annot, black) \cup resolve_container(w, t.inner, black)
    [] t.n = "Type" -> resolve_type(w, t.typ, black)
    [] OTHER -> {}

resolve_type(w, t, black) ==
  CASE t.op = "Record" -> {Container("RecordType", t.sub[1])}
    [] t.op = "Enum" -> {Container("EnumType", t.sub[1])}
    [] t.op = "Dict" -> {Container("Dict", t.sub[1])}
    [] t.op = "Array" -> {Container("Array", t.sub[1])}
    [] t.op = "Contract" -> resolve_container(w, t.ast, black)
    [] OTHER -> {}

resolve_record(w, t) == filter_records(resolve_container(w, t, {}))
resolve_path(w, t, path) == filter_records(containers_at_path(w, t, path, {}))

----------------------------------------------------------------------------
(***************************************************************************)
(* Cursors (PositionLookup): an identifier, the smallest term around it    *)
(* and, for a field, the piece it defines.  At the field of an access      *)
(* there is no identifier in the table.                                    *)
(***************************************************************************)
NoPiece == [def |-> [path |-> <<>>], i |-> 0]
Cursor(loc, known, t, piece) == [loc |-> loc, known |-> known, t |-> t, piece |-> piece]
CursorsOf(t) ==
  LET ids(bs) == {Cursor(bs[i].id, TRUE, t, NoPiece) : i \in DOMAIN bs}
  IN  CASE t.n = "Fun" -> UNION {ids(pat_bindings(p)) : p \in Range(t.args)}
        [] t.n = "Let" -> UNION {ids(pat_bindings(b.pat)) : b \in Range(t.bs)}
        [] t.n = "Match" -> UNION {ids(pat_bindings(b.pat)) : b \in Range(t.branches)}
        [] t.n = "Var" -> {Cursor(t.id, TRUE, t, NoPiece)}
        [] IsAccess(t) -> {Cursor(t.id, FALSE, t, NoPiece)}
        [] t.n = "Record" ->
             UNION {{Cursor(d.path[j].id, TRUE, t, Piece(d, j)) : j \in {k \in DOMAIN d.path : d.path[k].expr = NoAst}} :
                    d \in Range(t.defs)}
             \cup {Cursor(i.id, TRUE, t, NoPiece) : i \in Range(t.includes)}
        [] OTHER -> {}
\* The position of the definition that the cursor is in.
DefAt(cur) == Under(cur.t.pos, "d", CHOOSE i \in DOMAIN cur.t.defs : cur.t.defs[i] = cur.piece.def)
Cursors(w) == UNION {CursorsOf(t) : t \in w.terms}

----------------------------------------------------------------------------
(***************************************************************************)
(* Definitions, references and renaming.                                   *)
(***************************************************************************)
PieceLocs(pieces) == {piece_ident(backtrack(p)) : p \in pieces} \ {""}

access_defs(w, t) == UNION {field_locs(c, ident(t.id)) : c \in resolve_record(w, t.args[1])}

\* The first binding with a variable of this name; a variable that is not
\* at a path has no definition elsewhere.
let_defs(w, t, x) ==
  LET of(b) == SelectSeq(pat_bindings(b.pat), LAMBDA pb : ident(pb.id) = x)
      with == SelectSeq(t.bs, LAMBDA b : of(b) # <<>>)
      path == of(with[1])[1].path
  IN  IF with = <<>> \/ path = <<>> THEN {}
      ELSE UNION {field_locs(c, path[Len(path)]) : c \in resolve_path(w, with[1].value, SubSeq(path, 1, Len(path) - 1))}

get_defs(w, cur) ==
  LET t == cur.t
  IN  CASE t.n = "Var" ->
             LET def == get_def(w.usage, t.id)
                 cousins == cousin_defs(w, def, {})
             IN  IF def = NoDef THEN {} ELSE IF cousins = {} THEN {def.id} ELSE PieceLocs(cousins)
        [] IsAccess(t) -> access_defs(w, t)
        [] t.n = "Let" /\ cur.known -> let_defs(w, t, ident(cur.loc))
        [] t.n = "Record" /\ cur.known ->
             IF cur.piece = NoPiece THEN PieceLocs(cousin_defs_at(w, t, ident(cur.loc), {}))
             ELSE IF ~StaticUpTo(cur.piece.def, cur.piece.i - 1) THEN {}
             ELSE PieceLocs(cousin_defs_at_path(w, t, Names(cur.piece.def, cur.piece.i - 1), ident(cur.loc), {}))
        [] OTHER -> {}

\* The accesses, in all files, whose definitions include this field.
get_static_accesses(w, x) == {t \in w.terms : IsAccess(t) /\ ident(t.id) = x}
get_field_refs(w, loc) ==
  IF \E cur \in Cursors(w) : cur.loc = loc /\ cur.known /\ cur.t.n = "Record"
  THEN {a.id : a \in {t \in get_static_accesses(w, ident(loc)) : loc \in access_defs(w, t)}}
  ELSE {}

\* References: the uses of the definitions, with the definitions if asked.
handle_references(w, cur, include_declaration) ==
  UNION {(IF include_declaration THEN {d} ELSE {}) \cup get_usages(w.usage, d) \cup get_field_refs(w, d) :
           d \in get_defs(w, cur) \cup (IF cur.known THEN {cur.loc} ELSE {})}
\* The positions that get the new name.
handle_rename(w, cur) == handle_references(w, cur, TRUE)

----------------------------------------------------------------------------
(***************************************************************************)
(* Completion.                                                             *)
(***************************************************************************)
\* The fields offered for a record: one, for a piece of a definition.  A
\* field with a single definition has a position.
Item(x, loc) == [name |-> x, loc |-> loc]
completion_items(c) ==
  LET sole(x) == {d.path[1].id : d \in defs_of(c.it, x)}
  IN  CASE c.c = "RecordTerm" ->
             {Item(x, IF Cardinality(sole(x)) = 1 THEN CHOOSE l \in sole(x) : TRUE ELSE "") : x \in RootIds(c.it)}
        [] c.c = "RecordType" -> {Item(ident(r.id), "") : r \in Rows(c.it)}
        [] OTHER -> {Item(ident(x), x) : x \in {piece_ident(c.it)} \ {""}}
Items(cs) == UNION {completion_items(c) : c \in filter_records(cs)}
remove_myself(items, loc) == {i.name : i \in {j \in items : j.loc = "" \/ j.loc # loc}}

RECURSIVE extract_static_path(_)
extract_static_path(t) ==
  IF IsAccess(t)
  THEN LET p == extract_static_path(t.args[1]) IN [p EXCEPT !.path = Append(@, ident(t.id))]
  ELSE [start |-> t, path |-> <<>>]

record_path_completion(w, t) ==
  LET p == extract_static_path(t) IN Items(resolve_path(w, p.start, p.path))
field_completion(w, t, path) ==
  Items(resolve_containers_at_path(w, resolve_record(w, t) \cup filter_records(cousin_containers(w, t, {})), path, {}))
env_completion(w, t) == {Item(x, "") : x \in DOMAIN w.usage.envs[t.pos]}

is_dynamic_key_of(t, p) == p.n = "Record" /\ \E d \in Range(p.defs) : d.path[1].expr = t
\* At an error, in the place of a field name, a path that starts with a
\* variable is one of fields.
incomplete_completion(w, err) ==
  LET p == extract_static_path(err.text)
  IN  IF err.text = NoAst THEN env_completion(w, err)
      ELSE IF ~is_dynamic_key_of(err, parent(w, err).t) THEN record_path_completion(w, err.text)
      ELSE IF p.start.n = "Var" THEN field_completion(w, err, <<ident(p.start.id)>> \o p.path)
      ELSE record_path_completion(w, p.start)

completions(w, cur, t) ==
  CASE IsAccess(t) -> record_path_completion(w, t.args[1])
    [] t.n = "ParseError" -> incomplete_completion(w, t)
    [] t.n = "Record" ->
         IF cur.piece = NoPiece \/ StaticUpTo(cur.piece.def, cur.piece.i - 1)
         THEN field_completion(w, t, IF cur.piece = NoPiece THEN <<>> ELSE Names(cur.piece.def, cur.piece.i - 1))
         ELSE {}
    [] OTHER -> env_completion(w, t)
handle_completion(w, cur) == remove_myself(completions(w, cur, cur.t), cur.loc)

----------------------------------------------------------------------------
(***************************************************************************)
(* A file: its analysis, and what was typed before an error is analysed in *)
(* the scope of the error (amend_parse_error).                             *)
(***************************************************************************)
amend_parse_error(visited) ==
  UNION {fill(e.t.text, e.env) : e \in {v \in visited : v.t.n = "ParseError" /\ v.t.text # NoAst}}
Analysis(file) ==
  LET Amended(visited) == UsageLookup(visited \cup amend_parse_error(visited))
  IN  World(Subterms(file), Amended(fill(file, NoDefs)))
=============================================================================
