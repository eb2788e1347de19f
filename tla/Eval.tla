-------------------------------- MODULE Eval --------------------------------
(***************************************************************************)
(* The call-by-need abstract machine of core/src/eval: thunks and their    *)
(* states (eval/cache/lazy.rs), the stack of arguments, primitive-operator *)
(* continuations and update frames (eval/stack.rs), the evaluation loop    *)
(* (eval/mod.rs), recursive records and their fixpoint (eval/fixpoint.rs), *)
(* merging with revertible thunks (eval/merge.rs), and the error-tolerant  *)
(* driver eval_permissive that keeps using one machine after an error.     *)
(*                                                                         *)
(* A term is a record whose field t tells its shape:                       *)
(*   num n | key n | label | fun x body | app f a | var x | thunk i        *)
(*   let rec x bound body | op1 op x a | op2 op a b | error                *)
(*   sealed n inner | recrec closurized fs | record fs | none              *)
(* fs is a function from the names of the fields to [value, prio, deps];   *)
(* value is the term "none" for a field without value.  The order of the   *)
(* fields, positions, metadata other than priorities, and contracts are    *)
(* left out.                                                               *)
(***************************************************************************)
EXTENDS Integers, Sequences, Folds

CONSTANTS Programs,         \* the closed terms a session may start from
          RecursionLimit    \* eval_permissive's depth limit

ASSUME LimitAssumption == RecursionLimit \in Nat \ {0}

VARIABLES
  state,     \* the ThunkState of every thunk allocated so far
  inner,     \* their InnerThunkData
  clock,     \* the number of steps that allocated thunks
  stack,     \* the stack of the machine, top first
  cur,       \* the closure [v, e] the evaluation loop is at
  mode,      \* "idle" between two calls of eval, "eval", "ok" or "err" after
  err,       \* the error of the last failed evaluation
  pending,   \* eval_permissive: for each level, the elements not evaluated yet
  path,      \* field names leading from the program to the term evaluated
  errs,      \* eval_permissive: the errors accumulated, with their paths
  prog,      \* the program of this session
  stuck      \* thunks created as copies of a thunk that was being evaluated

heapVars == <<state, inner, clock, stuck>>
driverVars == <<pending, path, errs, prog>>
vars == <<state, inner, clock, stack, cur, mode, err, pending, path, errs, prog, stuck>>

-----------------------------------------------------------------------------
(* Terms, closures and environments.                                       *)

ThunkState == {"suspended", "blackholed", "evaluated"}

None == [t |-> "none"]
Thunk(i) == [t |-> "thunk", i |-> i]
Fun(x, b) == [t |-> "fun", x |-> x, body |-> b]
App(f, a) == [t |-> "app", f |-> f, a |-> a]
Var(x) == [t |-> "var", x |-> x]
Num(n) == [t |-> "num", n |-> n]
Op1(o, x, a) == [t |-> "op1", op |-> o, x |-> x, a |-> a]
Op2(o, a, b) == [t |-> "op2", op |-> o, a |-> a, b |-> b]
Failing(e) == [t |-> "error", e |-> e]
RecRecord(c, fs) == [t |-> "recrec", closurized |-> c, fs |-> fs]
Record(fs) == [t |-> "record", fs |-> fs]

EmptyEnv == [x \in {} |-> 0]
Closure(v, e) == [v |-> v, e |-> e]
Bind(e, x, i) == [y \in DOMAIN e \cup {x} |-> IF y = x THEN i ELSE e[y]]

IsWhnf(v) == v.t \in {"num", "key", "label", "record"}

IsConstant(v) ==
  \/ v.t \in {"num", "key", "label"}
  \/ v.t = "record" /\ DOMAIN v.fs = {}

-----------------------------------------------------------------------------
(* Thunk data.  A standard thunk holds a closure; a revertible one keeps   *)
(* the original expression, its dependencies and, once built, a cached     *)
(* closure.                                                                *)

Standard(c) == [rev |-> FALSE, built |-> TRUE, c |-> c, orig |-> c, deps |-> {}]
Revertible(c, deps) == [rev |-> TRUE, built |-> FALSE, c |-> c, orig |-> c, deps |-> deps]

NewRev(c, deps) == IF deps = {} THEN Standard(c) ELSE Revertible(c, deps)

\* init_cached: the environment of the original expression extended with the
\* recursive environment, restricted to the dependencies.
BuildCached(d, recEnv) ==
  IF ~ d.rev THEN d
  ELSE LET e == d.orig.e
           ext == DOMAIN recEnv \cap d.deps
       IN [d EXCEPT !.built = TRUE,
                    !.c = Closure(d.orig.v,
                                  [y \in DOMAIN e \cup ext |->
                                     IF y \in ext THEN recEnv[y] ELSE e[y]])]

Update(d, c) == [rev |-> d.rev, built |-> TRUE, c |-> c, orig |-> d.orig, deps |-> d.deps]

(* An allocated thunk is named after the step that allocates it, a field   *)
(* or variable and the role it plays for it.                               *)
NewId(x, role) == [at |-> clock, x |-> x, role |-> role]

Extend(f, g) == [i \in DOMAIN f \cup DOMAIN g |-> IF i \in DOMAIN g THEN g[i] ELSE f[i]]

\* Adds thunks, given by their states and their data.
Allocate(sts, ds) ==
  /\ state' = Extend(state, sts)
  /\ inner' = Extend(inner, ds)
  /\ stuck' = stuck \cup {i \in DOMAIN sts : sts[i] = "blackholed"}
  /\ clock' = clock + 1

Add(i, d) == Allocate([j \in {i} |-> "suspended"], [j \in {i} |-> d])

\* A Thunk is a counted pointer to a live value block.
Allocated(v) == v.t = "thunk" => v.i \in DOMAIN state

-----------------------------------------------------------------------------
(* The stack.                                                              *)

IdxFrame(i) == [k |-> "idx", i |-> i]
ArgFrame(c) == [k |-> "arg", c |-> c]

Push(f) == stack' = <<f>> \o stack

IsIdx(n) == stack[n].k = "idx"
TopIs(ks) == stack # <<>> /\ stack[1].k \in ks
IsTopIdx == TopIs({"idx"})

\* The number of update frames above the first other item.
TopIndices == CHOOSE n \in 0 .. Len(stack) :
                /\ \A k \in 1 .. n : IsIdx(k)
                /\ n < Len(stack) => ~ IsIdx(n + 1)

\* update_at_indices pops those frames and updates their thunks: the effect on
\* the thunks.
UpdateAtIndices(n, c) ==
  LET upd == {stack[k].i : k \in 1 .. n}
  IN /\ state' = [i \in DOMAIN state |-> IF i \in upd THEN "evaluated" ELSE state[i]]
     /\ inner' = [i \in DOMAIN inner |-> IF i \in upd THEN Update(inner[i], c) ELSE inner[i]]
     /\ UNCHANGED <<clock, stuck>>

Below(n) == SubSeq(stack, n + 1, Len(stack))

\* Mutant: the stack is dropped without unwinding it.
ResetDropsFrames ==
  /\ stack' = <<>>
  /\ UNCHANGED heapVars

\* Mutant: every thunk is reset, not only those under evaluation.
ResetEverything ==
  /\ stack' = <<>>
  /\ state' = [i \in DOMAIN state |-> IF i \in stuck THEN state[i] ELSE "suspended"]
  /\ UNCHANGED <<inner, clock, stuck>>

\* VirtualMachine::reset: unwind the stack, resetting the thunks whose update
\* frames it holds.
Reset ==
  LET upd == {stack[k].i : k \in {m \in DOMAIN stack : IsIdx(m)}}
  IN /\ stack' = <<>>
     /\ state' = [i \in DOMAIN state |-> IF i \in upd THEN "suspended" ELSE state[i]]
     /\ UNCHANGED <<inner, clock, stuck>>

-----------------------------------------------------------------------------
(* The evaluation loop.  An iteration either goes on with another closure  *)
(* or fails; a failure leaves stack and thunks as they are.                *)

At(ts) == mode = "eval" /\ cur.v.t \in ts

Continue(v, e) == cur' = Closure(v, e) /\ UNCHANGED <<mode, err, driverVars>>

Fail(e) == mode' = "err" /\ err' = e /\ UNCHANGED <<cur, driverVars>>

Bound == cur.v.t = "var" => cur.v.x \in DOMAIN cur.e
Target == IF cur.v.t = "thunk" THEN cur.v.i ELSE cur.e[cur.v.x]

\* CBNCache::get_update_index on a thunk that is not black-holed: one that is
\* evaluated or already in weak head normal form gets no update frame.
GetUpdateIndex(i) ==
  \/ /\ state[i] = "evaluated" \/ IsWhnf(inner[i].c.v)
     /\ state' = [state EXCEPT ![i] = "evaluated"]
     /\ UNCHANGED stack
  \/ /\ state[i] # "evaluated" /\ ~ IsWhnf(inner[i].c.v)
     /\ state' = [state EXCEPT ![i] = "blackholed"]
     /\ Push(IdxFrame(i))

EnterCacheIndex ==
  /\ At({"thunk", "var"}) /\ Bound
  /\ \E i \in DOMAIN state :
       /\ i = Target
       /\ inner[i].built
       /\ state[i] # "blackholed"
       /\ GetUpdateIndex(i)
       /\ Continue(inner[i].c.v, inner[i].c.e)
  /\ UNCHANGED <<inner, clock, stuck>>

EnterBlackholed ==
  /\ At({"thunk", "var"}) /\ Bound
  /\ \E i \in DOMAIN state : i = Target /\ inner[i].built /\ state[i] = "blackholed"
  /\ Fail("InfiniteRecursion")
  /\ UNCHANGED <<heapVars, stack>>

RuntimeError ==
  /\ At({"error"})
  /\ Fail(cur.v.e)
  /\ UNCHANGED <<heapVars, stack>>

EvalApp ==
  /\ At({"app"})
  /\ Push(ArgFrame(Closure(cur.v.a, cur.e)))
  /\ Continue(cur.v.f, cur.e)
  /\ UNCHANGED heapVars

EvalLet ==
  /\ At({"let"})
  /\ LET i == NewId(cur.v.x, "let")
         env == Bind(cur.e, cur.v.x, i)
     IN /\ Add(i, Standard(Closure(cur.v.bound, IF cur.v.rec THEN env ELSE cur.e)))
        /\ Continue(cur.v.body, env)
  /\ UNCHANGED stack

EvalOp1 ==
  /\ At({"op1"})
  /\ Push([k |-> "op1", op |-> cur.v.op, x |-> cur.v.x])
  /\ Continue(cur.v.a, cur.e)
  /\ UNCHANGED heapVars

EvalOp2 ==
  /\ At({"op2"})
  /\ Push([k |-> "op2first", op |-> cur.v.op, c |-> Closure(cur.v.b, cur.e)])
  /\ Continue(cur.v.a, cur.e)
  /\ UNCHANGED heapVars

-----------------------------------------------------------------------------
(* Recursive records: closurization, the recursive environment, patching.  *)

HasValue(f) == f.value.t # "none"

\* The fields closurize_rec_record wraps in a thunk.
ToClosurize(v) ==
  IF v.closurized THEN {}
  ELSE {x \in DOMAIN v.fs : HasValue(v.fs[x]) /\ ~ IsConstant(v.fs[x].value)}

\* The thunks patch_field builds, other than those closurized just before.
Patched(v) == {v.fs[x].value.i : x \in {y \in DOMAIN v.fs : v.fs[y].value.t = "thunk"}}

RecEnv(v) == [x \in DOMAIN v.fs |-> NewId(x, "rec")]

ClosurizedValue(v, x) ==
  IF x \in ToClosurize(v) THEN Thunk(NewId(x, "value")) ELSE v.fs[x].value

\* closurize_rec_record, and patch_field at once.
Closurized(v, x) ==
  BuildCached(NewRev(Closure(v.fs[x].value, cur.e), v.fs[x].deps), RecEnv(v))

\* rec_env: an indirection to the value of the field, or the error that it has
\* none (the second thunk that a constant gets on the way is left out).
Indirection(v, x) ==
  Standard(Closure(IF HasValue(v.fs[x]) THEN ClosurizedValue(v, x)
                   ELSE Failing("MissingFieldDef"), EmptyEnv))

RecRecordIds(v) == {NewId(x, "value") : x \in ToClosurize(v)}
                   \cup {NewId(x, "rec") : x \in DOMAIN v.fs}
RecRecordData(v, i) == IF i.role = "value" THEN Closurized(v, i.x) ELSE Indirection(v, i.x)

\* patch_field builds the cached value of each revertible thunk.
Patch(v) == [i \in DOMAIN inner |-> IF i \in Patched(v) THEN BuildCached(inner[i], RecEnv(v))
                                    ELSE inner[i]]

(* A record literal first puts its fields in thunks (closurized: the merge *)
(* of two records already did).  rec_env then allocates one thunk for each *)
(* field, and last patch_field builds the cached values.                   *)
EvalRecRecord ==
  /\ At({"recrec"})
  /\ \A x \in DOMAIN cur.v.fs : Allocated(cur.v.fs[x].value)
  /\ \A i \in Patched(cur.v) : inner[i].rev => ~ inner[i].built
  /\ state' = Extend(state, [i \in RecRecordIds(cur.v) |-> "suspended"])
  /\ inner' = Extend(Patch(cur.v), [i \in RecRecordIds(cur.v) |-> RecRecordData(cur.v, i)])
  /\ clock' = clock + 1
  /\ Continue(Record([x \in DOMAIN cur.v.fs |->
                        [cur.v.fs[x] EXCEPT !.value = ClosurizedValue(cur.v, x)]]), EmptyEnv)
  /\ UNCHANGED <<stuck, stack>>

-----------------------------------------------------------------------------
(* Merging two records (merge.rs).  Fields of one side only, and the field *)
(* that wins by its priority, are reverted.  Two values of the same        *)
(* priority are saturated and merged by a new thunk.                       *)

Reverted(i) == [inner[i] EXCEPT !.built = FALSE, !.c = inner[i].orig]

\* The dependencies in some order, the same wherever they are listed.
InOrder(S) == MapThenFoldSet(LAMBDA x, xs : <<x>> \o xs, <<>>, LAMBDA x : x,
                             LAMBDA T : CHOOSE x \in T : TRUE, S)

ExplicitFun(xs, v) ==
  LET f[n \in 0 .. Len(xs)] == IF n = 0 THEN v ELSE Fun(xs[Len(xs) - n + 1], f[n - 1])
  IN f[Len(xs)]
Applied(v, xs) ==
  LET f[n \in 0 .. Len(xs)] == IF n = 0 THEN v ELSE App(f[n - 1], Var(xs[n]))
  IN f[Len(xs)]

\* saturate: the original expression abstracted over the dependencies in a fresh
\* thunk, which is then applied to them.  The data of a standard thunk are
\* cloned, its state included.
SaturatedData(i, names) ==
  IF ~ inner[i].rev THEN inner[i]
  ELSE Standard(Closure(ExplicitFun(InOrder(names \cap inner[i].deps), inner[i].orig.v),
                        inner[i].orig.e))
SaturatedState(i) == IF inner[i].rev THEN "suspended" ELSE state[i]
SaturatedTerm(i, new, names) == Applied(Thunk(new), InOrder(names \cap inner[i].deps))

IsThunk(v) == v.t = "thunk"
DepsOf(v) == IF IsThunk(v) THEN inner[v.i].deps ELSE {}

\* Mutant: the left value wins a tie of priorities.
ChoiceFirstWins(f, g) ==
  IF HasValue(f) /\ (HasValue(g) => f.prio >= g.prio) THEN "left" ELSE "right"

\* What merge_fields makes of two fields of one name: it merges their values,
\* or it keeps the left or the right one.
Choice(f, g) ==
  IF HasValue(f) /\ HasValue(g) /\ f.prio = g.prio THEN "both"
  ELSE IF HasValue(f) /\ (HasValue(g) => f.prio > g.prio) THEN "left"
  ELSE "right"

Neutral == 1   \* the priority of a field without annotation; default is 0

\* A merge m has the fields of both records, m.left and m.right.
Names(m) == DOMAIN m.left \cup DOMAIN m.right
Operand(m, x, side) == m[side][x].value

\* The side that field x comes from, or "both".
From(m, x) ==
  IF x \notin DOMAIN m.right THEN "left"
  ELSE IF x \notin DOMAIN m.left THEN "right"
  ELSE Choice(m.left[x], m.right[x])

Used(m) == {p \in Names(m) \X {"left", "right"} : From(m, p[1]) \in {p[2], "both"}}

\* The operands that get a thunk of their own: standard ones are shared unless
\* they are merged.
Copied(m) ==
  {p \in Used(m) : /\ IsThunk(Operand(m, p[1], p[2]))
                   /\ From(m, p[1]) = "both" \/ inner[Operand(m, p[1], p[2]).i].rev}

Saturated(m, x, side) ==
  LET v == Operand(m, x, side)
  IN IF IsThunk(v) THEN SaturatedTerm(v.i, NewId(x, side), Names(m)) ELSE v

\* fields_merge_closurize: the thunk of a merged field.
Merged(m, x) ==
  NewRev(Closure(Op2("merge", Saturated(m, x, "left"), Saturated(m, x, "right")), EmptyEnv),
         DepsOf(Operand(m, x, "left")) \cup DepsOf(Operand(m, x, "right")))

MergeIds(m) == {NewId(p[1], p[2]) : p \in Copied(m)}
               \cup {NewId(x, "both") : x \in {y \in Names(m) : From(m, y) = "both"}}

CopyOf(m, i) == Operand(m, i.x, i.role).i

MergeData(m, i) ==
  IF i.role = "both" THEN Merged(m, i.x)
  ELSE IF From(m, i.x) = "both" THEN SaturatedData(CopyOf(m, i), Names(m))
  ELSE Reverted(CopyOf(m, i))

MergeState(m, i) ==
  IF i.role # "both" /\ From(m, i.x) = "both" THEN SaturatedState(CopyOf(m, i)) ELSE "suspended"

MergeField(m, x) ==
  LET from == From(m, x)
  IN IF from = "both"
     THEN [value |-> Thunk(NewId(x, "both")), deps |-> {}, prio |-> m.left[x].prio]
     ELSE [value |-> IF <<x, from>> \in Copied(m) THEN Thunk(NewId(x, from))
                     ELSE Operand(m, x, from),
           deps |-> {},
           prio |-> IF HasValue(m[from][x]) \/ x \notin DOMAIN m.left \cap DOMAIN m.right
                    THEN m[from][x].prio ELSE Neutral]

MergeRecords(m) ==
  /\ \A p \in Used(m) : Allocated(Operand(m, p[1], p[2]))
  /\ Allocate([i \in MergeIds(m) |-> MergeState(m, i)], [i \in MergeIds(m) |-> MergeData(m, i)])
  /\ Continue(RecRecord(TRUE, [x \in Names(m) |-> MergeField(m, x)]), EmptyEnv)

-----------------------------------------------------------------------------
(* Weak head normal forms: what happens next depends on the stack.         *)

AtWhnf == At({"num", "key", "label", "record", "fun"})

EvalUpdate ==
  /\ AtWhnf /\ IsTopIdx
  /\ UpdateAtIndices(TopIndices, cur)
  /\ stack' = Below(TopIndices)
  /\ UNCHANGED <<cur, mode, err, driverVars>>

EvalFun ==
  /\ At({"fun"}) /\ TopIs({"arg"})
  /\ Add(NewId(cur.v.x, "arg"), Standard(stack[1].c))
  /\ stack' = Tail(stack)
  /\ Continue(cur.v.body, Bind(cur.e, cur.v.x, NewId(cur.v.x, "arg")))

NotAFunc ==
  /\ AtWhnf /\ cur.v.t # "fun" /\ TopIs({"arg"})
  /\ Fail("NotAFunc")
  /\ stack' = Tail(stack)
  /\ UNCHANGED heapVars

EvalDone ==
  /\ AtWhnf /\ stack = <<>>
  /\ mode' = "ok"
  /\ UNCHANGED <<heapVars, stack, cur, err, driverVars>>

\* continue_op pops the continuation.
Pops(kind, op) == AtWhnf /\ TopIs({kind}) /\ stack[1].op = op /\ stack' = Tail(stack)

RecordAccess ==
  /\ Pops("op1", "access")
  /\ UNCHANGED heapVars
  /\ LET x == stack[1].x
     IN \/ cur.v.t # "record" /\ Fail("TypeError")
        \/ cur.v.t = "record" /\ x \notin DOMAIN cur.v.fs /\ Fail("FieldMissing")
        \/ /\ cur.v.t = "record" /\ x \in DOMAIN cur.v.fs
           /\ LET f == cur.v.fs[x]
              IN IF HasValue(f) THEN Continue(f.value, cur.e) ELSE Fail("MissingFieldDef")

\* seq drops its evaluated argument and goes on with the one on the stack.
EvalSeq ==
  /\ AtWhnf /\ TopIs({"op1"}) /\ stack[1].op = "seq"
  /\ UNCHANGED heapVars
  /\ \/ /\ Len(stack) > 1 /\ stack[2].k = "arg"
        /\ stack' = Below(2)
        /\ Continue(stack[2].c.v, stack[2].c.e)
     \/ /\ Len(stack) > 1 => stack[2].k # "arg"
        /\ stack' = Tail(stack)
        /\ Fail("NotEnoughArgs")

SecondArg ==
  /\ AtWhnf /\ TopIs({"op2first"})
  /\ stack' = <<[k |-> "op2second", op |-> stack[1].op, c |-> cur]>> \o Tail(stack)
  /\ Continue(stack[1].c.v, stack[1].c.e)
  /\ UNCHANGED heapVars

Plus ==
  /\ Pops("op2second", "plus")
  /\ UNCHANGED heapVars
  /\ LET v == stack[1].c.v
     IN IF v.t = "num" /\ cur.v.t = "num" THEN Continue(Num(v.n + cur.v.n), EmptyEnv)
        ELSE Fail("TypeError")

Seal ==
  /\ Pops("op2second", "seal")
  /\ UNCHANGED heapVars
  /\ LET v == stack[1].c.v
     IN IF v.t = "key" /\ cur.v.t = "label"
        THEN Continue(Fun("x", [t |-> "sealed", n |-> v.n, inner |-> Var("x")]), EmptyEnv)
        ELSE Fail("TypeError")

Merge ==
  /\ Pops("op2second", "merge")
  /\ LET v == stack[1].c.v
         w == cur.v
     IN \/ /\ v.t = "num" /\ w = v
           /\ Continue(v, EmptyEnv) /\ UNCHANGED heapVars
        \/ /\ v.t = "record" /\ w.t = "record" /\ (DOMAIN v.fs = {} \/ DOMAIN w.fs = {})
           /\ Continue(IF DOMAIN v.fs = {} THEN w ELSE v, EmptyEnv) /\ UNCHANGED heapVars
        \/ /\ v.t = "record" /\ w.t = "record" /\ DOMAIN v.fs # {} /\ DOMAIN w.fs # {}
           /\ MergeRecords([left |-> v.fs, right |-> w.fs])
        \/ /\ ~ (v.t = "num" /\ w = v) /\ ~ (v.t = "record" /\ w.t = "record")
           /\ Fail("MergeIncompatibleArgs") /\ UNCHANGED heapVars

(* A sealed term updates the indices first, then looks at what comes next: *)
(* unseal opens it, seq evaluates what is inside, anything else blames.    *)
EvalSealed ==
  /\ At({"sealed"})
  /\ LET n == TopIndices
         next == IF n < Len(stack) THEN stack[n + 1] ELSE [k |-> "none"]
         isUnseal == next.k = "op2second" /\ next.op = "unseal"
         isSeq == next.k = "op1" /\ next.op = "seq"
     IN /\ UpdateAtIndices(n, cur)
        /\ \/ /\ isUnseal
              /\ stack' = Below(n + 1)
              /\ IF next.c.v.t # "key" THEN Fail("TypeError")
                 ELSE IF next.c.v.n = cur.v.n THEN Continue(Fun("_", cur.v.inner), cur.e)
                 ELSE Continue(Fun("x", Var("x")), EmptyEnv)
           \/ isSeq /\ stack' = Below(n) /\ Continue(cur.v.inner, cur.e)
           \/ ~ isUnseal /\ ~ isSeq /\ stack' = Below(n) /\ Fail("BlameError")

\* unseal of something that is not sealed: go on with the argument that blames.
Unseal ==
  /\ Pops("op2second", "unseal")
  /\ UNCHANGED heapVars
  /\ IF stack[1].c.v.t = "key" THEN Continue(Fun("x", Var("x")), EmptyEnv)
     ELSE Fail("TypeError")

-----------------------------------------------------------------------------
(* eval_permissive: evaluate a term; if it is a record go on with each of  *)
(* its fields, and after an error reset the machine and go on.             *)

EvalNext ==
  /\ mode = "idle" /\ pending # <<>>
  /\ \E q \in pending[1] :
       /\ pending' = [pending EXCEPT ![1] = @ \ {q}]
       /\ path' = q.path
       /\ cur' = Closure(q.v, EmptyEnv)
  /\ mode' = "eval"
  /\ UNCHANGED <<heapVars, stack, err, errs, prog>>

\* Mutant: the loop over the elements does not notice that none is left.
ReturnNever ==
  /\ mode = "idle" /\ pending # <<>> /\ pending[1] = {}
  /\ UNCHANGED vars

\* All the elements at this level are done.
Return ==
  /\ mode = "idle" /\ pending # <<>> /\ pending[1] = {}
  /\ pending' = Tail(pending)
  /\ UNCHANGED <<heapVars, stack, cur, mode, err, path, errs, prog>>

Descend ==
  /\ mode = "ok"
  /\ mode' = "idle"
  /\ IF cur.v.t = "record"
     THEN LET fs == cur.v.fs
              defined == {x \in DOMAIN fs : HasValue(fs[x])}
          IN /\ pending' = IF Len(pending) < RecursionLimit
                           THEN <<{[path |-> Append(path, x), v |-> fs[x].value] :
                                   x \in defined}>> \o pending
                           ELSE pending
             /\ errs' = errs \cup {[path |-> Append(path, x), err |-> "MissingFieldDef"] :
                                   x \in DOMAIN fs \ defined}
     ELSE UNCHANGED <<pending, errs>>
  /\ UNCHANGED <<heapVars, stack, cur, err, path, prog>>

Recover ==
  /\ mode = "err"
  /\ mode' = "idle"
  /\ errs' = errs \cup {[path |-> path, err |-> err]}
  /\ Reset
  /\ UNCHANGED <<cur, err, pending, path, prog>>

Finished == mode = "idle" /\ pending = <<>> /\ UNCHANGED vars

-----------------------------------------------------------------------------
Init ==
  /\ prog \in Programs
  /\ state = EmptyEnv /\ inner = EmptyEnv /\ clock = 0 /\ stuck = {}
  /\ stack = <<>>
  /\ cur = Closure(None, EmptyEnv)
  /\ mode = "idle" /\ err = ""
  /\ pending = <<{[path |-> <<>>, v |-> prog]}>>
  /\ path = <<>> /\ errs = {}

Step ==
  \/ EnterCacheIndex \/ EnterBlackholed \/ RuntimeError
  \/ EvalApp \/ EvalLet \/ EvalOp1 \/ EvalOp2 \/ EvalRecRecord
  \/ EvalUpdate \/ EvalFun \/ NotAFunc \/ EvalDone
  \/ RecordAccess \/ EvalSeq \/ SecondArg \/ Plus \/ Seal \/ Unseal \/ Merge \/ EvalSealed
  \/ EvalNext \/ Return \/ Descend \/ Recover

Next == Step \/ Finished

Spec == Init /\ [][Next]_vars
FairSpec == Spec /\ WF_vars(Step)

-----------------------------------------------------------------------------
(* Properties.                                                             *)

\* The heap is well formed, and the stack holds only the items of stack.rs.
TypeOK ==
  /\ state \in [DOMAIN state -> ThunkState]
  /\ DOMAIN inner = DOMAIN state
  /\ clock \in Nat /\ \A i \in DOMAIN state : i.at \in 0 .. clock - 1
  /\ stack \in Seq({stack[n] : n \in DOMAIN stack})
  /\ \A n \in DOMAIN stack : stack[n].k \in {"idx", "arg", "op1", "op2first", "op2second"}
  /\ mode \in {"idle", "eval", "ok", "err"}
  /\ stuck \subseteq DOMAIN state

Frames(i) == {n \in DOMAIN stack : stack[n] = IdxFrame(i)}

\* Every update frame on the stack belongs to a black-holed thunk and no thunk
\* has two; a thunk is black-holed only while its frame is on the stack, or if
\* it was copied from one that was.  So update_at_indices updates each thunk
\* once, and reset and Drop (stack.rs, unwind) leave no thunk black-holed on
\* abort.
BlackholesOwned ==
  /\ \A n \in DOMAIN stack : IsIdx(n) => stack[n].i \in DOMAIN state \ stuck
  /\ \A i \in DOMAIN state :
       /\ i \notin stuck => (state[i] = "blackholed" <=> Frames(i) # {})
       /\ \A m, n \in Frames(i) : m = n
       /\ i \in stuck => state[i] = "blackholed"
  /\ mode \in {"idle", "ok"} => stack = <<>>

\* An evaluated thunk keeps its value: no later step of the machine, neither an
\* update, nor the fixpoint of a record merged from it, nor the unwinding after
\* an error, changes it.
ValuesStay ==
  [][\A i \in DOMAIN state :
        state[i] = "evaluated" => state'[i] = "evaluated" /\ inner'[i] = inner[i]]_vars

\* The panics of lazy.rs are unreachable: no thunk is entered before its cached
\* value is built, no cached value is built twice; and no variable that the
\* fixpoint should have bound is missing from the environment.
NoPanic ==
  /\ At({"thunk", "var"}) => Bound /\ Target \in DOMAIN state /\ inner[Target].built
  /\ At({"recrec"}) => \A i \in Patched(cur.v) : inner[i].rev => ~ inner[i].built

\* The session comes to an end: what would run forever is caught by a black
\* hole, and an error does not stop the remaining elements.
SessionEnds == <>[](mode = "idle" /\ pending = <<>>)
=============================================================================
