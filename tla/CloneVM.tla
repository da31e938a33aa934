------------------------------ MODULE CloneVM ------------------------------
(***************************************************************************)
(* cdup's interpreter of parsed C and Java code (cdup/src/vm.py), over the *)
(* address space of VMMemory and the arithmetic of cdup/src/kernel.py.     *)
(*                                                                         *)
(* A program is data: segments with statements, child segments and         *)
(* parameters.  The tree walk is a family of recursive operators that take *)
(* the interpreter's state s and give the next one; Python's exceptions    *)
(* are the field exc ("return", "break" and "continue" are control flow,   *)
(* "error" is any other).  The public calls, run() and call_fn(), are the  *)
(* actions of the machine: one VM object may serve several of them.        *)
(*                                                                         *)
(* Statement texts are represented by the form the code's text tests find  *)
(* in them; names are tuples, <<"x">> or <<"p", "x">> for the field p.x.   *)
(***************************************************************************)
EXTENDS VMMemory, FiniteSets

CONSTANTS Programs,   \* name -> [segs, fns, calls]: the programs to interpret
          MaxUnroll,  \* iterations after which a loop is cut
          MaxCalls    \* bound: public calls served by one VM

VARIABLES pick,       \* the program
          packaged,   \* run as python -m cdup and not as a script: the handler of
                      \* expression statements then fails to import expr
          vm, calls, last

vars == <<mem, pick, packaged, vm, calls, last>>

Segs == Programs[pick].segs

Fns == Programs[pick].fns

NoIter == -1

EmptyFn == [x \in {} |-> IntV(0)]

Raised(s) == s.exc # "none"

Raise(s, e) == [s EXCEPT !.exc = e]

Ok(s, v) == [s |-> s, v |-> v]

Fail(s) == [s |-> Raise(s, "error"), v |-> NoneV]

(***************************************************************************)
(* How one step follows another.  Then is for results [s, v], After for    *)
(* states: what raised goes on raising.  With names a result.              *)
(***************************************************************************)
With(x, Do(_)) == Do(x)

Then(r, Do(_)) == IF Raised(r.s) THEN Fail(r.s) ELSE Do(r)

After(s, Do(_)) == IF Raised(s) THEN s ELSE Do(s)

Num(v) == v.v[1]

IsInt(v) == v.t = "int"

\* bool(v) in Python.
Truth(v) == IF IsInt(v) THEN Num(v) # 0 ELSE v.v # <<>>

(***************************************************************************)
(* VMKernel: C's arithmetic on integers.  A result of "error" is a Python  *)
(* exception (division by zero, an operation on None or on a list).        *)
(***************************************************************************)
Flag(b) == IF b THEN 1 ELSE 0

Mag(n) == IF n < 0 THEN -n ELSE n

Quotient(a, b) == IF (a < 0) = (b < 0) THEN Mag(a) \div Mag(b) ELSE -(Mag(a) \div Mag(b))

Remainder(a, b) == IF a < 0 THEN -(Mag(a) % Mag(b)) ELSE Mag(a) % Mag(b)

Kernel2(op, a, b) ==
    CASE op = "add"     -> a + b
      [] op = "sub"     -> a - b
      [] op = "mul"     -> a * b
      [] op = "div"     -> Quotient(a, b)
      [] op = "mod"     -> Remainder(a, b)
      [] op = "cmp_eq"  -> Flag(a = b)
      [] op = "cmp_ne"  -> Flag(a # b)
      [] op = "cmp_lt"  -> Flag(a < b)
      [] op = "cmp_le"  -> Flag(a <= b)
      [] op = "cmp_gt"  -> Flag(a > b)
      [] op = "cmp_ge"  -> Flag(a >= b)
      [] op = "log_and" -> Flag(a # 0 /\ b # 0)
      [] op = "log_or"  -> Flag(a # 0 \/ b # 0)

Kernel1(op, a) == CASE op = "neg" -> -a [] op = "log_not" -> Flag(a = 0)

KernelEval(s, op, args) ==
    IF \E i \in DOMAIN args : ~IsInt(args[i]) THEN Fail(s)
    ELSE IF Len(args) = 1 THEN Ok(s, IntV(Kernel1(op, Num(args[1]))))
    ELSE IF op \in {"div", "mod"} /\ Num(args[2]) = 0 THEN Fail(s)
    ELSE Ok(s, IntV(Kernel2(op, Num(args[1]), Num(args[2]))))

\* The external functions VMKernel.op_call knows, of those on integers.
MathBuiltin(s, fn, args) ==
    IF \E i \in DOMAIN args : ~IsInt(args[i]) THEN Fail(s)
    ELSE CASE fn \in {"abs", "fabs"} -> Ok(s, IntV(Mag(Num(args[1]))))
           [] fn = "fmin" -> Ok(s, IF Num(args[2]) < Num(args[1]) THEN args[2] ELSE args[1])
           [] fn = "fmax" -> Ok(s, IF Num(args[2]) > Num(args[1]) THEN args[2] ELSE args[1])
           [] OTHER -> Fail(s)

(***************************************************************************)
(* Memory as the interpreter uses it: an access to an unmapped address     *)
(* raises, and a Python string used as an address is stored first.         *)
(***************************************************************************)
Address(s, v) ==
    CASE IsInt(v)    -> Ok(s, v)
      [] v.t = "str" -> Ok([s EXCEPT !.m = InternString(s.m, Items(v))], IntV(s.m.heap))
      [] OTHER       -> Fail(s)

HeapRead(s, v) ==
    Then(Address(s, v), LAMBDA a :
        IF Mapped(a.s.m, Num(a.v)) THEN Ok(a.s, ReadAt(a.s.m, Num(a.v))) ELSE Fail(a.s))

HeapWrite(s, a, v) ==
    IF IsInt(a) /\ Mapped(s.m, Num(a))
    THEN [s EXCEPT !.m = WriteAt(s.m, Num(a), v)] ELSE Raise(s, "error")

\* A list that becomes a pointer is copied to the heap.
Promote(s, v) ==
    CASE v.t = "list" -> Ok([s EXCEPT !.m = ListToHeap(s.m, Items(v))], IntV(s.m.heap))
      [] v.t = "rows" -> Ok([s EXCEPT !.m = RowsToHeap(s.m, v.w, Items(v))], IntV(s.m.heap))
      [] OTHER        -> Ok(s, v)

PromoteString(s, v) == IF v.t = "str" THEN Address(s, v) ELSE Ok(s, v)

\* What is kept where a pointer is declared or passed.
AsPointer(r) == With(Promote(r.s, r.v), LAMBDA p : PromoteString(p.s, p.v))

LooksLikeAddress(v) == IsInt(v) /\ Num(v) >= StackBase

\* op is add or sub: an operand that looks like an address makes the other
\* one the offset, whichever side it is on.
PointerArith(op, l, r) ==
    LET base  == IF LooksLikeAddress(l) THEN Num(l) ELSE Num(r)
        delta == IF LooksLikeAddress(l) THEN Num(r) ELSE Num(l)
    IN  IntV(IF op = "add" THEN base + delta ELSE base - delta)

Snapshot(s, f, names) == [x \in {y \in names : HasSlot(s.m, f, y)} |-> SlotValue(s.m, f, x)]

SlotOr0(s, f, x) == IF HasSlot(s.m, f, x) THEN SlotValue(s.m, f, x) ELSE IntV(0)

SetSlot(s, f, x, v) ==
    [s EXCEPT !.m = IF HasSlot(s.m, f, x) THEN WriteSlot(s.m, f, x, v) ELSE AllocSlot(s.m, f, x, v)]

NewSlot(s, f, x, v) == [s EXCEPT !.m = AllocSlot(s.m, f, x, v)]

\* _owning_fn: the function a segment belongs to, going up the parents.
RECURSIVE OwningFn(_)
OwningFn(seg) ==
    IF \E fn \in DOMAIN Fns : Fns[fn] = seg THEN CHOOSE fn \in DOMAIN Fns : Fns[fn] = seg
    ELSE OwningFn(CHOOSE p \in DOMAIN Segs : seg \in Range(Segs[p].kids))

\* _record: one event of the trace; stores and loads are its accesses
\* through addresses.
Row(seg, i, iter, reads, writes) ==
    [fn |-> OwningFn(seg), seg |-> seg, stmt |-> i, iter |-> iter, reads |-> reads, writes |-> writes,
     loads |-> EmptyFn, stores |-> EmptyFn, taken |-> "none"]

Record(s, row) == [s EXCEPT !.trace = Append(@, row)]

Test(cond) == IF cond THEN "yes" ELSE "no"

RECURSIVE Eval(_, _, _), EvalCall(_, _, _), ExecFrom(_, _, _, _, _, _), LoopFrom(_, _, _, _, _, _, _),
          CopyCells(_, _, _, _), StringEnd(_, _), CompareStrings(_, _, _)

(***************************************************************************)
(* _eval.  Operands are evaluated in the order of the code.  Two of its    *)
(* habits matter: "+" and "-" evaluate their operands to see whether one   *)
(* is an address and, when none is, evaluate them again for the kernel;    *)
(* "&&" and "||" evaluate both sides.                                      *)
(***************************************************************************)
EvalList(ns, f, s) ==
    FoldLeft(LAMBDA acc, n : With(Eval(n, f, acc.s), LAMBDA r : [s |-> r.s, v |-> Append(acc.v, r.v)]),
             [s |-> s, v |-> <<>>], ns)

\* A list beside an integer is moved to the heap.
Beside(s, v, other) == IF v.t \in {"list", "rows"} /\ IsInt(other) THEN Promote(s, v) ELSE Ok(s, v)

EvalAddSub(n, f, s) ==
    Then(Eval(n.a, f, s), LAMBDA a :
    Then(Eval(n.b, f, a.s), LAMBDA b :
    Then(Beside(b.s, a.v, b.v), LAMBDA l :
    Then(Beside(l.s, b.v, l.v), LAMBDA r :
        IF IsInt(l.v) /\ IsInt(r.v) /\ (LooksLikeAddress(l.v) \/ LooksLikeAddress(r.v))
        THEN Ok(r.s, PointerArith(n.op, l.v, r.v))
        ELSE Then(EvalList(<<n.a, n.b>>, f, r.s), LAMBDA again : KernelEval(again.s, n.op, again.v))))))

Load(s, a) ==
    Then(HeapRead(s, a), LAMBDA got :
        Ok([got.s EXCEPT !.loads = IF IsInt(a) THEN Put(@, Num(a), got.v) ELSE @], got.v))

\* Python counts back from the end.
Position(len, at) == IF at < 0 THEN len + at ELSE at

Size(arr) == IF arr.t = "rows" THEN Len(arr.v) \div arr.w ELSE Len(arr.v)

Element(s, arr, pos) ==
    IF pos \notin 0 .. Size(arr) - 1 THEN Fail(s)
    ELSE Ok(s, IF arr.t = "list" THEN Items(arr)[pos + 1]
               ELSE ListV([j \in 1 .. arr.w |-> arr.v[pos * arr.w + j]]))

EvalIndex(n, f, s) ==
    Then(Eval(n.b, f, s), LAMBDA i :
    Then(Eval(n.a, f, i.s), LAMBDA arr :
        IF ~IsInt(i.v) \/ arr.v.t \in {"none", "str"} THEN Fail(arr.s)
        ELSE IF IsInt(arr.v) THEN Load(arr.s, IntV(Num(arr.v) + Num(i.v)))
        ELSE Element(arr.s, arr.v, Position(Size(arr.v), Num(i.v)))))

EvalDeref(n, f, s) == Then(Eval(n.a, f, s), LAMBDA a : Load(a.s, a.v))

Delta(op) == IF op \in {"post_inc", "pre_inc"} THEN 1 ELSE -1

EvalIncDec(n, f, s) ==
    LET cur == SlotValue(s.m, f, n.a.x)
        new == IntV(Num(cur) + Delta(n.op))
    IN  IF ~(n.a.op = "name" /\ HasSlot(s.m, f, n.a.x)) THEN Eval(n.a, f, s)
        ELSE IF ~IsInt(cur) THEN Fail(s)
        ELSE Ok([s EXCEPT !.m = WriteSlot(s.m, f, n.a.x, new)],
                IF n.op \in {"post_inc", "post_dec"} THEN cur ELSE new)

Eval(n, f, s) ==
    IF Raised(s) THEN Fail(s)
    ELSE CASE n.op = "const"   -> Ok(s, IntV(n.n))
           [] n.op = "str"     -> Ok(s, StrV(n.codes))
           [] n.op \in {"name", "field"} ->
                  IF HasSlot(s.m, f, n.x) THEN Ok(s, SlotValue(s.m, f, n.x)) ELSE Fail(s)
           [] n.op = "addr_of" ->
                  IF HasSlot(s.m, f, n.x) THEN Ok(s, IntV(SlotAddr(s.m, f, n.x))) ELSE Fail(s)
           [] n.op = "call"    -> EvalCall(n, f, s)
           [] n.op = "deref"   -> EvalDeref(n, f, s)
           [] n.op = "index"   -> EvalIndex(n, f, s)
           [] n.op = "cast"    -> Eval(n.a, f, s)
           [] n.op \in {"post_inc", "post_dec", "pre_inc", "pre_dec"} -> EvalIncDec(n, f, s)
           [] n.op \in {"add", "sub"} -> EvalAddSub(n, f, s)
           [] OTHER -> Then(EvalList(IF n.op \in {"neg", "log_not"} THEN <<n.a>> ELSE <<n.a, n.b>>, f, s),
                            LAMBDA args : KernelEval(args.s, n.op, args.v))

(***************************************************************************)
(* The string and memory functions walk the cells one by one, so a walk    *)
(* that leaves the mapped cells keeps what it wrote and raises.            *)
(***************************************************************************)
CopyCells(s, dst, src, n) ==
    IF n = 0 THEN s
    ELSE With(HeapRead(s, src), LAMBDA got :
         After(got.s, LAMBDA t :
         With(HeapWrite(t, dst, got.v), LAMBDA w :
             IF Raised(w) \/ (n < 0 /\ got.v = IntV(0)) THEN w
             ELSE CopyCells(w, IntV(Num(dst) + 1), IntV(Num(src) + 1), n - 1))))

ToTerminator == -1      \* strcpy: copy up to and with the terminating zero

StringEnd(s, a) ==
    Then(HeapRead(s, a), LAMBDA got :
        IF got.v = IntV(0) THEN Ok(s, a) ELSE StringEnd(s, IntV(Num(a) + 1)))

CompareStrings(s, a, b) ==
    Then(HeapRead(s, a), LAMBDA x :
    Then(HeapRead(x.s, b), LAMBDA y :
        IF x.v # y.v THEN Ok(s, IntV(Num(x.v) - Num(y.v)))
        ELSE IF x.v = IntV(0) THEN Ok(s, IntV(0))
        ELSE CompareStrings(s, IntV(Num(a) + 1), IntV(Num(b) + 1))))

MemSet(s, dst, v, n) ==
    FoldLeft(LAMBDA acc, i : IF Raised(acc) THEN acc ELSE HeapWrite(acc, IntV(Num(dst) + i - 1), v),
             s, [i \in 1 .. n |-> i])

\* The text itself is left out; a format given as an address is read first.
Printf(s, args) ==
    Then(IF args # <<>> /\ LooksLikeAddress(args[1]) THEN StringEnd(s, args[1]) ELSE Ok(s, NoneV), LAMBDA end :
        Ok([s EXCEPT !.out = Append(@, args)], IntV(0)))

Builtins == {"malloc", "calloc", "realloc", "free", "strlen", "strcpy", "strcmp", "memset", "memcpy"}

IntSize == 4        \* malloc's cells are ints: bytes are divided by _sizeof("int")

CallBuiltin(fn, s, args) ==
    LET Arg(i)     == Num(args[i])
        Alloc(n)   == Ok([s EXCEPT !.m = AllocHeap(s.m, n, IntSize)], IntV(s.m.heap))
        Done(t, v) == IF Raised(t) THEN Fail(t) ELSE Ok(t, v)
    IN  IF fn # "free" /\ \E i \in DOMAIN args : ~IsInt(args[i]) THEN Fail(s)
        ELSE CASE fn = "malloc"  -> Alloc(Arg(1))
               [] fn = "calloc"  -> Alloc(Arg(1) * Arg(2))
               [] fn = "realloc" -> Alloc(Arg(2))
               [] fn = "free"    -> Ok(s, IntV(0))
               [] fn = "strlen"  -> Then(StringEnd(s, args[1]), LAMBDA e : Ok(s, IntV(Num(e.v) - Arg(1))))
               [] fn = "strcpy"  -> Done(CopyCells(s, args[1], args[2], ToTerminator), args[1])
               [] fn = "strcmp"  -> CompareStrings(s, args[1], args[2])
               [] fn = "memset"  -> Done(MemSet(s, args[1], args[2], Arg(3)), args[1])
               [] fn = "memcpy"  -> Done(CopyCells(s, args[1], args[2], IF Arg(3) < 0 THEN 0 ELSE Arg(3)), args[1])

(***************************************************************************)
(* _eval_call.  An argument whose evaluation raises is passed as 0; lists  *)
(* and strings are moved to the heap; a struct is passed field by field,   *)
(* by value.  The callee runs in a new frame.                              *)
(***************************************************************************)
Swallow(s) == Raise(s, "none")

Swallowed(r) == IF Raised(r.s) THEN Ok(Swallow(r.s), IntV(0)) ELSE r

OnHeap(r) == IF r.v.t = "list" /\ r.v.v # <<>> THEN Promote(r.s, r.v) ELSE PromoteString(r.s, r.v)

Bind(param, arg, f, callee, s) ==
    IF param.fields = <<>>
    THEN With(OnHeap(Swallowed(Eval(arg, f, s))), LAMBDA a : NewSlot(a.s, callee, param.x, a.v))
    ELSE FoldLeft(LAMBDA acc, fld : NewSlot(acc, callee, <<param.x[1], fld>>, SlotOr0(acc, f, <<arg.x[1], fld>>)),
                  s, param.fields)

BindAll(params, args, f, callee, s) ==
    FoldLeft(LAMBDA acc, i : Bind(params[i], args[i], f, callee, acc),
             s, [i \in 1 .. Min({Len(params), Len(args)}) |-> i])

Returned(s) ==
    CASE s.exc = "none"   -> Ok(s, NoneV)
      [] s.exc = "return" -> Ok([s EXCEPT !.exc = "none", !.ret = NoneV], s.ret)
      [] OTHER            -> [s |-> s, v |-> NoneV]

CallUser(seg, args, f, s) ==
    With(ExecFrom(seg, 1, 0, s.fr + 1, NoIter,
                  BindAll(Segs[seg].params, args, f, s.fr + 1, [s EXCEPT !.fr = s.fr + 1])),
         LAMBDA ran : Returned([ran EXCEPT !.loads = s.loads]))

\* The functions of C's library.
CallLibrary(fn, s, args) ==
    IF fn = "printf" THEN Printf(s, args)
    ELSE IF fn \in Builtins THEN CallBuiltin(fn, s, args)
    ELSE MathBuiltin(s, fn, args)

EvalCall(n, f, s) ==
    IF n.fn = "free" THEN Ok(s, IntV(0))
    ELSE IF n.fn \notin Builtins /\ n.fn \in DOMAIN Fns THEN CallUser(Fns[n.fn], n.args, f, s)
    ELSE With(EvalList(n.args, f, s), LAMBDA got :
         Then([got EXCEPT !.s.loads = s.loads], LAMBDA args : CallLibrary(n.fn, args.s, args.v)))

(***************************************************************************)
(* Declarations and assignments, by the form of the statement.             *)
(***************************************************************************)
ExecDeclAssign(st, seg, i, f, iter, s) ==
    LET Event(t, written) == Row(seg, i, iter, Snapshot(s, f, st.reads), Snapshot(t, f, written))
        Done(t, written) == Record(t, Event(t, written))
        Stored(t, a, v)  == Record(t, [Event(t, {}) EXCEPT !.stores = Put(EmptyFn, a, v)])
        SetField(t, j) == NewSlot(t, f, <<st.x[1], st.fields[j]>>,
                                  IF j <= Len(st.init.v) THEN IntV(st.init.v[j]) ELSE IntV(0))
        Bumped(cur, new) ==
            Record(SetSlot(s, f, st.x, new), Row(seg, i, iter, Put(EmptyFn, st.x, cur), Put(EmptyFn, st.x, new)))
        Declared(t) == Record(t, Row(seg, i, iter, EmptyFn, Snapshot(t, f, {st.x})))
        Value == Eval(st.e, f, [s EXCEPT !.loads = EmptyFn])
    IN  CASE st.form = "struct" ->
                 Done(FoldLeftDomain(SetField, s, st.fields), {<<st.x[1], st.fields[j]>> : j \in DOMAIN st.fields})
          [] st.form = "array"  ->
                 With(IF st.init.t = "list" THEN Promote(s, st.init) ELSE Ok(s, st.init), LAMBDA arr :
                     Done(NewSlot(arr.s, f, st.x, arr.v), {st.x}))
          [] st.form = "incdec" ->
                 With(SlotOr0(s, f, st.x), LAMBDA cur :
                     IF IsInt(cur) THEN Bumped(cur, IntV(Num(cur) + Delta(st.e.op))) ELSE Raise(s, "error"))
          [] st.form = "deref"  ->
                 With(Value, LAMBDA e :
                 After(e.s, LAMBDA t :
                     IF ~HasSlot(t.m, f, st.x) THEN Done(t, {})
                     ELSE With(SlotValue(t.m, f, st.x), LAMBDA p :
                          After(HeapWrite(t, p, e.v), LAMBDA w : Stored(w, Num(p), e.v)))))
          [] st.form = "normal" ->
                 With(Value, LAMBDA e :
                 With(IF st.ptr THEN AsPointer(e) ELSE e, LAMBDA val :
                 After(val.s, LAMBDA t :
                 With(SetSlot(t, f, st.x, val.v), LAMBDA u :
                     Record(u, [Event(u, {st.x}) EXCEPT !.loads = e.s.loads])))))
          [] st.form = "noinit" -> Declared(NewSlot(s, f, st.x, IntV(0)))

(***************************************************************************)
(* return, break and continue are recorded before they take effect.        *)
(***************************************************************************)
ExecControl(st, seg, i, f, iter, s) ==
    With(Record(s, Row(seg, i, iter, Snapshot(s, f, st.reads), EmptyFn)), LAMBDA t :
        IF st.form # "return" THEN Raise(t, st.form)
        ELSE With(IF st.e.op = "none" THEN Ok(t, NoneV) ELSE Eval(st.e, f, t), LAMBDA r :
             After(r.s, LAMBDA u : [Raise(u, "return") EXCEPT !.ret = r.v])))

ExecCallStmt(st, seg, i, f, iter, s) ==
    After(IF st.e.op = "call" THEN Eval(st.e, f, s).s ELSE s, LAMBDA t :
        Record(t, Row(seg, i, iter, Snapshot(s, f, st.reads), EmptyFn)))

(***************************************************************************)
(* Writes through a pointer reach the interpreter as expression            *)
(* statements, which it parses on the spot: *(e) = e2, **pp = e2 and       *)
(* a[e] = e2.  Whatever goes wrong, the missing module included, is        *)
(* swallowed and the statement leaves neither effect nor trace.            *)
(***************************************************************************)
ExecExprStmt(st, seg, i, f, iter, s) ==
    LET Event(t, written) == Row(seg, i, iter, Snapshot(t, f, st.reads), written)
        Stored(t, a, v) ==
            After(t, LAMBDA u :
            After(HeapWrite(u, a, v), LAMBDA w :
                Record(w, [Event(u, EmptyFn) EXCEPT !.stores = Put(EmptyFn, Num(a), v)])))
        Updated(t, arr, at, v) ==
            IF arr.t # "list" \/ at \notin 0 .. Len(arr.v) - 1 THEN t
            ELSE With([arr EXCEPT !.v[at + 1] = Num(v)], LAMBDA new :
                     Record([t EXCEPT !.m = WriteSlot(t.m, f, st.x, new)], Event(t, Put(EmptyFn, st.x, new))))
        AtIndex(t, i0, v) ==
            IF ~IsInt(i0) \/ ~HasSlot(t.m, f, st.x) THEN t
            ELSE With(SlotValue(t.m, f, st.x), LAMBDA arr :
                     IF IsInt(arr) THEN Stored(t, IntV(Num(arr) + Num(i0)), v)
                     ELSE Updated(t, arr, Position(Len(arr.v), Num(i0)), v))
    IN  CASE st.form = "other" -> Record(s, Event(s, EmptyFn))
          [] st.form # "other" /\ packaged -> s
          [] st.form = "pp" /\ ~packaged ->                         \* **pp = e
                 Swallow(With(Eval(st.e, f, s), LAMBDA rhs :
                         After(rhs.s, LAMBDA t :
                             IF ~HasSlot(t.m, f, st.x) THEN t
                             ELSE With(HeapRead(t, SlotValue(t.m, f, st.x)), LAMBDA pp : Stored(pp.s, pp.v, rhs.v)))))
          [] st.form \in {"deref", "index"} /\ ~packaged ->         \* *(p) = e, a[p] = e
                 Swallow(With(Eval(st.p, f, s), LAMBDA ptr :
                         With(Eval(st.e, f, ptr.s), LAMBDA val :
                         After(val.s, LAMBDA t :
                             IF st.form = "deref" THEN Stored(t, ptr.v, val.v) ELSE AtIndex(t, ptr.v, val.v)))))

(***************************************************************************)
(* Branches and loops.  Every statement of kind "branch" tests a condition *)
(* of its own; an else has none and counts as true.                        *)
(***************************************************************************)
ExecBranch(st, seg, i, child, f, iter, s) ==
    With(IF st.e.op = "none" THEN Ok(s, IntV(1)) ELSE Eval(st.e, f, s), LAMBDA c :
    After(c.s, LAMBDA u :
    With(Record(u, [Row(seg, i, iter, Snapshot(u, f, st.reads), EmptyFn) EXCEPT !.taken = Test(Truth(c.v))]), LAMBDA t :
        IF Truth(c.v) THEN ExecFrom(child, 1, 0, f, iter, t) ELSE t)))

\* _exec_update: the third clause of a for; it leaves no trace.
ExecUpdate(upd, f, s) ==
    CASE upd.form = "none"   -> s
      [] upd.form = "incdec" ->
             With(SlotOr0(s, f, upd.x), LAMBDA cur :
                 IF IsInt(cur) THEN SetSlot(s, f, upd.x, IntV(Num(cur) + Delta(upd.e.op))) ELSE Raise(s, "error"))
      [] upd.form = "assign" ->
             With(Eval(upd.e, f, s), LAMBDA e : After(e.s, LAMBDA t : SetSlot(t, f, upd.x, e.v)))

LoopTest(st, seg, i, f, iter, s) ==
    With(IF st.e.op = "none" THEN Ok(s, IntV(0)) ELSE Eval(st.e, f, s), LAMBDA c :
        IF Raised(c.s) THEN [s |-> c.s, cond |-> FALSE]
        ELSE [s |-> Record(c.s, [Row(seg, i, iter, Snapshot(s, f, st.reads), EmptyFn)
                                    EXCEPT !.taken = Test(Truth(c.v))]),
              cond |-> Truth(c.v)])

LoopBody(body, f, n, s) == ExecFrom(body, 1, 0, f, n, s)

\* Mutant: continue leaves the loop.
AfterBodyContinues(s) == s

AfterBody(s) == IF s.exc = "continue" THEN Raise(s, "none") ELSE s

LoopFrom(st, seg, i, body, f, n, s) ==
    LET Tested(t) == LoopTest(st, seg, i, f, n, t)
        Iterate(t, Do(_)) ==
            With(AfterBody(LoopBody(body, f, n, t)), LAMBDA ran :
                IF ran.exc = "break" THEN Raise(ran, "none") ELSE After(ran, Do))
        Again(t) == LoopFrom(st, seg, i, body, f, n + 1, t)
    IN  IF Raised(s) THEN s
        ELSE IF n >= MaxUnroll THEN [s EXCEPT !.capped = TRUE]
        ELSE IF st.form = "do"
        THEN Iterate(s, LAMBDA ran :
             With(Tested(ran), LAMBDA test : IF test.cond THEN Again(test.s) ELSE test.s))
        ELSE With(Tested(s), LAMBDA test :
             IF ~test.cond THEN test.s
             ELSE Iterate(test.s, LAMBDA ran : Again(ExecUpdate(st.upd, f, ran))))

ExecLoop(st, seg, i, body, f, s) ==
    LoopFrom(st, seg, i, body, f, 0,
             IF st.form = "for" /\ st.x # <<>> THEN SetSlot(s, f, st.x, st.init) ELSE s)

(***************************************************************************)
(* _exec_seg: the statements in order; the k-th branch or loop owns the    *)
(* k-th child segment.                                                     *)
(***************************************************************************)
ExecFrom(seg, i, k, f, iter, s) ==
    IF Raised(s) \/ i > Len(Segs[seg].stmts) THEN s
    ELSE LET st   == Segs[seg].stmts[i]
             kids == Segs[seg].kids
             own  == k < Len(kids)
         IN  CASE st.kind = "loop_head" ->
                    IF ~own THEN Raise(s, "error")
                    ELSE ExecFrom(seg, i + 1, k + 1, f, iter, ExecLoop(st, seg, i, kids[k + 1], f, s))
               [] st.kind = "branch" ->
                    IF ~own THEN ExecFrom(seg, i + 1, k, f, iter, s)
                    ELSE ExecFrom(seg, i + 1, k + 1, f, iter, ExecBranch(st, seg, i, kids[k + 1], f, iter, s))
               [] OTHER ->
                    ExecFrom(seg, i + 1, k, f, iter,
                             CASE st.kind \in {"decl", "assign"} -> ExecDeclAssign(st, seg, i, f, iter, s)
                               [] st.kind = "control"   -> ExecControl(st, seg, i, f, iter, s)
                               [] st.kind = "call"      -> ExecCallStmt(st, seg, i, f, iter, s)
                               [] st.kind = "expr"      -> ExecExprStmt(st, seg, i, f, iter, s)
                               [] st.kind = "func_decl" -> s)

(***************************************************************************)
(* The public calls.  run() clears output, trace and memory first;         *)
(* call_fn() does not, and binds the values it is given as they are.  An   *)
(* exception reaches the caller of both; what was done stays done.         *)
(***************************************************************************)
FreshState == [m |-> EmptyMemory, trace |-> <<>>, out |-> <<>>, capped |-> FALSE,
               fr |-> 0, exc |-> "none", ret |-> NoneV, loads |-> EmptyFn]

Invoke(fn, args, s) ==
    LET f     == s.fr + 1
        Give(t, i) == NewSlot(t, f, Segs[Fns[fn]].params[i].x, args[i])
    IN  IF fn \notin DOMAIN Fns THEN Raise(s, "error")
        ELSE With(ExecFrom(Fns[fn], 1, 0, f, NoIter, FoldLeftDomain(Give, [s EXCEPT !.fr = f], args)), LAMBDA ran :
                 IF ran.exc = "return" THEN Raise(ran, "none") ELSE [ran EXCEPT !.ret = NoneV])

Rest(s) == [s EXCEPT !.exc = "none", !.ret = NoneV, !.m = EmptyMemory]

Outcome(fn, args, before, ran) ==
    [fn |-> fn, args |-> args, ret |-> ran.ret, exc |-> ran.exc,
     out   |-> SubSeq(ran.out, Len(before.out) + 1, Len(ran.out)),
     trace |-> SubSeq(ran.trace, Len(before.trace) + 1, Len(ran.trace)),
     frame |-> before.fr + 1]

Serve(fn, args, before) ==
    \E ran \in {Invoke(fn, args, before)} :
        /\ calls < MaxCalls
        /\ calls' = calls + 1
        /\ mem' = ran.m
        /\ vm' = Rest(ran)
        /\ last' = Outcome(fn, args, before, ran)
        /\ UNCHANGED <<pick, packaged>>

CallFn(fn, args) == Serve(fn, args, [vm EXCEPT !.m = mem])

Run == Serve("main", <<>>, [FreshState EXCEPT !.fr = vm.fr])

NoCall == [fn |-> "", args |-> <<>>, ret |-> NoneV, exc |-> "none",
           out |-> <<>>, trace |-> <<>>, frame |-> 0]

VMInit == /\ pick \in DOMAIN Programs
          /\ packaged \in BOOLEAN
          /\ mem = EmptyMemory
          /\ vm = Rest(FreshState)
          /\ calls = 0
          /\ last = NoCall

VMNext == \/ \E c \in Programs[pick].calls : CallFn(c.fn, c.args)
          \/ "main" \in DOMAIN Fns /\ Run

VMSpec == VMInit /\ [][VMNext]_vars

(***************************************************************************)
(* Loops: the tests of one loop are numbered 0, 1, 2, ... without a gap    *)
(* while they succeed, whatever break, continue and nested calls do, and   *)
(* none passes the cap (_exec_loop records before or after its body,       *)
(* by the kind of the loop).                                               *)
(***************************************************************************)
IsTest(row) == Segs[row.seg].stmts[row.stmt].kind = "loop_head"

Same(r, q) == r.seg = q.seg /\ r.stmt = q.stmt

Before(k) == {j \in 1 .. k - 1 : Same(last.trace[j], last.trace[k])}

IterationsInOrder ==
    \A k \in DOMAIN last.trace :
        LET row  == last.trace[k]
            prev == last.trace[Max(Before(k))]
        IN  IsTest(row) =>
                /\ row.iter \in 0 .. MaxUnroll - 1
                /\ row.iter > 0 => Before(k) # {} /\ prev.iter = row.iter - 1 /\ prev.taken = "yes"

(***************************************************************************)
(* The trace explains itself: a slot is read with the value of the last    *)
(* event that wrote it, by name or through its address, also when the      *)
(* writer is a function that was called with the address.  The counter     *)
(* of a for loop is left out: its initial value and its updates leave no   *)
(* event (_exec_update).                                                   *)
(***************************************************************************)
Statements == UNION {Range(Segs[g].stmts) : g \in DOMAIN Segs}

Untraced == {st.x : st \in Statements} \cap {st.upd.x : st \in {t \in Statements : t.upd.form # "none"}}

Addresses(x) == {a \in DOMAIN mem.owner : mem.owner[a] = <<last.frame, x>>}

Writes(row, x) == (row.fn = last.fn /\ x \in DOMAIN row.writes) \/ DOMAIN row.stores \cap Addresses(x) # {}

Written(row, x) == IF x \in DOMAIN row.writes THEN row.writes[x]
                   ELSE row.stores[CHOOSE a \in DOMAIN row.stores \cap Addresses(x) : TRUE]

TraceExplainsReads ==
    \A k \in DOMAIN last.trace :
        LET row == last.trace[k]
        IN  row.fn = last.fn =>
                \A x \in DOMAIN row.reads \ Untraced :
                    LET writers == {j \in 1 .. k - 1 : Writes(last.trace[j], x)}
                    IN  writers # {} => row.reads[x] = Written(last.trace[Max(writers)], x)

(***************************************************************************)
(* Two statements do not mean what they mean in C: the else of an if that  *)
(* was taken runs too (OneArmRuns), and in the package a write through a   *)
(* pointer or to an element is lost, as the import it starts with fails    *)
(* and the error is swallowed (vm.py:868, 892, 913).                       *)
(***************************************************************************)
WritesThroughPointer(st) == st.kind = "expr" /\ st.form # "other"

MeansWhatItMeansInC ==
    \A st \in Statements : st.form # "else" /\ ~(packaged /\ WritesThroughPointer(st))

(***************************************************************************)
(* A call of such a program gives what C gives, unless a loop was cut: c   *)
(* is the value of the call in C, NoneV where C leaves it undefined.       *)
(***************************************************************************)
ReturnsWhatCReturns ==
    \A c \in Programs[pick].calls :
        /\ MeansWhatItMeansInC /\ ~vm.capped
        /\ c.fn = last.fn /\ c.args = last.args /\ c.c # NoneV
        => last.exc = "none" /\ last.ret = c.c

(***************************************************************************)
(* One VM serves call after call (call_fn keeps memory, trace and output): *)
(* what was run before changes neither what a call returns or prints nor   *)
(* the way it takes through the code.                                      *)
(***************************************************************************)
Path(rows) == [k \in DOMAIN rows |-> [seg |-> rows[k].seg, stmt |-> rows[k].stmt,
                                      iter |-> rows[k].iter, taken |-> rows[k].taken]]

Account(c) == <<c.exc, c.ret, c.out, Path(c.trace)>>

CallsAreIndependent ==
    last.fn # "" => Account(last) = Account(Invoke(last.fn, last.args, FreshState))

(***************************************************************************)
(* "executes the taken branch" (_exec_branch_stmt): of an if and its else, *)
(* one arm runs.                                                           *)
(***************************************************************************)
OneArmRuns ==
    \A j, k \in DOMAIN last.trace :
        LET one == last.trace[j]
            two == last.trace[k]
        IN  /\ j < k /\ one.seg = two.seg /\ one.iter = two.iter
            /\ Segs[one.seg].stmts[one.stmt].form = "if"
            /\ two.stmt = one.stmt + 1 /\ Segs[two.seg].stmts[two.stmt].form = "else"
            => ~(one.taken = "yes" /\ two.taken = "yes")

(***************************************************************************)
(* The trace is a true account of the run: every test of a loop in its     *)
(* place, and every value read from a slot the one last written (_record,  *)
(* _exec_loop).                                                            *)
(***************************************************************************)
TraceIsTrue == IterationsInOrder /\ TraceExplainsReads

(***************************************************************************)
(* A call gives what C gives where the interpreter agrees with C at all,   *)
(* on a fresh VM and on one that has served other calls (run, call_fn).    *)
(***************************************************************************)
CallsReturnAsInC == ReturnsWhatCReturns /\ CallsAreIndependent
=============================================================================
