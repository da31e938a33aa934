----------------------------- MODULE MCCloneVM -----------------------------
(***************************************************************************)
(* Small C programs for the interpreter, in the form the parser gives      *)
(* them, with the arguments they are called with and what a C compiler     *)
(* makes of them.                                                          *)
(***************************************************************************)
EXTENDS CloneVM, TLC

x == <<"x">>
y == <<"y">>
i == <<"i">>
n == <<"n">>
p == <<"p">>
u == <<"u">>

None == [op |-> "none"]
K(c) == [op |-> "const", n |-> c]
V(name) == [op |-> "name", x |-> name]
Fld(s, f) == [op |-> "field", x |-> <<s, f>>]
Str(codes) == [op |-> "str", codes |-> codes]
Ref(name) == [op |-> "addr_of", x |-> name]
Deref(a) == [op |-> "deref", a |-> a]
At(a, b) == [op |-> "index", a |-> a, b |-> b]
Bin(op, a, b) == [op |-> op, a |-> a, b |-> b]
Un(op, a) == [op |-> op, a |-> a]
CallE(fn, args) == [op |-> "call", fn |-> fn, args |-> args]
Inc(name) == Un("post_inc", V(name))

Stmt(kind, form) == [kind |-> kind, form |-> form, x |-> <<>>, e |-> None, p |-> None, reads |-> {},
                     ptr |-> FALSE, init |-> IntV(0), fields |-> <<>>, upd |-> [form |-> "none"]]
Let(name, e) == [Stmt("decl", "normal") EXCEPT !.x = name, !.e = e]
LetPtr(name, e) == [Let(name, e) EXCEPT !.ptr = TRUE]
LetNone(name) == [Stmt("decl", "noinit") EXCEPT !.x = name]
Array(name, val) == [Stmt("decl", "array") EXCEPT !.x = name, !.init = val]
Struct(name, vals) == [Stmt("decl", "struct") EXCEPT !.x = name, !.init = ListV(vals), !.fields = <<"a", "b">>]
Set(name, e, reads) == [Stmt("assign", "normal") EXCEPT !.x = name, !.e = e, !.reads = reads]
Bump(name, op) == [Stmt("assign", "incdec") EXCEPT !.x = name, !.e = Un(op, V(name)), !.reads = {name}]
Through(name, e) == [Stmt("assign", "deref") EXCEPT !.x = name, !.e = e]
Return(e, reads) == [Stmt("control", "return") EXCEPT !.e = e, !.reads = reads]
Break == Stmt("control", "break")
Continue == Stmt("control", "continue")
Do(e) == [Stmt("call", "call") EXCEPT !.e = e]
PutAt(pe, e, reads) == [Stmt("expr", "deref") EXCEPT !.p = pe, !.e = e, !.reads = reads]
PutAt2(name, e) == [Stmt("expr", "pp") EXCEPT !.x = name, !.e = e]
PutIndex(name, pe, e) == [Stmt("expr", "index") EXCEPT !.x = name, !.p = pe, !.e = e, !.reads = {name}]
If(e, reads) == [Stmt("branch", "if") EXCEPT !.e = e, !.reads = reads]
Else == Stmt("branch", "else")
While(e, reads) == [Stmt("loop_head", "while") EXCEPT !.e = e, !.reads = reads]
DoWhile(e, reads) == [Stmt("loop_head", "do") EXCEPT !.e = e, !.reads = reads]
For(name, init, e, upd, reads) == [Stmt("loop_head", "for") EXCEPT !.x = name, !.init = IntV(init), !.e = e,
                                   !.upd = upd, !.reads = reads]
Step(name) == [form |-> "incdec", x |-> name, e |-> Inc(name)]

Seg(stmts, kids) == [stmts |-> stmts, kids |-> kids, params |-> <<>>]
Fn(params, stmts, kids) == [stmts |-> stmts, kids |-> kids, params |-> params]
Plain(name) == [x |-> name, fields |-> <<>>]
Udt(name) == [x |-> name, fields |-> <<"a", "b">>]
\* a call, and what it returns in C
Call(fn, args, c) == [fn |-> fn, args |-> args, c |-> c]
Undefined(fn, args) == Call(fn, args, NoneV)
Ints == -1 .. 2
Calls(fn, Means(_)) == {Call(fn, <<IntV(v)>>, IntV(Means(v))) : v \in Ints}

(***************************************************************************)
(* count(n): for and while loops, break, continue; more iterations than    *)
(* the cap allows for n = 2.                                               *)
(***************************************************************************)
Count ==
    [segs |-> <<Fn(<<Plain(n)>>,
                   <<Let(x, K(0)),
                     For(i, 0, Bin("cmp_le", V(i), V(n)), Step(i), {i, n}),
                     DoWhile(Bin("cmp_lt", V(x), V(n)), {x, n}),
                     Return(V(x), {x})>>, <<2, 4>>),
                Seg(<<If(Bin("cmp_eq", V(i), K(1)), {i}), Set(x, Bin("add", V(x), V(i)), {x, i})>>, <<3>>),
                Seg(<<Continue>>, <<>>),
                Seg(<<Bump(x, "post_inc"), If(Bin("cmp_gt", V(x), K(3)), {x})>>, <<5>>),
                Seg(<<Break>>, <<>>)>>,
     fns |-> [count |-> 1], calls |-> Calls("count", LAMBDA v : IF v = 2 THEN 3 ELSE 1)]

\* leave(n): break leaves the inner of two loops, for every n but by other tests.
Leave ==
    [segs |-> <<Fn(<<Plain(n)>>,
                   <<Let(x, K(0)), For(i, 0, Bin("cmp_lt", V(i), K(2)), Step(i), {i}), Return(V(x), {x})>>, <<2>>),
                Seg(<<While(Bin("cmp_lt", V(x), K(4)), {x})>>, <<3>>),
                Seg(<<Bump(x, "post_inc"), If(Bin("cmp_gt", V(x), V(n)), {x, n}), Bump(x, "post_inc")>>, <<4>>),
                Seg(<<Break>>, <<>>)>>,
     fns |-> [leave |-> 1], calls |-> Calls("leave", LAMBDA v : IF v < 1 THEN 2 ELSE 4)]

\* swap(&x, &y), then x through a pointer to a pointer.
Swap ==
    [segs |-> <<Fn(<<Plain(p), Plain(u)>>,
                   <<Let(i, Deref(V(p))), PutAt(V(p), Deref(V(u)), {p}), PutAt(V(u), V(i), {u, i}),
                     Return(None, {})>>, <<>>),
                Fn(<<Plain(x)>>,
                   <<Let(y, K(5)), Do(CallE("swap", <<Ref(x), Ref(y)>>)),
                     LetPtr(p, Ref(x)), LetPtr(u, Ref(p)), PutAt2(u, Bin("mul", V(x), K(2))),
                     Return(Bin("sub", V(x), V(y)), {x, y})>>, <<>>),
                Fn(<<>>, <<Let(x, CallE("use", <<K(3)>>)), Do(CallE("printf", <<Str(<<1>>), V(x)>>)), Return(V(x), {x})>>, <<>>)>>,
     fns |-> [swap |-> 1, use |-> 2, main |-> 3],
     calls |-> Calls("use", LAMBDA v : 10 - v) \cup {Undefined("use", <<>>), Call("main", <<>>, IntV(7))}]

\* a pointer to a variable that each iteration declares again
Redeclared ==
    [segs |-> <<Fn(<<Plain(n)>>,
                   <<LetPtr(p, K(0)), Let(y, K(0)), Let(i, K(0)), While(Bin("cmp_lt", V(i), V(n)), {i, n}),
                     Return(V(y), {y})>>, <<2>>),
                Seg(<<LetNone(x), Set(p, Ref(x), {x}), Set(x, Bin("mul", V(i), K(7)), {i}),
                      Set(y, Bin("add", V(y), Deref(V(p))), {y, p}), Bump(i, "pre_inc")>>, <<>>)>>,
     fns |-> [keep |-> 1], calls |-> Calls("keep", LAMBDA v : IF v = 2 THEN 7 ELSE 0)]

\* arrays: promoted, walked by a pointer, passed down and changed there
Arrays ==
    [segs |-> <<Fn(<<Plain(u), Plain(n)>>,
                   <<PutIndex(u, K(1), V(n)), Return(Bin("add", At(V(u), K(0)), At(V(u), K(1))), {u})>>, <<>>),
                Fn(<<Plain(x)>>,
                   <<Array(u, ListV(<<4, 5, 6>>)), Let(y, CallE("sum", <<V(u), V(x)>>)),
                     LetPtr(p, Bin("add", V(u), K(1))),
                     Return(Bin("mul", V(y), Deref(V(p))), {y, p})>>, <<>>),
                Fn(<<Plain(u)>>, <<PutIndex(u, K(-1), K(9)), Return(At(V(u), K(1)), {u})>>, <<>>)>>,
     fns |-> [sum |-> 1, arr |-> 2, lst |-> 3],
     calls |-> Calls("arr", LAMBDA v : (4 + v) * v)
                  \cup {Undefined("lst", <<ListV(<<1, 2>>)>>), Undefined("lst", <<ListV(<<>>)>>)}]

\* an element of int u[2][2] = {{1, 2}, {3, 4}}
Grid ==
    [segs |-> <<Fn(<<Plain(i), Plain(n)>>,
                   <<Array(u, RowsV(2, <<1, 2, 3, 4>>)), Return(At(At(V(u), V(i)), V(n)), {u, i, n})>>, <<>>)>>,
     fns |-> [at |-> 1],
     calls |-> {Call("at", <<IntV(r), IntV(c)>>, IntV(1 + 2 * r + c)) : r \in 0 .. 1, c \in 0 .. 1}]

\* malloc, memset, memcpy, strings, a struct passed by value
Heap ==
    [segs |-> <<Fn(<<Udt(<<"s">>)>>, <<Set(<<"s", "a">>, K(0), {}), Return(Bin("sub", Fld("s", "b"), Fld("s", "a")), {})>>, <<>>),
                Fn(<<Plain(n)>>,
                   <<LetPtr(p, CallE("malloc", <<K(16)>>)), Do(CallE("memset", <<V(p), V(n), K(2)>>)),
                     LetPtr(u, CallE("calloc", <<K(2), K(4)>>)), Do(CallE("memcpy", <<V(u), V(p), V(n)>>)),
                     LetPtr(y, Str(<<7, 8>>)), Do(CallE("strcpy", <<V(p), V(y)>>)),
                     Struct(<<"t">>, <<3, 6>>), Let(i, CallE("diff", <<V(<<"t">>)>>)),
                     Return(Bin("add", Bin("mul", V(i), CallE("strlen", <<V(y)>>)), At(V(u), K(0))), {i, y, u})>>, <<>>),
                Fn(<<Plain(n)>>, <<LetPtr(x, Str(<<7>>)), LetPtr(y, Str(<<7>>)),
                                   LetPtr(p, CallE("malloc", <<K(4)>>)), Do(CallE("free", <<V(p)>>)),
                     Return(Bin("div", CallE("strcmp", <<V(x), V(y)>>), V(n)), {x, y, n})>>, <<>>)>>,
     fns |-> [diff |-> 1, heap |-> 2, cmp |-> 3],
     calls |-> {Call("heap", <<IntV(v)>>, IntV(12 + v)) : v \in 0 .. 2}
                  \cup {Call("cmp", <<IntV(v)>>, IF v = 0 THEN NoneV ELSE IntV(0)) : v \in Ints}
                  \cup {Undefined("heap", <<IntV(-1)>>), Undefined("heap", <<IntV(5)>>)}]

\* an if with an else
IfElse ==
    [segs |-> <<Fn(<<Plain(n)>>, <<Let(x, K(0)), If(Bin("cmp_gt", V(n), K(0)), {n}), Else, Return(V(x), {x})>>, <<2, 3>>),
                Seg(<<Set(x, K(5), {})>>, <<>>),
                Seg(<<Set(x, K(7), {})>>, <<>>)>>,
     fns |-> [choose |-> 1], calls |-> Calls("choose", LAMBDA v : IF v > 0 THEN 5 ELSE 7)]

\* a call that prints, as an operand
Operand ==
    [segs |-> <<Fn(<<Plain(n)>>, <<Do(CallE("printf", <<Str(<<1>>), V(n)>>)), Return(V(n), {n})>>, <<>>),
                Fn(<<Plain(n)>>, <<Let(x, Bin("mul", CallE("say", <<V(n)>>), K(3))),
                                   Let(y, Bin("add", CallE("say", <<V(n)>>), K(1))),
                                   Return(Bin("sub", V(x), V(y)), {x, y})>>, <<>>)>>,
     fns |-> [say |-> 1, twice |-> 2], calls |-> Calls("twice", LAMBDA v : 2 * v - 1)]

AllPrograms == [count |-> Count, leave |-> Leave, swap |-> Swap, redeclared |-> Redeclared, arrays |-> Arrays,
                grid |-> Grid, heap |-> Heap, operand |-> Operand, choose |-> IfElse]
Branching == [choose |-> IfElse]

SlotNames == {x, y, i, n, p, u, <<"t", "a">>, <<"t", "b">>, <<"s", "a">>, <<"s", "b">>}
=============================================================================
