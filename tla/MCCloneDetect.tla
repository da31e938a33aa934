-------------------------- MODULE MCCloneDetect --------------------------
(***************************************************************************)
(* Source files for the detect command, as the parser hands them over.     *)
(***************************************************************************)
EXTENDS CloneDetect

Id(s) == <<"id", s, 0>>
Caps(s) == <<"id", s, 1>>
C(s) == <<"c", s, 0>>
N(s) == <<"num", s, 0>>
O(s) == <<"op", s, 0>>

One(s) == << <<s>> >>           \* the name s, of one component
Lit(s) == << <<"const", s>> >>  \* the slot of a literal

St(kind, toks, l, r, lits) == [kind |-> kind, toks |-> toks, l |-> l, r |-> r, lits |-> {Lit(c) : c \in lits}]

\* int x = c;   int x = f(y);   x = y + z;   x = c;   X = c;   x += y;
LetC(x, c) == St("decl", <<C("int"), Id(x), O("="), N(c), O(";")>>, One(x), <<>>, {c})
LetF(x, f, ys) == St("decl", <<C("int"), Id(x), O("="), Id(f), O("("), Id("q"), O(")"), O(";")>>,
                     One(x), <<One(f)>> \o ys, {})
Sum(x, y, z) == St("assign", <<Id(x), O("="), Id(y), O("+"), Id(z), O(";")>>, One(x), <<One(y), One(z)>>, {})
Set(x, c) == St("assign", <<Id(x), O("="), N(c), O(";")>>, One(x), <<>>, {c})
SetCaps(x, c) == St("assign", <<Caps(x), O("="), N(c), O(";")>>, <<<<x, 1>>>>, <<>>, {c})
Inc(x, c) == St("assign", <<Id(x), O("="), Id(x), O("+"), N(c), O(";")>>, One(x), <<One(x)>>, {c})
AddTo(x, y) == St("assign", <<Id(x), O("+"), O("="), Id(y), O(";")>>, One(x), <<One(x), One(y)>>, {})
Use(x) == St("call", <<Id("use"), O("("), Id(x), O(")"), O(";")>>, <<>>, <<One(x)>>, {})
Say == St("call", <<Id("puts"), O("("), <<"str", "hi", 0>>, O(")"), O(";")>>, <<>>, <<>>, {})
If(x, c) == St("branch", <<C("if"), O("("), Id(x), O(">"), N(c), O(")"), Hole>>, <<>>, <<One(x)>>, {c})
Else == St("branch", <<C("else"), Hole>>, <<>>, <<>>, {})
While(x, y) == St("loop_head", <<C("while"), O("("), Id(x), O("<"), Id(y), O(")"), Hole>>, <<>>, <<One(x), One(y)>>, {})
For(k, n) == St("loop_head", <<C("for"), O("("), C("int"), Id(k), O("="), N("0"), O(";"), Id(k), O("<"), Id(n), O(";"),
                               Id(k), O("+"), O("+"), O(")"), Hole>>,
                One(k), <<One(k), One(k), One(n), One(k)>>, {"0"})
Ret(x) == St("control", <<C("return"), Id(x), O(";")>>, <<>>, <<One(x)>>, {})
Func(f) == St("func_decl", <<C("int"), Id(f), O("("), C("int"), Id("n"), O(")"), Hole>>, One(f), <<One("n")>>, {})

Var(scope, name) == [name |-> scope \o name, param |-> FALSE]
Param(scope, name) == [name |-> scope \o name, param |-> TRUE]
Seg(type, parent, scope, memory, stmts) ==
    [type |-> type, parent |-> parent, scope |-> scope, memory |-> memory, stmts |-> stmts,
     constants |-> <<>>, file |-> 1]
Consts(seg, cs) == [seg EXCEPT !.constants = [i \in DOMAIN cs |-> seg.scope \o Lit(cs[i])]]

Root == One("root")
RootSeg(stmts) == Seg("root", 1, Root, <<>>, stmts)
Fn(parent, f, locals, cs, stmts) ==
    LET scope == Root \o One(f)
    IN  Consts(Seg("function", parent, scope,
                   <<Param(scope, One("n"))>> \o [i \in DOMAIN locals |-> Var(scope, One(locals[i]))], stmts), cs)
Below(type, parent, scope, stmts) == Seg(type, parent, scope, <<>>, stmts)
Part(f, path) == Root \o One(f) \o path
Loop(k) == << <<"loop", k>> >>
Arm(k) == << <<"branch", k>> >>

File(segs) == [segs |-> segs]

\* a global, nested loops with an if and its else, a for loop
SumFile == File(<<
    Consts([RootSeg(<<LetC("total", "0"), Func("sum")>>) EXCEPT !.memory = <<Var(Root, One("total"))>>], <<"0">>),
    Fn(1, "sum", <<"s", "i", "k">>, <<"0", "2", "1", "7">>,
       <<LetC("s", "0"), LetC("i", "0"), While("i", "n"), For("k", "n"), Sum("total", "s", "s"), Ret("s")>>),
    Below("loop", 2, Part("sum", Loop(1)), <<If("i", "2"), Else, Inc("i", "1")>>),
    Below("branch", 3, Part("sum", Loop(1) \o Arm(1)), <<Sum("s", "s", "i")>>),
    Below("branch", 3, Part("sum", Loop(1) \o Arm(2)), <<Set("s", "7")>>),
    Below("loop", 2, Part("sum", Loop(2)), <<AddTo("s", "k")>>)>>)

\* a struct, its variable given to a call, an if without else at the end
StructFile == File(<<
    RootSeg(<<St("expr", <<C("typedef"), C("struct"), Hole>>, <<>>, <<>>, {}), Func("area")>>),
    Seg("struct", 1, Root \o One("P"), <<Var(Root \o One("P"), One("a")), Var(Root \o One("P"), One("b"))>>,
        <<LetC("a", "1"), LetC("b", "1")>>),
    Consts(Seg("function", 1, Root \o One("area"),
               <<Param(Part("area", <<>>), One("n")), Var(Part("area", <<>>), <<<<"q">>, <<"a">>>>),
                 Var(Part("area", <<>>), <<<<"q">>, <<"b">>>>), Var(Part("area", <<>>), One("w"))>>,
               <<St("decl", <<Id("P"), Id("q"), O("="), O("{"), N("1"), O("}"), O(";")>>, One("q"), <<>>, {"1"}),
                 LetF("w", "dist", <<<<<<"q">>, <<"a">>>>, <<<<"q">>, <<"b">>>>>>), While("w", "n"), If("n", "1")>>),
           <<"1">>),
    Below("loop", 3, Part("area", Loop(1)), <<Use("w"), If("w", "1")>>),
    Below("branch", 4, Part("area", Loop(1) \o Arm(1)), <<Inc("w", "1")>>),
    Below("branch", 3, Part("area", Arm(1)), <<Use("q"), Set("w", "1")>>)>>)

\* a loop function, its copy with other names, one with capitals
Copy(f, x, y) ==
    Fn(1, f, <<x, y>>, <<"0">>, <<LetC(x, "0"), LetC(y, "0"), While(y, "n"), Ret(x)>>)
Copies == File(<<
    RootSeg(<<Func("alpha"), Func("beta")>>),
    Copy("alpha", "s", "i"), Below("loop", 2, Part("alpha", Loop(1)), <<Sum("s", "s", "i"), Inc("i", "1")>>),
    Copy("beta", "t", "j"), Below("loop", 4, Part("beta", Loop(1)), <<Sum("t", "t", "j"), Inc("j", "1")>>)>>)
Third == File(<<
    RootSeg(<<Func("gamma")>>),
    Fn(1, "gamma", <<"s", "i">>, <<"0">>,
       <<LetC("s", "0"), LetC("i", "0"), SetCaps("s", "0"), Say, LetC("s", "0"), LetC("i", "0"), Set("s", "0"), Say, Ret("s")>>)>>)

\* the same statements again and again
Again == File(<<
    RootSeg(<<Func("f")>>),
    Fn(1, "f", <<"x", "y">>, <<"1">>, <<Set("x", "1"), Set("y", "1"), Set("x", "1"), Set("y", "1"), Set("x", "1")>>)>>)
Within == File(<<
    RootSeg(<<Func("g")>>),
    Fn(1, "g", <<"x", "y">>, <<"1">>, <<Set("y", "1"), Set("x", "1"), Set("y", "1"), Use("x"), Set("x", "1"), Set("y", "1")>>)>>)

\* functions that are nearly the same, as links of a chain
Link(f, a, b) == File(<<RootSeg(<<Func(f)>>), Fn(1, f, <<"x">>, <<"1">>, <<LetC("x", "1"), a, b>>)>>)

\* two functions that differ in the body of their if
Twin(f, x) == File(<<
    RootSeg(<<Func(f)>>),
    Fn(1, f, <<>>, <<"5">>, <<Set("n", "5"), If("n", "5"), Ret("n")>>),
    Below("branch", 2, Part(f, Arm(1)), <<Set(x, "1")>>)>>)

Command(files, types, maximal, overlaps) ==
    [files |-> files, types |-> types, maximal |-> maximal, overlaps |-> overlaps]

\* a loop in a loop that has the last write of s, an if before the last of i
Nested == File(<<
    RootSeg(<<Func("nest")>>),
    Fn(1, "nest", <<"s", "i", "k">>, <<"0", "1">>,
       <<LetC("s", "0"), LetC("i", "0"), LetC("k", "0"), While("i", "n"), Ret("s")>>),
    Below("loop", 2, Part("nest", Loop(1)),
          <<If("i", "1"), Inc("s", "1"), Inc("i", "1"), While("k", "n"), Use("s"), Inc("i", "1")>>),
    Below("branch", 3, Part("nest", Loop(1) \o Arm(1)), <<Inc("i", "1")>>),
    Below("loop", 3, Part("nest", Loop(1) \o Loop(1)), <<AddTo("s", "k"), Inc("k", "1")>>)>>)

\* ten loops in one function, of which the first and the last write s
Tenth(k) == IF k = 10 THEN << <<"loop", 1, 0>> >> ELSE Loop(k)
TenLoops == File(<<
    RootSeg(<<Func("ten")>>),
    Fn(1, "ten", <<"s", "i">>, <<"0", "1">>,
       <<LetC("s", "0"), LetC("i", "0")>> \o [k \in 1 .. 10 |-> While("i", "n")] \o <<Ret("s")>>)>>
    \o [k \in 1 .. 10 |-> Below("loop", 2, Part("ten", Tenth(k)), <<Inc(IF k \in {1, 10} THEN "s" ELSE "i", "1")>>)])

\* two functions, each a repetition, that have x, y in common
Repeat(f, z) ==
    File(<<RootSeg(<<Func(f)>>),
           Fn(1, f, <<"x", "y", z>>, <<"1">>,
              <<Set(z, "1"), Set("x", "1"), Set("y", "1"), Set(z, "1"), Set("x", "1"), Set("y", "1"), Set(z, "1")>>)>>)

Various ==
    [graphs  |-> Command(<<SumFile, StructFile, Nested>>, {1, 4}, TRUE, TRUE),
     loops   |-> Command(<<TenLoops>>, {1}, TRUE, TRUE),
     copies  |-> Command(<<Copies, Third>>, {1, 2, 3, 4}, TRUE, FALSE),
     all     |-> Command(<<Again, Within>>, {1, 2}, FALSE, FALSE),
     again   |-> Command(<<Again, Within>>, {1, 2, 4}, TRUE, TRUE),
     repeats |-> Command(<<Repeat("f", "t"), Repeat("g", "u")>>, {1, 2}, TRUE, TRUE),
     chain   |-> Command(<<Link("f", AddTo("x", "n"), Use("x")), Link("g", Set("x", "1"), Use("x")),
                           Link("h", Set("x", "1"), Say)>>, {3}, TRUE, TRUE)]

============================================================================
