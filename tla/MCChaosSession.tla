--------------------------- MODULE MCChaosSession ---------------------------
(***************************************************************************)
(* Small sessions of the chaos runner.                                     *)
(***************************************************************************)
EXTENDS ChaosSession

File(name, ext) == [name |-> name, ext |-> ext]
Names(f) == [is |-> "file", file |-> f]
Output(f) == [is |-> "output", file |-> f]
Args(s) == [is |-> "args", args |-> s]

OneFile(f) == [file |-> f, config |-> FALSE, lines |-> <<>>, listing |-> <<f>>, below |-> {f}]
Dir(listing, below) == [file |-> NoFile, config |-> FALSE, lines |-> <<>>, listing |-> listing, below |-> below]
Configured(sub, lines) == [sub EXCEPT !.config = TRUE, !.lines = lines]

MainC  == File("main", ".c")
MainPy == File("main", ".py")
MainCpp == File("main", ".cpp")
RunSh  == File("run", ".sh")

ManySessions ==
    [pair    |-> [sub |-> OneFile(MainPy), profiles |-> <<"none", "memory_bomb">>],
     file    |-> [sub |-> OneFile(MainC), profiles |-> <<"cpu_half">>],
     script  |-> [sub |-> OneFile(MainPy), profiles |-> <<"network_degrade">>],
     flap    |-> [sub |-> OneFile(MainPy), profiles |-> <<"network_flap">>],
     make    |-> [sub |-> Configured(Dir(<<Makefile, MainC>>, {Makefile, MainC}),
                                     <<Names(Makefile), Names(MainC), Output(File("main", "")), Args(<<"8">>)>>),
                  profiles |-> <<"cpu_tenth">>],
     late    |-> [sub |-> Configured(Dir(<<Makefile, MainC>>, {Makefile, MainC}),
                                     <<Names(Makefile), Args(<<"8">>), Output(File("main", ""))>>),
                  profiles |-> <<"none">>],
     nothing |-> [sub |-> Dir(<<Makefile, MainC>>, {Makefile, MainC}), profiles |-> <<"none">>],
     shell   |-> [sub |-> Dir(<<RunSh, MainC>>, {RunSh, MainC}), profiles |-> <<"cpu_tenth">>],
     plain   |-> [sub |-> Dir(<<MainCpp>>, {MainCpp, File("other", ".cpp")}), profiles |-> <<"none">>],
     python  |-> [sub |-> Dir(<<MainPy>>, {MainPy}), profiles |-> <<"cpu_half">>],
     mixed   |-> [sub |-> Dir(<<MainPy, MainC>>, {MainPy, MainC}), profiles |-> <<"memory_ceiling">>],
     unknown |-> [sub |-> OneFile(MainC), profiles |-> <<"cpu_gradual">>],
     text    |-> [sub |-> OneFile(File("notes", ".txt")), profiles |-> <<"none">>]]

Line(tag, val, hist) == [tag |-> tag, val |-> val, hist |-> hist]

Quiet  == [out |-> <<Line("cpu", 100, Nothing), Line("cpu", 90, Nothing)>>, err |-> FALSE]
Broken == [out |-> <<Line("io", Malformed, Nothing)>>, err |-> TRUE]
Steep  == [out |-> <<Line("iterations", 100, Nothing), Line("cpu", 10, Nothing)>>, err |-> FALSE]
Flushes == [out |-> [i \in 1 .. 11 |-> Line("cpu", 50, IF i = 8 THEN 1 ELSE 5 * i)], err |-> FALSE]
Grows == [out |-> [i \in 1 .. 21 |-> Line("other", Nothing, i)], err |-> FALSE]

ProfileNames == DOMAIN Profiles

Heavy == [cpu |-> 90, mem |-> 60, pids |-> 30]
Light == [cpu |-> 10, mem |-> 0, pids |-> 2]
SomeLoads == [p \in ProfileNames |-> IF p \in {"memory_bomb", "network_flap"} THEN {Heavy} ELSE {Heavy, Light}]
SomeCodes ==
    [p \in ProfileNames |-> IF p = "memory_bomb" THEN {0, 1, 124, 134, 136, 137, 139}
                            ELSE IF p \in {"none", "cpu_half"} THEN {0, 1, 137} ELSE {0, 1}]
FewSamples == [p \in ProfileNames |-> IF p \in {"none", "network_degrade"} THEN 0 ELSE IF p = "cpu_half" THEN 2 ELSE 1]
SomeWalls == [p \in ProfileNames |-> IF p = "memory_bomb" THEN {6502, 6503, 15002, 15003} ELSE IF p = "none" THEN {5000} ELSE {2000}]
SomeOutputs ==
    [p \in ProfileNames |-> IF p = "none" THEN {Quiet, Broken} ELSE IF p = "memory_bomb" THEN {Quiet, Broken, Steep}
                            ELSE IF p = "cpu_half" THEN {Quiet, Flushes, Grows} ELSE {Quiet}]
=============================================================================
