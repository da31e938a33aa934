--------------------------- MODULE ChaosProfiles ---------------------------
(***************************************************************************)
(* The chaos profiles (runtime_chaos/chaos_config.py): what a run starts   *)
(* with and what its steps change while the container runs, and the docker *)
(* commands that make the changes.                                         *)
(***************************************************************************)
EXTENDS Naturals, Sequences, FiniteSets, SequencesExt

None == 0

\* A moment's limits: CPU in per cent of a core, memory in MB, network rules.
Snapshot(cpu, mem, net) == [cpu |-> cpu, mem |-> mem, net |-> net]

Unchanged == Snapshot(None, None, {})
Cpu(pct) == Snapshot(pct, None, {})
Memory(mb) == Snapshot(None, mb, {})
Network(net) == Snapshot(None, None, net)

HasNetChaos(s) == s.net # {}

\* docker run's limits, with the runner's defaults for what a profile leaves open.
RunLimits(s) ==
    [cpu |-> IF s.cpu = None THEN 100 ELSE s.cpu, mem |-> IF s.mem = None THEN 512 ELSE s.mem, net |-> {}]

UpdateFlags(s) ==
    (IF s.cpu # None THEN {<<"cpu", s.cpu>>} ELSE {}) \cup (IF s.mem # None THEN {<<"mem", s.mem>>} ELSE {})

UpdateCommands(s) ==
    IF UpdateFlags(s) = {} THEN <<>> ELSE <<[op |-> "update", args |-> UpdateFlags(s)]>>

\* Mutant: the old rules stay.
TcCommandsNoClear(s) ==
    LET netem == {r \in s.net : r[1] \in {"delay", "loss"}}
        rate  == {r \in s.net : r[1] = "rate"}
    IN  IF ~HasNetChaos(s) THEN <<[op |-> "clear", args |-> {}]>>
        ELSE <<[op |-> "netem", args |-> netem]>>
             \o IF rate = {} THEN <<>> ELSE <<[op |-> "tbf", args |-> rate]>>

\* The rules are cleared first; the rate goes below delay and loss.
TcCommands(s) ==
    LET netem == {r \in s.net : r[1] \in {"delay", "loss"}}
        rate  == {r \in s.net : r[1] = "rate"}
    IN  <<[op |-> "clear", args |-> {}]>>
        \o IF ~HasNetChaos(s) THEN <<>>
           ELSE <<[op |-> "netem", args |-> netem]>>
                \o IF rate = {} THEN <<>> ELSE <<[op |-> "tbf", args |-> rate]>>

At(delay, snapshot) == [delay |-> delay, snapshot |-> snapshot]

Profile(initial, steps) == [initial |-> initial, steps |-> steps]

Snapshots(p) == {p.initial} \cup {p.steps[i].snapshot : i \in DOMAIN p.steps}

NeedsNetAdmin(p) == \E s \in Snapshots(p) : HasNetChaos(s)

\* sorted() by delay, which is stable.
InOrder(p) ==
    LET Precedes(i, j) == \/ p.steps[i].delay < p.steps[j].delay
                          \/ p.steps[i].delay = p.steps[j].delay /\ i < j
        order == CHOOSE f \in Bijection(DOMAIN p.steps, DOMAIN p.steps) :
                    \A i, j \in DOMAIN p.steps : i < j => Precedes(f[i], f[j])
    IN  [i \in DOMAIN p.steps |-> p.steps[order[i]]]

Profiles ==
    [none            |-> Profile(Unchanged, <<>>),
     cpu_half        |-> Profile(Cpu(50), <<>>),
     cpu_tenth       |-> Profile(Cpu(10), <<>>),
     memory_squeeze  |-> Profile(Memory(512), <<At(5, Memory(256)), At(10, Memory(128)),
                                                At(15, Memory(64)), At(20, Memory(32))>>),
     memory_bomb     |-> Profile(Memory(512), <<At(10, Memory(16))>>),
     memory_ceiling  |-> Profile(Memory(256), <<>>),
     network_degrade |-> Profile(Network({<<"delay", 10>>}),
                                 <<At(5, Network({<<"delay", 150>>, <<"loss", 2>>})),
                                   At(15, Network({<<"delay", 500>>, <<"loss", 15>>})),
                                   At(30, Network({<<"delay", 100>>, <<"rate", 64>>}))>>),
     network_flap    |-> Profile(Unchanged, <<At(5, Network({<<"loss", 100>>})), At(10, Unchanged),
                                              At(15, Network({<<"loss", 100>>})), At(20, Unchanged)>>)]
=============================================================================
