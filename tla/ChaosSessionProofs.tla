------------------------ MODULE ChaosSessionProofs ------------------------
(***************************************************************************)
(* Proofs about the runs of a chaos session, for every submission, session *)
(* and load.  Only the run moves the variables of ChaosRunner; the session *)
(* starts a run and puts its variables away (RunMove).  What a run may say *)
(* follows from three invariants: of the container and its client          *)
(* (Attended), of the chaos thread's commands (Applying), and of the       *)
(* figures on their way from the sampler to the result (Counted).  What    *)
(* the report says follows from two more: the results are those of the     *)
(* profiles asked for, in order (Logged), and the report is made of them   *)
(* (Reported).  That build results go rests on the one container of a      *)
(* clean-up (Cleaned).                                                     *)
(***************************************************************************)
EXTENDS ChaosSession, NaturalsInduction, WellFoundedInduction, FiniteSetTheorems, TLAPS

Rule == {"delay", "loss", "rate"} \X Nat
Flag == {"cpu", "mem"} \X Nat
Moment == [cpu : Nat, mem : Nat, net : SUBSET Rule]
Command == [op : {"update", "clear", "netem", "tbf"}, args : SUBSET (Rule \cup Flag)]

\* The profiles are what their dataclass says.
LEMMA ProfileTypes ==
    ASSUME NEW x \in DOMAIN Profiles
    PROVE  /\ Profiles[x].initial \in Moment
           /\ Profiles[x].steps \in Seq([delay : Nat, snapshot : Moment])
<1>1. \A n \in Nat : Cpu(n) \in Moment /\ Memory(n) \in Moment
  BY DEF Cpu, Memory, Snapshot, None, Moment
<1>2. \A net \in SUBSET Rule : Network(net) \in Moment
  BY DEF Network, Snapshot, None, Moment
<1>3. Unchanged \in Moment
  BY DEF Unchanged, Snapshot, None, Moment
<1>4. <<"loss", 100>> \in Rule
  BY DEF Rule
<1>5. \A n \in Nat, s \in Moment : At(n, s) \in [delay : Nat, snapshot : Moment]
  BY DEF At
<1>. HIDE DEF Moment, Rule
<1>6. CASE x \in {"none", "cpu_half", "cpu_tenth", "memory_ceiling"}
  <2>1. PICK s \in Moment : Profiles[x] = Profile(s, <<>>)
    <3>1. \/ Profiles[x] = Profile(Unchanged, <<>>) \/ Profiles[x] = Profile(Cpu(50), <<>>)
          \/ Profiles[x] = Profile(Cpu(10), <<>>) \/ Profiles[x] = Profile(Memory(256), <<>>)
      BY <1>6 DEF Profiles
    <3>2. Cpu(50) \in Moment /\ Cpu(10) \in Moment /\ Memory(256) \in Moment
      BY <1>1
    <3>. QED
      BY <1>3, <3>1, <3>2
  <2>. QED
    BY <2>1 DEF Profile
<1>7. CASE x = "memory_squeeze"
  <2>1. Profiles[x] = Profile(Memory(512), <<At(5, Memory(256)), At(10, Memory(128)),
                                             At(15, Memory(64)), At(20, Memory(32))>>)
    BY <1>7 DEF Profiles
  <2>2. /\ At(5, Memory(256)) \in [delay : Nat, snapshot : Moment]
        /\ At(10, Memory(128)) \in [delay : Nat, snapshot : Moment]
        /\ At(15, Memory(64)) \in [delay : Nat, snapshot : Moment]
        /\ At(20, Memory(32)) \in [delay : Nat, snapshot : Moment]
    BY <1>1, <1>5
  <2>. QED
    BY <1>1, <2>1, <2>2 DEF Profile
<1>8. CASE x = "memory_bomb"
  <2>1. Profiles[x] = Profile(Memory(512), <<At(10, Memory(16))>>)
    BY <1>8 DEF Profiles
  <2>2. At(10, Memory(16)) \in [delay : Nat, snapshot : Moment]
    BY <1>1, <1>5
  <2>. QED
    BY <1>1, <2>1, <2>2 DEF Profile
<1>9. CASE x = "network_degrade"
  <2>. DEFINE A == Network({<<"delay", 10>>})
              B == Network({<<"delay", 150>>, <<"loss", 2>>})
              C == Network({<<"delay", 500>>, <<"loss", 15>>})
              D == Network({<<"delay", 100>>, <<"rate", 64>>})
  <2>1. A \in Moment /\ B \in Moment /\ C \in Moment /\ D \in Moment
    <3>1. /\ <<"delay", 10>> \in Rule /\ <<"delay", 150>> \in Rule /\ <<"loss", 2>> \in Rule
          /\ <<"delay", 500>> \in Rule /\ <<"loss", 15>> \in Rule
          /\ <<"delay", 100>> \in Rule /\ <<"rate", 64>> \in Rule
      BY DEF Rule
    <3>2. /\ {<<"delay", 10>>} \subseteq Rule
          /\ {<<"delay", 150>>, <<"loss", 2>>} \subseteq Rule
          /\ {<<"delay", 500>>, <<"loss", 15>>} \subseteq Rule
          /\ {<<"delay", 100>>, <<"rate", 64>>} \subseteq Rule
      BY <3>1
    <3>. QED
      BY <1>2, <3>2
  <2>2. Profiles[x] = Profile(A, <<At(5, B), At(15, C), At(30, D)>>)
    BY <1>9 DEF Profiles
  <2>. HIDE DEF A, B, C, D
  <2>. QED
    BY <1>5, <2>1, <2>2 DEF Profile
<1>10. CASE x = "network_flap"
  <2>. DEFINE Cut == Network({<<"loss", 100>>})
  <2>1. Cut \in Moment
    BY <1>2, <1>4
  <2>2. Profiles[x] = Profile(Unchanged, <<At(5, Cut), At(10, Unchanged), At(15, Cut), At(20, Unchanged)>>)
    BY <1>10 DEF Profiles
  <2>. HIDE DEF Cut
  <2>3. /\ At(5, Cut) \in [delay : Nat, snapshot : Moment] /\ At(10, Unchanged) \in [delay : Nat, snapshot : Moment]
        /\ At(15, Cut) \in [delay : Nat, snapshot : Moment] /\ At(20, Unchanged) \in [delay : Nat, snapshot : Moment]
    BY <1>3, <1>5, <2>1
  <2>. QED
    BY <1>3, <2>2, <2>3 DEF Profile
<1>. QED
  BY <1>6, <1>7, <1>8, <1>9, <1>10 DEF Profiles

\* The steps of a profile are listed in order of their delays.
LEMMA StepsAreListedInOrder ==
    ASSUME NEW x \in DOMAIN Profiles, NEW i \in DOMAIN Profiles[x].steps,
           NEW j \in DOMAIN Profiles[x].steps, i < j
    PROVE  Profiles[x].steps[i].delay < Profiles[x].steps[j].delay
BY DEF Profiles, Profile, At

\* Sorted or not, a step's snapshot is one of the profile's.
LEMMA SortedSteps ==
    ASSUME NEW x \in DOMAIN Profiles, NEW i \in DOMAIN Profiles[x].steps
    PROVE  InOrder(Profiles[x])[i].snapshot \in Snapshots(Profiles[x])
<1>. DEFINE steps == Profiles[x].steps
            n == DOMAIN steps
            Precedes(a, b) == \/ steps[a].delay < steps[b].delay
                              \/ steps[a].delay = steps[b].delay /\ a < b
            Sorts(f) == \A a, b \in n : a < b => Precedes(f[a], f[b])
            same == [a \in n |-> a]
<1>1. same \in Bijection(n, n)
  BY DEF Bijection, Injection, Surjection, IsInjective
<1>2. Sorts(same)
  BY StepsAreListedInOrder
<1>3. PICK f \in Bijection(n, n) : InOrder(Profiles[x]) = [a \in n |-> steps[f[a]]]
  <2>. DEFINE f == CHOOSE f \in Bijection(n, n) : Sorts(f)
  <2>1. f \in Bijection(n, n)
    BY <1>1, <1>2
  <2>2. InOrder(Profiles[x]) = [a \in n |-> steps[f[a]]]
    BY DEF InOrder
  <2>. QED
    BY <2>1, <2>2
<1>4. f[i] \in n
  BY <1>3 DEF Bijection, Injection
<1>. QED
  BY <1>3, <1>4 DEF Snapshots

LEMMA ElementsOfASequence ==
    ASSUME NEW S, NEW q \in Seq(S)
    PROVE  \A i \in DOMAIN q : q[i] \in S
OBVIOUS

LEMMA SnapshotTypes ==
    ASSUME NEW x \in DOMAIN Profiles
    PROVE  Snapshots(Profiles[x]) \subseteq Moment
<1>. DEFINE p == Profiles[x]
<1>1. p.initial \in Moment /\ p.steps \in Seq([delay : Nat, snapshot : Moment])
  BY ProfileTypes
<1>. HIDE DEF p
<1>2. \A i \in DOMAIN p.steps : p.steps[i] \in [delay : Nat, snapshot : Moment]
  BY <1>1, ElementsOfASequence
<1>3. Snapshots(p) \subseteq Moment
  BY <1>1, <1>2 DEF Snapshots
<1>. QED
  BY <1>3 DEF p

LEMMA EmptyHasNoLength == ASSUME NEW S, NEW q \in Seq(S) PROVE q = <<>> <=> Len(q) = 0
OBVIOUS

LEMMA HeadAndTail ==
    ASSUME NEW S, NEW q \in Seq(S), q # <<>>
    PROVE  /\ Head(q) \in S /\ Head(q) = q[1] /\ 1 \in 1 .. Len(q)
           /\ Tail(q) \in Seq(S) /\ Len(Tail(q)) = Len(q) - 1
           /\ \A i \in 1 .. Len(Tail(q)) : i + 1 \in 1 .. Len(q) /\ Tail(q)[i] = q[i + 1]
           /\ Len(q) # 1 => Tail(q) # <<>>
<1>1. Head(q) \in S /\ Head(q) = q[1] /\ 1 \in 1 .. Len(q)
  OBVIOUS
<1>2. Tail(q) \in Seq(S) /\ Len(Tail(q)) = Len(q) - 1
  OBVIOUS
<1>3. \A i \in 1 .. Len(Tail(q)) : i + 1 \in 1 .. Len(q) /\ Tail(q)[i] = q[i + 1]
  BY <1>2
<1>4. Tail(q) = <<>> => Len(q) = 1
  <2>1. PICK n \in Nat : n = Len(q)
    OBVIOUS
  <2>2. n - 1 = 0 => n = 1
    OBVIOUS
  <2>3. Tail(q) = <<>> => Len(Tail(q)) = 0
    BY <1>2, EmptyHasNoLength
  <2>. QED
    BY <1>2, <2>1, <2>2, <2>3
<1>. QED
  BY <1>1, <1>2, <1>3, <1>4

\* A sequence with one more element in front.
LEMMA Prepended ==
    ASSUME NEW S, NEW e \in S, NEW q \in Seq(S)
    PROVE  <<e>> \o q \in Seq(S) /\ Len(<<e>> \o q) = Len(q) + 1 /\ (<<e>> \o q)[1] = e
OBVIOUS

\* The commands that change the network to s: the old rules go first, and all are within s.
LEMMA NetworkCommands ==
    ASSUME NEW s \in Moment
    PROVE  /\ TcCommands(s) \in Seq([op : {"clear", "netem", "tbf"}, args : SUBSET s.net])
           /\ Len(TcCommands(s)) \in 1 .. 3
           /\ TcCommands(s)[1].op = "clear"
<1>. DEFINE netem == {r \in s.net : r[1] \in {"delay", "loss"}}
            rate == {r \in s.net : r[1] = "rate"}
            Clear == [op |-> "clear", args |-> {}]
            Netem == [op |-> "netem", args |-> netem]
            Tbf == [op |-> "tbf", args |-> rate]
            S == [op : {"clear", "netem", "tbf"}, args : SUBSET s.net]
            last == IF rate = {} THEN <<>> ELSE <<Tbf>>
            more == IF ~HasNetChaos(s) THEN <<>> ELSE <<Netem>> \o last
<1>1. TcCommands(s) = <<Clear>> \o more
  BY DEF TcCommands
<1>2. Clear \in S /\ Netem \in S /\ Tbf \in S /\ Clear.op = "clear"
  OBVIOUS
<1>. HIDE DEF Clear, Netem, Tbf, S
<1>3. last \in Seq(S) /\ Len(last) \in 0 .. 1
  BY <1>2
<1>. HIDE DEF last
<1>4. more \in Seq(S) /\ Len(more) \in 0 .. 2
  <2>1. <<Netem>> \o last \in Seq(S) /\ Len(<<Netem>> \o last) = Len(last) + 1
    BY <1>2, <1>3, Prepended
  <2>2. \A n \in 0 .. 1 : n + 1 \in 0 .. 2
    OBVIOUS
  <2>3. Len(<<Netem>> \o last) \in 0 .. 2
    BY <1>3, <2>1, <2>2
  <2>4. CASE HasNetChaos(s)
    BY <2>1, <2>3, <2>4
  <2>5. CASE ~HasNetChaos(s)
    BY <2>5
  <2>. QED
    BY <2>4, <2>5
<1>. HIDE DEF more
<1>5. <<Clear>> \o more \in Seq(S) /\ Len(<<Clear>> \o more) = Len(more) + 1 /\ (<<Clear>> \o more)[1] = Clear
  BY <1>2, <1>4, Prepended
<1>. QED
  BY <1>1, <1>2, <1>4, <1>5 DEF S

\* The command that changes CPU and memory, if they change.
LEMMA LimitCommands ==
    ASSUME NEW s \in Moment
    PROVE  /\ UpdateCommands(s) \in Seq(Command) /\ Len(UpdateCommands(s)) \in 0 .. 1
           /\ \A i \in 1 .. Len(UpdateCommands(s)) : UpdateCommands(s)[i].op = "update"
<1>1. UpdateFlags(s) \subseteq Flag
  BY DEF UpdateFlags, Moment, Flag
<1>2. [op |-> "update", args |-> UpdateFlags(s)] \in Command
  BY <1>1 DEF Command
<1>. QED
  BY <1>2 DEF UpdateCommands

-----------------------------------------------------------------------------

\* The commands cs belong to snapshot s: they change the network to s or not at all.
ChangeTo(cs, s) ==
    /\ cs \in Seq(Command)
    /\ \A i \in 1 .. Len(cs) : cs[i].op \in {"netem", "tbf"} => cs[i].args \subseteq s.net

\* ... and the old rules go before the new ones come.
ClearsFirst(cs) ==
    \A i \in 1 .. Len(cs) : cs[i].op \in {"netem", "tbf"} => \E j \in 1 .. Len(cs) : j < i /\ cs[j].op = "clear"

\* At most so many commands of one snapshot.
Budget(p) == Max({Len(StepCommands(p, s)) : s \in Snapshots(p)})

\* What a step of the profile issues.
LEMMA CommandsOfAStep ==
    ASSUME NEW x \in DOMAIN Profiles, NEW s \in Snapshots(Profiles[x])
    PROVE  /\ ChangeTo(StepCommands(Profiles[x], s), s)
           /\ ClearsFirst(StepCommands(Profiles[x], s))
           /\ Len(StepCommands(Profiles[x], s)) \in 0 .. 4
           /\ ~NeedsNetAdmin(Profiles[x]) => Len(StepCommands(Profiles[x], s)) <= 1
<1>. DEFINE a == UpdateCommands(s)  b == TcCommands(s)  p == Profiles[x]
            Tc == [op : {"clear", "netem", "tbf"}, args : SUBSET s.net]
<1>1. s \in Moment
  BY SnapshotTypes
<1>2. /\ a \in Seq(Command) /\ Len(a) \in 0 .. 1 /\ \A i \in 1 .. Len(a) : a[i].op = "update"
      /\ b \in Seq(Tc) /\ Len(b) \in 1 .. 3 /\ b[1].op = "clear"
  BY <1>1, NetworkCommands, LimitCommands
<1>3. StepCommands(p, s) = IF NeedsNetAdmin(p) THEN a \o b ELSE a \o <<>>
  BY DEF StepCommands
<1>4. Tc \subseteq Command
  BY <1>1 DEF Moment, Command
<1>5. \A c \in Tc : c.args \subseteq s.net
  OBVIOUS
<1>. HIDE DEF a, b, p, Tc
<1>6. b \in Seq(Command) /\ \A i \in 1 .. Len(b) : b[i] \in Tc
  BY <1>2, <1>4
<1>7. CASE NeedsNetAdmin(p)
  <2>1. a \o b \in Seq(Command) /\ Len(a \o b) = Len(a) + Len(b)
    BY <1>2, <1>6
  <2>2. \A i \in 1 .. Len(a \o b) : (a \o b)[i] = IF i <= Len(a) THEN a[i] ELSE b[i - Len(a)]
    BY <1>2, <1>6
  <2>3. (a \o b)[Len(a) + 1].op = "clear" /\ Len(a) + 1 \in 1 .. Len(a \o b)
    BY <1>2, <2>1, <2>2
  <2>4. ASSUME NEW i \in 1 .. Len(a \o b), (a \o b)[i].op \in {"netem", "tbf"}
        PROVE  (a \o b)[i].args \subseteq s.net /\ Len(a) + 1 < i
    <3>1. i > Len(a) /\ i # Len(a) + 1
      BY <1>2, <2>1, <2>2, <2>3, <2>4
    <3>2. i - Len(a) \in 1 .. Len(b)
      BY <1>2, <2>1, <3>1
    <3>3. (a \o b)[i] \in Tc
      BY <1>2, <1>6, <2>2, <3>1, <3>2
    <3>. QED
      BY <1>2, <1>5, <3>1, <3>3
  <2>5. Len(a \o b) \in 0 .. 4
    <3>1. \A m \in 0 .. 1, n \in 1 .. 3 : m + n \in 0 .. 4
      OBVIOUS
    <3>2. Len(a) \in 0 .. 1 /\ Len(b) \in 1 .. 3
      BY <1>2
    <3>. QED
      BY <2>1, <3>1, <3>2
  <2>6. ChangeTo(a \o b, s)
    BY <2>1, <2>4 DEF ChangeTo
  <2>7. ClearsFirst(a \o b)
    BY <2>3, <2>4 DEF ClearsFirst
  <2>8. StepCommands(p, s) = a \o b
    BY <1>3, <1>7
  <2>. QED
    BY <1>7, <2>5, <2>6, <2>7, <2>8 DEF p
<1>8. CASE ~NeedsNetAdmin(p)
  <2>1. StepCommands(p, s) = a
    BY <1>2, <1>3, <1>8
  <2>. QED
    BY <1>2, <1>8, <2>1 DEF ChangeTo, ClearsFirst, p
<1>. QED
  BY <1>7, <1>8

\* What the wait for the container ends with issues no more than a step.
LEMMA CommandsOfTheStart ==
    ASSUME NEW x \in DOMAIN Profiles, HasNetChaos(Profiles[x].initial)
    PROVE  LET s == Profiles[x].initial
           IN  /\ ChangeTo(TcCommands(s), s) /\ ClearsFirst(TcCommands(s))
               /\ TcCommands(s) # <<>> /\ Len(TcCommands(s)) <= Len(StepCommands(Profiles[x], s))
<1>. DEFINE s == Profiles[x].initial  a == UpdateCommands(s)  b == TcCommands(s)
            Tc == [op : {"clear", "netem", "tbf"}, args : SUBSET s.net]
<1>1. s \in Snapshots(Profiles[x]) /\ NeedsNetAdmin(Profiles[x])
  BY DEF Snapshots, NeedsNetAdmin
<1>2. s \in Moment
  BY <1>1, SnapshotTypes
<1>3. a \in Seq(Command) /\ b \in Seq(Tc) /\ Len(b) \in 1 .. 3 /\ b[1].op = "clear"
  BY <1>2, NetworkCommands, LimitCommands
<1>4. StepCommands(Profiles[x], s) = a \o b
  BY <1>1 DEF StepCommands
<1>5. Tc \subseteq Command
  BY <1>2 DEF Moment, Command
<1>6. \A c \in Tc : c.args \subseteq s.net
  OBVIOUS
<1>. HIDE DEF a, b, s, Tc
<1>7. b \in Seq(Command) /\ \A i \in 1 .. Len(b) : b[i] \in Tc
  BY <1>3, <1>5
<1>8. Len(a \o b) = Len(a) + Len(b) /\ Len(a) \in Nat /\ Len(b) \in Nat
  BY <1>3, <1>7
<1>9. Len(b) <= Len(a \o b)
  BY <1>8
<1>10. ChangeTo(b, s)
  BY <1>6, <1>7 DEF ChangeTo
<1>11. ClearsFirst(b)
  <2>1. ASSUME NEW i \in 1 .. Len(b), b[i].op \in {"netem", "tbf"}
        PROVE  1 \in 1 .. Len(b) /\ 1 < i
    BY <1>3, <2>1
  <2>. QED
    BY <1>3, <2>1 DEF ClearsFirst
<1>12. b # <<>>
  BY <1>3
<1>. QED
  BY <1>4, <1>9, <1>10, <1>11, <1>12 DEF b, s

\* The most that one snapshot needs bounds every one.
LEMMA WithinBudget ==
    ASSUME NEW x \in DOMAIN Profiles
    PROVE  /\ Budget(Profiles[x]) \in 0 .. 4
           /\ \A s \in Snapshots(Profiles[x]) : Len(StepCommands(Profiles[x], s)) <= Budget(Profiles[x])
           /\ ~NeedsNetAdmin(Profiles[x]) => Budget(Profiles[x]) <= 1
<1>. DEFINE lens == {Len(StepCommands(Profiles[x], s)) : s \in Snapshots(Profiles[x])}
<1>1. lens \subseteq 0 .. 4 /\ (~NeedsNetAdmin(Profiles[x]) => lens \subseteq 0 .. 1)
  <2>1. \A s \in Snapshots(Profiles[x]) :
           /\ Len(StepCommands(Profiles[x], s)) \in 0 .. 4
           /\ ~NeedsNetAdmin(Profiles[x]) => Len(StepCommands(Profiles[x], s)) \in 0 .. 1
    BY CommandsOfAStep
  <2>. QED
    BY <2>1
<1>2. lens # {}
  BY DEF Snapshots
<1>3. \E m \in lens : \A y \in lens : m >= y
  <2>. HIDE DEF lens
  <2>1. PICK l \in lens : l \in 0 .. 4
    BY <1>1, <1>2
  <2>. QED
    BY <1>1, <2>1
<1>4. Max(lens) \in lens /\ \A y \in lens : Max(lens) >= y
  <2>. HIDE DEF lens
  <2>. QED
    BY <1>3 DEF Max
<1>5. Budget(Profiles[x]) = Max(lens)
  BY DEF Budget
<1>6. \A s \in Snapshots(Profiles[x]) : Len(StepCommands(Profiles[x], s)) \in lens
  OBVIOUS
<1>. HIDE DEF lens
<1>7. Max(lens) \in 0 .. 4 /\ (~NeedsNetAdmin(Profiles[x]) => Max(lens) \in 0 .. 1)
  BY <1>1, <1>4
<1>8. \A s \in Snapshots(Profiles[x]) : Len(StepCommands(Profiles[x], s)) <= Max(lens)
  <2>1. \A y \in lens : y <= Max(lens)
    BY <1>1, <1>4
  <2>. QED
    BY <1>6, <2>1
<1>. QED
  BY <1>5, <1>7, <1>8

-----------------------------------------------------------------------------

Arg == {"delay", "loss", "rate", "cpu", "mem"} \X Nat
Said == [cpu : Nat, mem : Nat, pids : Nat]
Kept == [peak : Nat, rss : Nat, pids : Nat, avg : Nat]
Tally == [sum : Nat, len : Nat, peak : Nat, rss : Nat, pids : Nat, avg : Nat, deleted : BOOLEAN]
Limits == [cpu : Nat, mem : Nat, net : SUBSET Arg]
Ending == [rc : Int, timed : BOOLEAN]

RunnerTypes ==
    /\ profile \in DOMAIN Profiles
    /\ runner \in {"idle", "running", "killing", "joining", "reading", "ended", "raised"}
    /\ client \in {"none", "alive", "dead"}
    /\ outcome \in Ending
    /\ kill \in {"none", "done", "failed", "hung"}
    /\ result \in Seq(Nat)

DockerTypes ==
    /\ container \in {"absent", "created", "running", "gone"}
    /\ limits \in Limits

ChaosTypes ==
    /\ chaos \in {"off", "await_net", "await_step", "check", "call", "await_stop",
                  "divide", "delete", "flush", "done", "dead"}
    /\ step \in Nat \ {0} /\ calls \in Nat
    /\ cmds \in Seq(Command)
    /\ dockerStats \in Kept

SamplerTypes ==
    /\ sampler \in {"off", "idle", "polling", "cpu", "peak", "mem", "pids", "done"}
    /\ sample \in Said /\ samples \in Seq(Said)

Flags == stop \in BOOLEAN /\ joined \in BOOLEAN /\ cut \in BOOLEAN /\ refused \in BOOLEAN

RunTypeOK == RunnerTypes /\ DockerTypes /\ ChaosTypes /\ SamplerTypes /\ stats \in Tally /\ Flags

\* What a thread is about to use is there.
Ready ==
    /\ chaos = "await_net" => HasNetChaos(P.initial)
    /\ chaos = "check" => step <= Len(P.steps)
    /\ chaos = "call" => cmds # <<>>
    /\ chaos = "divide" => stats.len > 0
    /\ runner = "ended" => Len(result) = 4
    /\ runner # "ended" => Len(result) < 4
    /\ runner \in {"idle", "running", "killing", "joining"} => result = <<>>

\* What a step of the session does to the run.
RunMove ==
    \/ RunSteps
    \/ \E p \in DOMAIN Profiles : StartRun(p)
    \/ Returned
    \/ UNCHANGED runVars

LEMMA SessionMovesRuns == [SessionNext]_vars => RunMove
<1>. SUFFICES ASSUME [SessionNext]_vars PROVE RunMove
  OBVIOUS
<1>1. CASE Run
  BY <1>1 DEF Run, RunMove
<1>2. CASE BuildEnds
  BY <1>2 DEF BuildEnds, RunMove
<1>3. CASE RunEnds
  BY <1>3 DEF RunEnds, RunMove
<1>4. CASE StartProfile \/ RunInContainer \/ CleanEnds \/ SaveReport \/ StrayEnds
  BY <1>4 DEF StartProfile, RunInContainer, CleanEnds, SaveReport, StrayEnds, RunMove
<1>5. CASE UNCHANGED vars
  BY <1>5 DEF vars, RunMove
<1>. QED
  BY <1>1, <1>2, <1>3, <1>4, <1>5 DEF SessionNext, SessionSteps

\* The variables of a run that nobody has started.
AtRest ==
    /\ profile = "none" /\ runner = "idle" /\ client = "none" /\ container = "absent"
    /\ limits = RunLimits(Unchanged) /\ outcome = Pending /\ kill = "none" /\ stop = FALSE
    /\ chaos = "off" /\ step = 1 /\ cmds = <<>> /\ calls = 0
    /\ sampler = "off" /\ sample = NoSample /\ samples = <<>>
    /\ stats = NoStats /\ dockerStats = Empty /\ result = <<>>
    /\ joined = TRUE /\ cut = FALSE /\ refused = FALSE

LEMMA FirstValues ==
    NoSample \in Said /\ NoStats \in Tally /\ Empty \in Kept /\ Pending \in Ending
BY DEF NoSample, NoStats, Empty, Pending, Said, Tally, Kept, Ending

LEMMA RestTypes == AtRest => RunTypeOK /\ Ready
<1>1. RunLimits(Unchanged) \in Limits
  BY DEF RunLimits, Unchanged, Snapshot, None, Limits
<1>. SUFFICES ASSUME AtRest PROVE RunTypeOK /\ Ready
  OBVIOUS
<1>2. "none" \in DOMAIN Profiles
  BY DEF Profiles
<1>3. RunTypeOK
  <2>1. cmds \in Seq(Command) /\ samples \in Seq(Said) /\ result \in Seq(Nat)
    BY DEF AtRest
  <2>2. /\ profile \in DOMAIN Profiles /\ limits \in Limits /\ outcome \in Ending
        /\ sample \in Said /\ stats \in Tally /\ dockerStats \in Kept
    BY <1>1, <1>2, FirstValues DEF AtRest
  <2>3. /\ runner \in {"idle", "running", "killing", "joining", "reading", "ended", "raised"}
        /\ client \in {"none", "alive", "dead"}
        /\ container \in {"absent", "created", "running", "gone"}
        /\ kill \in {"none", "done", "failed", "hung"}
        /\ chaos \in {"off", "await_net", "await_step", "check", "call", "await_stop",
                      "divide", "delete", "flush", "done", "dead"}
        /\ sampler \in {"off", "idle", "polling", "cpu", "peak", "mem", "pids", "done"}
    BY DEF AtRest
  <2>4. step \in Nat \ {0} /\ calls \in Nat
    BY DEF AtRest
  <2>5. stop \in BOOLEAN /\ joined \in BOOLEAN /\ cut \in BOOLEAN /\ refused \in BOOLEAN
    BY DEF AtRest
  <2>. QED
    BY <2>1, <2>2, <2>3, <2>4, <2>5 DEF RunTypeOK, RunnerTypes, DockerTypes, ChaosTypes, SamplerTypes, Flags
<1>4. Ready
  BY DEF AtRest, Ready
<1>. QED
  BY <1>3, <1>4

LEMMA StartTypes == ASSUME NEW p \in DOMAIN Profiles, StartRun(p) PROVE RunTypeOK' /\ Ready'
<1>1. Profiles[p].initial \in Moment
  BY ProfileTypes
<1>2. RunLimits(Profiles[p].initial) \in Limits
  BY <1>1 DEF RunLimits, Moment, None, Limits
<1>3. RunTypeOK'
  <2>1. cmds' \in Seq(Command) /\ samples' \in Seq(Said) /\ result' \in Seq(Nat)
    BY DEF StartRun
  <2>2. /\ profile' \in DOMAIN Profiles /\ limits' \in Limits /\ outcome' \in Ending
        /\ sample' \in Said /\ stats' \in Tally /\ dockerStats' \in Kept
    BY <1>2, FirstValues DEF StartRun
  <2>3. /\ runner' \in {"idle", "running", "killing", "joining", "reading", "ended", "raised"}
        /\ client' \in {"none", "alive", "dead"}
        /\ container' \in {"absent", "created", "running", "gone"}
        /\ kill' \in {"none", "done", "failed", "hung"}
        /\ chaos' \in {"off", "await_net", "await_step", "check", "call", "await_stop",
                      "divide", "delete", "flush", "done", "dead"}
        /\ sampler' \in {"off", "idle", "polling", "cpu", "peak", "mem", "pids", "done"}
    BY DEF StartRun
  <2>4. step' \in Nat \ {0} /\ calls' \in Nat
    BY DEF StartRun
  <2>5. stop' \in BOOLEAN /\ joined' \in BOOLEAN /\ cut' \in BOOLEAN /\ refused' \in BOOLEAN
    BY DEF StartRun
  <2>. QED
    BY <2>1, <2>2, <2>3, <2>4, <2>5 DEF RunTypeOK, RunnerTypes, DockerTypes, ChaosTypes, SamplerTypes, Flags
<1>4. Ready'
  BY DEF StartRun, Ready, P
<1>. QED
  BY <1>3, <1>4

\* A docker command leaves limits behind, whatever it is.
LEMMA EffectTypes ==
    ASSUME NEW c \in Command, limits \in Limits
    PROVE  Effect(c) \in Limits
<1>. DEFINE mem == {a \in c.args : a[1] = "mem"}
<1>1. c.args \subseteq Arg
  BY DEF Command, Rule, Flag, Arg
<1>2. mem # {} => (CHOOSE a \in mem : TRUE)[2] \in Nat
  <2>1. \A a \in mem : a[2] \in Nat
    BY <1>1 DEF Arg
  <2>. QED
    BY <2>1
<1>3. Effect(c) = CASE c.op = "update" -> [limits EXCEPT !.mem = IF mem = {} THEN @ ELSE (CHOOSE a \in mem : TRUE)[2]]
          [] c.op = "clear"  -> [limits EXCEPT !.net = {}]
          [] c.op = "netem" /\ limits.net = {} -> [limits EXCEPT !.net = c.args]
          [] c.op = "tbf" /\ limits.net # {} /\ ~\E r \in limits.net : r[1] = "rate" -> [limits EXCEPT !.net = @ \cup c.args]
          [] OTHER -> limits
  BY DEF Effect
<1>. HIDE DEF mem
<1>. QED
  BY <1>1, <1>2, <1>3 DEF Limits

LEMMA RunnerKeepsTypes ==
    ASSUME RunTypeOK, Ready, RunnerSteps
    PROVE  RunTypeOK' /\ Ready'
<1>. USE DEF runnerVars, dockerVars, chaosVars, samplerVars
<1>. DEFINE Finished == /\ outcome' \in Ending /\ kill' \in {"none", "done", "failed", "hung"}
                        /\ stop' = TRUE /\ runner' = "joining" /\ refused' = refused
                        /\ client' \in {"none", "alive", "dead"}
                        /\ runner \in {"running", "killing"}
                        /\ UNCHANGED <<profile, result, joined, stats, chaosVars, samplerVars>>
<1>1. ASSUME Finished, DockerTypes' PROVE RunTypeOK' /\ Ready'
  <2>1. RunnerTypes'
    BY <1>1 DEF RunTypeOK, RunnerTypes
  <2>2. ChaosTypes' /\ SamplerTypes' /\ stats' \in Tally
    BY <1>1 DEF RunTypeOK, ChaosTypes, SamplerTypes
  <2>3. Flags'
    BY <1>1 DEF RunTypeOK, Flags
  <2>4. Ready'
    BY <1>1 DEF Ready, P
  <2>. QED
    BY <1>1, <2>1, <2>2, <2>3, <2>4 DEF RunTypeOK
<1>2. CASE RunReturns
  <2>1. outcome.rc \in Int
    BY DEF RunTypeOK, RunnerTypes, Ending
  <2>2. outcome' \in Ending
    <3>1. PICK rc \in Int : outcome' = [rc |-> rc, timed |-> FALSE]
      BY <1>2, <2>1 DEF RunReturns, Finish
    <3>. QED
      BY <3>1 DEF Ending
  <2>3. Finished /\ DockerTypes'
    BY <1>2, <2>2 DEF RunReturns, Finish, RunTypeOK, DockerTypes
  <2>. QED
    BY <1>1, <2>3
<1>3. CASE RunFails
  <2>1. Finished /\ DockerTypes'
    BY <1>3 DEF RunFails, Finish, Ending, RunTypeOK, DockerTypes
  <2>. QED
    BY <1>1, <2>1
<1>4. CASE RunTimesOut
  <2>1. RunnerTypes' /\ DockerTypes' /\ ChaosTypes' /\ SamplerTypes' /\ stats' \in Tally
    BY <1>4 DEF RunTimesOut, RunTypeOK, RunnerTypes, DockerTypes, ChaosTypes, SamplerTypes
  <2>2. Flags' /\ Ready'
    BY <1>4 DEF RunTimesOut, RunTypeOK, Flags, Ready, P
  <2>. QED
    BY <2>1, <2>2 DEF RunTypeOK
<1>5. CASE KillReturns
  <2>1. outcome' \in Ending
    <3>1. outcome' = [rc |-> -1, timed |-> TRUE]
      BY <1>5 DEF KillReturns, Finish
    <3>. QED
      BY <3>1 DEF Ending
  <2>2. DockerTypes'
    BY <1>5 DEF KillReturns, RunTypeOK, DockerTypes
  <2>3. Finished
    BY <1>5, <2>1 DEF KillReturns, Finish, RunTypeOK, RunnerTypes
  <2>. QED
    BY <1>1, <2>2, <2>3
<1>6. CASE KillHangs
  <2>1. Finished /\ DockerTypes'
    BY <1>6 DEF KillHangs, Finish, Ending, RunTypeOK, RunnerTypes, DockerTypes
  <2>. QED
    BY <1>1, <2>1
<1>7. ASSUME NEW ok \in BOOLEAN, Joined(ok), runner = "joining" PROVE RunTypeOK' /\ Ready'
  <2>1. RunnerTypes' /\ DockerTypes' /\ ChaosTypes' /\ SamplerTypes' /\ stats' \in Tally
    BY <1>7 DEF Joined, RunTypeOK, RunnerTypes, DockerTypes, ChaosTypes, SamplerTypes
  <2>2. Flags' /\ Ready'
    BY <1>7 DEF Joined, RunTypeOK, Flags, Ready, P
  <2>. QED
    BY <2>1, <2>2 DEF RunTypeOK
<1>8. CASE JoinReturns \/ JoinTimesOut
  BY <1>7, <1>8 DEF JoinReturns, JoinTimesOut
<1>9. CASE ReadFigure
  <2>1. PICK n \in 0 .. 3 : n = Len(result) /\ runner = "reading" /\ result \in Seq(Nat)
    <3>1. PICK n \in Nat : n = Len(result) /\ runner = "reading" /\ result \in Seq(Nat)
      BY <1>9 DEF ReadFigure, RunTypeOK, RunnerTypes
    <3>2. n < 4
      BY <3>1 DEF Ready
    <3>. QED
      BY <3>1, <3>2
  <2>. DEFINE figure == dockerStats[Figures[n + 1]]
  <2>2. figure \in Nat
    <3>1. Figures[n + 1] \in {"rss", "peak", "avg", "pids"}
      <4>1. n + 1 = 1 \/ n + 1 = 2 \/ n + 1 = 3 \/ n + 1 = 4
        OBVIOUS
      <4>. QED
        BY <4>1 DEF Figures
    <3>. QED
      BY <3>1 DEF RunTypeOK, ChaosTypes, Kept
  <2>3. result' = Append(result, figure) /\ runner' = IF Len(result') = 4 THEN "ended" ELSE "reading"
    BY <1>9, <2>1 DEF ReadFigure, Figures
  <2>. HIDE DEF figure
  <2>4. result' \in Seq(Nat) /\ Len(result') = n + 1
    BY <2>1, <2>2, <2>3
  <2>5. runner' = "ended" => Len(result') = 4
    BY <2>3
  <2>6. runner' # "ended" => Len(result') < 4
    <3>1. runner' # "ended" => Len(result') # 4
      BY <2>3
    <3>2. n + 1 # 4 => n + 1 < 4
      OBVIOUS
    <3>. QED
      BY <2>4, <3>1, <3>2
  <2>7. RunnerTypes'
    BY <1>9, <2>3, <2>4 DEF ReadFigure, RunTypeOK, RunnerTypes
  <2>8. DockerTypes' /\ ChaosTypes' /\ SamplerTypes' /\ stats' \in Tally
    BY <1>9 DEF ReadFigure, RunTypeOK, DockerTypes, ChaosTypes, SamplerTypes
  <2>9. Flags'
    BY <1>9 DEF ReadFigure, RunTypeOK, Flags
  <2>10. Ready'
    <3>1. runner' \in {"ended", "reading"}
      BY <2>3
    <3>2. UNCHANGED <<chaos, step, cmds, stats, profile>>
      BY <1>9 DEF ReadFigure
    <3>. QED
      BY <2>5, <2>6, <3>1, <3>2 DEF Ready, P
  <2>. QED
    BY <2>7, <2>8, <2>9, <2>10 DEF RunTypeOK
<1>. QED
  BY <1>2, <1>3, <1>4, <1>5, <1>6, <1>8, <1>9 DEF RunnerSteps

LEMMA DaemonKeepsTypes ==
    ASSUME RunTypeOK, Ready, DaemonSteps
    PROVE  RunTypeOK' /\ Ready'
<1>. USE DEF runnerVars, dockerVars, chaosVars, samplerVars
<1>1. CASE ContainerStarts
  <2>1. RunnerTypes' /\ DockerTypes' /\ ChaosTypes' /\ SamplerTypes' /\ stats' \in Tally
    BY <1>1 DEF ContainerStarts, RunTypeOK, RunnerTypes, DockerTypes, ChaosTypes, SamplerTypes
  <2>2. Flags' /\ Ready'
    BY <1>1 DEF ContainerStarts, RunTypeOK, Flags, Ready, P
  <2>. QED
    BY <2>1, <2>2 DEF RunTypeOK
<1>2. CASE ContainerExits
  <2>1. PICK end \in ExitCodes[profile] : outcome' = IF runner = "running" THEN [outcome EXCEPT !.rc = end] ELSE outcome
    BY <1>2 DEF ContainerExits
  <2>2. outcome' \in Ending
    <3>0. profile \in DOMAIN Profiles
      BY DEF RunTypeOK, RunnerTypes
    <3>1. end \in 0 .. 255
      BY <2>1, <3>0, ExitCodesAssumption
    <3>2. end \in Int
      BY <3>1
    <3>3. outcome \in Ending
      BY DEF RunTypeOK, RunnerTypes
    <3>. QED
      BY <2>1, <3>2, <3>3 DEF Ending
  <2>3. RunnerTypes' /\ DockerTypes' /\ ChaosTypes' /\ SamplerTypes' /\ stats' \in Tally
    BY <1>2, <2>2 DEF ContainerExits, RunTypeOK, RunnerTypes, DockerTypes, ChaosTypes, SamplerTypes
  <2>4. Flags' /\ Ready'
    BY <1>2 DEF ContainerExits, RunTypeOK, Flags, Ready, P
  <2>. QED
    BY <2>3, <2>4 DEF RunTypeOK
<1>. QED
  BY <1>1, <1>2 DEF DaemonSteps

\* Where the chaos thread finds its commands.
LEMMA SnapshotOfTheStep ==
    ASSUME RunTypeOK, Ready, CheckStop, ~stop
    PROVE  \E s \in Snapshots(P) : /\ cmds' = StepCommands(P, s)
                                   /\ step' = step + 1
                                   /\ chaos' = IF cmds' = <<>> THEN "await_step" ELSE "call"
<1>1. profile \in DOMAIN Profiles /\ step \in Nat \ {0}
  BY DEF RunTypeOK, RunnerTypes, ChaosTypes
<1>2. step \in DOMAIN P.steps
  <2>1. step <= Len(P.steps)
    BY DEF CheckStop, Ready
  <2>2. P.steps \in Seq([delay : Nat, snapshot : Moment])
    BY <1>1, ProfileTypes DEF P
  <2>. QED
    BY <1>1, <2>1, <2>2
<1>3. InOrder(P)[step].snapshot \in Snapshots(P)
  BY <1>1, <1>2, SortedSteps DEF P
<1>. QED
  BY <1>3 DEF CheckStop

LEMMA ChaosKeepsTypes ==
    ASSUME RunTypeOK, Ready, ChaosSteps
    PROVE  RunTypeOK' /\ Ready'
<1>. USE DEF runnerVars, dockerVars, samplerVars
<1>1. profile \in DOMAIN Profiles /\ profile' = profile
  BY DEF ChaosSteps, AwaitNet, AwaitStep, CheckStop, DockerCall, DockerHangs, TakeSum, Divide, DeleteSamples,
         Flush, GoesOn, RunTypeOK, RunnerTypes
<1>2. RunnerTypes' /\ SamplerTypes'
  BY DEF ChaosSteps, AwaitNet, AwaitStep, CheckStop, DockerCall, DockerHangs, TakeSum, Divide, DeleteSamples,
         Flush, GoesOn, RunTypeOK, RunnerTypes, SamplerTypes
<1>3. CASE AwaitNet
  <2>1. cmds' \in Seq(Command) /\ (chaos' = "call" => cmds' # <<>>)
    <3>1. HasNetChaos(P.initial)
      BY <1>3 DEF AwaitNet, Ready
    <3>2. TcCommands(P.initial) \in Seq(Command) /\ TcCommands(P.initial) # <<>>
      BY <1>1, <3>1, CommandsOfTheStart DEF ChangeTo, P
    <3>. QED
      BY <1>3, <3>2 DEF AwaitNet, RunTypeOK, ChaosTypes
  <2>2. ChaosTypes' /\ DockerTypes' /\ stats' \in Tally
    BY <1>3, <2>1 DEF AwaitNet, GoesOn, RunTypeOK, ChaosTypes, DockerTypes
  <2>3. Flags' /\ Ready'
    BY <1>3, <2>1 DEF AwaitNet, GoesOn, RunTypeOK, Flags, Ready, P
  <2>. QED
    BY <1>2, <2>2, <2>3 DEF RunTypeOK
<1>4. CASE AwaitStep
  <2>1. ChaosTypes' /\ DockerTypes' /\ stats' \in Tally
    BY <1>4 DEF AwaitStep, GoesOn, RunTypeOK, ChaosTypes, DockerTypes
  <2>2. Flags' /\ Ready'
    BY <1>4 DEF AwaitStep, GoesOn, RunTypeOK, Flags, Ready, P
  <2>. QED
    BY <1>2, <2>1, <2>2 DEF RunTypeOK
<1>5. CASE CheckStop
  <2>1. cmds' \in Seq(Command) /\ (chaos' = "call" => cmds' # <<>>)
    <3>1. CASE stop
      BY <1>5, <3>1 DEF CheckStop, RunTypeOK, ChaosTypes
    <3>2. CASE ~stop
      BY <1>1, <1>5, <3>2, SnapshotOfTheStep, CommandsOfAStep DEF ChangeTo, P
    <3>. QED
      BY <3>1, <3>2
  <2>2. step' \in Nat \ {0} /\ chaos' \in {"await_stop", "await_step", "call"}
    BY <1>5 DEF CheckStop, RunTypeOK, ChaosTypes
  <2>3. ChaosTypes' /\ DockerTypes' /\ stats' \in Tally
    BY <1>5, <2>1, <2>2 DEF CheckStop, GoesOn, RunTypeOK, ChaosTypes, DockerTypes
  <2>4. Flags' /\ Ready'
    BY <1>5, <2>1, <2>2 DEF CheckStop, GoesOn, RunTypeOK, Flags, Ready, P
  <2>. QED
    BY <1>2, <2>3, <2>4 DEF RunTypeOK
<1>6. CASE DockerCall
  <2>1. cmds \in Seq(Command) /\ cmds # <<>>
    BY <1>6 DEF DockerCall, RunTypeOK, ChaosTypes, Ready
  <2>2. Head(cmds) \in Command /\ Tail(cmds) \in Seq(Command) /\ (Len(cmds) # 1 => Tail(cmds) # <<>>)
    BY <2>1, HeadAndTail
  <2>3. limits' \in Limits
    BY <1>6, <2>2, EffectTypes DEF DockerCall, RunTypeOK, DockerTypes
  <2>4. calls' \in Nat
    BY <1>6 DEF DockerCall, RunTypeOK, ChaosTypes
  <2>5. chaos' \in {"await_step", "call"} /\ (chaos' = "call" => cmds' # <<>>)
    BY <1>6, <2>2 DEF DockerCall
  <2>6. ChaosTypes' /\ DockerTypes' /\ stats' \in Tally
    BY <1>6, <2>2, <2>3, <2>4, <2>5 DEF DockerCall, GoesOn, RunTypeOK, ChaosTypes, DockerTypes
  <2>7. Flags'
    <3>1. refused' \in BOOLEAN
      BY <1>6 DEF DockerCall, RunTypeOK, Flags
    <3>. QED
      BY <1>6, <3>1 DEF DockerCall, GoesOn, RunTypeOK, Flags
  <2>8. Ready'
    BY <1>6, <2>5 DEF DockerCall, GoesOn, Ready, P
  <2>. QED
    BY <1>2, <2>6, <2>7, <2>8 DEF RunTypeOK
<1>7. CASE DockerHangs
  <2>1. ChaosTypes' /\ DockerTypes' /\ stats' \in Tally
    BY <1>7 DEF DockerHangs, GoesOn, RunTypeOK, ChaosTypes, DockerTypes
  <2>2. Flags' /\ Ready'
    BY <1>7 DEF DockerHangs, GoesOn, RunTypeOK, Flags, Ready, P
  <2>. QED
    BY <1>2, <2>1, <2>2 DEF RunTypeOK
<1>8. CASE TakeSum
  <2>1. stats' \in Tally /\ stats'.len = stats.len
    BY <1>8 DEF TakeSum, RunTypeOK, Tally
  <2>2. ChaosTypes' /\ DockerTypes'
    BY <1>8 DEF TakeSum, GoesOn, RunTypeOK, ChaosTypes, DockerTypes
  <2>3. Flags'
    BY <1>8 DEF TakeSum, GoesOn, RunTypeOK, Flags
  <2>4. chaos' = "divide" => stats'.len > 0
    <3>1. stats.len \in Nat
      BY DEF RunTypeOK, Tally
    <3>. QED
      BY <1>8, <2>1, <3>1 DEF TakeSum
  <2>5. Ready'
    BY <1>8, <2>4 DEF TakeSum, GoesOn, Ready, P
  <2>. QED
    BY <1>2, <2>1, <2>2, <2>3, <2>5 DEF RunTypeOK
<1>9. CASE Divide
  <2>1. stats.avg \in Nat /\ stats.len \in Nat \ {0} /\ stats \in Tally
    BY <1>9 DEF Divide, Ready, RunTypeOK, Tally
  <2>2. stats.avg \div stats.len \in Nat
    BY <2>1
  <2>3. stats' \in Tally
    BY <1>9, <2>1, <2>2 DEF Divide, Tally
  <2>4. ChaosTypes' /\ DockerTypes'
    BY <1>9 DEF Divide, GoesOn, RunTypeOK, ChaosTypes, DockerTypes
  <2>5. Flags' /\ Ready'
    BY <1>9 DEF Divide, GoesOn, RunTypeOK, Flags, Ready, P
  <2>. QED
    BY <1>2, <2>3, <2>4, <2>5 DEF RunTypeOK
<1>10. CASE DeleteSamples
  <2>1. stats' \in Tally
    BY <1>10 DEF DeleteSamples, RunTypeOK, Tally
  <2>2. ChaosTypes' /\ DockerTypes'
    BY <1>10 DEF DeleteSamples, GoesOn, RunTypeOK, ChaosTypes, DockerTypes
  <2>3. Flags' /\ Ready'
    BY <1>10 DEF DeleteSamples, GoesOn, RunTypeOK, Flags, Ready, P
  <2>. QED
    BY <1>2, <2>1, <2>2, <2>3 DEF RunTypeOK
<1>11. CASE Flush
  <2>1. dockerStats' \in Kept
    BY <1>11 DEF Flush, RunTypeOK, Tally, Kept
  <2>2. ChaosTypes' /\ DockerTypes' /\ stats' \in Tally
    BY <1>11, <2>1 DEF Flush, GoesOn, RunTypeOK, ChaosTypes, DockerTypes
  <2>3. Flags' /\ Ready'
    BY <1>11 DEF Flush, GoesOn, RunTypeOK, Flags, Ready, P
  <2>. QED
    BY <1>2, <2>2, <2>3 DEF RunTypeOK
<1>. QED
  BY <1>3, <1>4, <1>5, <1>6, <1>7, <1>8, <1>9, <1>10, <1>11 DEF ChaosSteps

LEMMA LargerOfTwo == \A a, b \in Nat : Larger(a, b) \in {a, b} /\ a <= Larger(a, b) /\ b <= Larger(a, b)
BY DEF Larger

LEMMA SamplerKeepsTypes ==
    ASSUME RunTypeOK, Ready, SamplerSteps
    PROVE  RunTypeOK' /\ Ready'
<1>. USE DEF runnerVars, dockerVars, chaosVars
<1>1. UNCHANGED <<runnerVars, dockerVars, chaosVars>>
  BY DEF SamplerSteps, Poll, PollFails, PollReturns, AddCpu, RaisePeak, AddMemory, AddPids, Samples
<1>2. RunnerTypes' /\ DockerTypes' /\ ChaosTypes'
  BY <1>1 DEF RunTypeOK, RunnerTypes, DockerTypes, ChaosTypes
<1>3. Flags'
  BY <1>1 DEF RunTypeOK, Flags
<1>4. SamplerTypes'
  <2>1. CASE Poll \/ PollFails \/ AddCpu \/ RaisePeak \/ AddMemory \/ AddPids
    BY <2>1 DEF Poll, PollFails, AddCpu, RaisePeak, AddMemory, AddPids, RunTypeOK, SamplerTypes
  <2>2. CASE PollReturns
    <3>1. PICK s \in Loads[profile] : sample' = s /\ samples' = Append(samples, s)
      BY <2>2 DEF PollReturns
    <3>2. s \in Said
      BY LoadsAssumption DEF RunTypeOK, RunnerTypes, Said
    <3>3. samples \in Seq(Said) /\ sampler' = "cpu"
      BY <2>2 DEF PollReturns, RunTypeOK, SamplerTypes
    <3>. QED
      BY <3>1, <3>2, <3>3 DEF SamplerTypes
  <2>. QED
    BY <2>1, <2>2 DEF SamplerSteps
<1>5. stats' \in Tally /\ stats'.len >= stats.len /\ stats.len \in Nat /\ stats'.len \in Nat
  <2>1. stats \in Tally /\ sample \in Said
    BY DEF RunTypeOK, SamplerTypes
  <2>2. UNCHANGED stats \/ (\E n \in Nat : \/ stats' = [stats EXCEPT !.peak = n]
                                           \/ stats' = [stats EXCEPT !.rss = n]
                                           \/ stats' = [stats EXCEPT !.pids = n])
        \/ stats' = [stats EXCEPT !.sum = @ + sample.cpu, !.len = @ + 1]
    <3>1. /\ Larger(stats.peak, sample.cpu) \in Nat
          /\ Larger(stats.rss, sample.mem) \in Nat
          /\ Larger(stats.pids, sample.pids) \in Nat
      <4>1. \A a, b \in Nat : Larger(a, b) \in Nat
        BY LargerOfTwo
      <4>. QED
        BY <2>1, <4>1 DEF Tally, Said
    <3>. QED
      BY <3>1 DEF SamplerSteps, Poll, PollFails, PollReturns, AddCpu, RaisePeak, AddMemory, AddPids
  <2>3. ASSUME NEW n \in Nat, \/ stats' = [stats EXCEPT !.peak = n]
                              \/ stats' = [stats EXCEPT !.rss = n]
                              \/ stats' = [stats EXCEPT !.pids = n]
        PROVE  stats' \in Tally /\ stats'.len = stats.len
    BY <2>1, <2>3 DEF Tally
  <2>4. CASE stats' = [stats EXCEPT !.sum = @ + sample.cpu, !.len = @ + 1]
    <3>1. stats.sum + sample.cpu \in Nat /\ stats.len + 1 \in Nat
      BY <2>1 DEF Tally, Said
    <3>2. stats' \in Tally /\ stats'.len = stats.len + 1
      BY <2>1, <2>4, <3>1 DEF Tally
    <3>3. stats.len \in Nat
      BY <2>1 DEF Tally
    <3>. QED
      BY <3>2, <3>3
  <2>5. stats.len \in Nat
    BY <2>1 DEF Tally
  <2>. QED
    BY <2>1, <2>2, <2>3, <2>4, <2>5
<1>6. Ready'
  <2>1. stats.len > 0 => stats'.len > 0
    BY <1>5
  <2>. QED
    BY <1>1, <2>1 DEF Ready, P
<1>. QED
  BY <1>2, <1>3, <1>4, <1>5, <1>6 DEF RunTypeOK

LEMMA MovesKeepTypes == RunTypeOK /\ Ready /\ RunMove => RunTypeOK' /\ Ready'
<1>. SUFFICES ASSUME RunTypeOK, Ready, RunMove PROVE RunTypeOK' /\ Ready'
  OBVIOUS
<1>1. CASE RunSteps
  BY <1>1, RunnerKeepsTypes, DaemonKeepsTypes, ChaosKeepsTypes, SamplerKeepsTypes DEF RunSteps
<1>2. CASE \E p \in DOMAIN Profiles : StartRun(p)
  BY <1>2, StartTypes
<1>3. CASE Returned
  <2>1. AtRest'
    BY <1>3 DEF Returned, AtRest, RunLimits, Unchanged, Snapshot, None, Pending, NoSample, NoStats, Empty
  <2>2. AtRest' => RunTypeOK' /\ Ready'
    BY RestTypes, PTL
  <2>. QED
    BY <2>1, <2>2
<1>4. CASE UNCHANGED runVars
  <2>1. RunnerTypes' /\ DockerTypes' /\ ChaosTypes' /\ SamplerTypes' /\ stats' \in Tally
    BY <1>4 DEF runVars, RunTypeOK, RunnerTypes, DockerTypes, ChaosTypes, SamplerTypes
  <2>2. Flags' /\ Ready'
    BY <1>4 DEF runVars, RunTypeOK, Flags, Ready, P
  <2>. QED
    BY <2>1, <2>2 DEF RunTypeOK
<1>. QED
  BY <1>1, <1>2, <1>3, <1>4 DEF RunMove

LEMMA SessionStartsAtRest == SessionInit => AtRest
BY DEF SessionInit, RunInit, AtRest

\* What every state of a run satisfies holds in every session.
THEOREM RunTypes == SessionSpec => [](RunTypeOK /\ Ready)
<1>1. SessionInit => RunTypeOK /\ Ready
  BY SessionStartsAtRest, RestTypes
<1>2. RunTypeOK /\ Ready /\ [SessionNext]_vars => RunTypeOK' /\ Ready'
  BY SessionMovesRuns, MovesKeepTypes
<1>. QED
  BY <1>1, <1>2, PTL DEF SessionSpec

-----------------------------------------------------------------------------

\* Only a runner that waits for its client has one, and docker kill ends what outlives the client.
Attended ==
    /\ runner = "idle" => container = "absent"
    /\ client = "alive" => runner = "running"
    /\ runner \in {"joining", "reading", "ended", "raised"} /\ container = "running" => kill \in {"failed", "hung"}

LEMMA MovesAttend == RunTypeOK /\ Attended /\ RunMove => Attended'
<1>. SUFFICES ASSUME RunTypeOK, Attended, RunMove PROVE Attended'
  OBVIOUS
<1>. USE DEF runnerVars, dockerVars, chaosVars, samplerVars
<1>1. CASE RunReturns \/ RunFails
  BY <1>1 DEF RunReturns, RunFails, Finish, Attended
<1>2. CASE RunTimesOut
  BY <1>2 DEF RunTimesOut, Attended
<1>3. CASE KillReturns \/ KillHangs
  BY <1>3 DEF KillReturns, KillHangs, Finish, Attended
<1>4. CASE JoinReturns \/ JoinTimesOut
  BY <1>4 DEF JoinReturns, JoinTimesOut, Joined, Attended
<1>5. CASE ReadFigure
  <2>1. runner = "reading" /\ runner' \in {"ended", "reading"} /\ UNCHANGED <<client, container, kill>>
    BY <1>5 DEF ReadFigure
  <2>. QED
    BY <2>1 DEF Attended
<1>6. CASE ContainerStarts
  BY <1>6 DEF ContainerStarts, Attended
<1>7. CASE ContainerExits
  <2>1. container = "running" /\ container' = "gone" /\ UNCHANGED <<runner, client, kill>>
    BY <1>7 DEF ContainerExits
  <2>. QED
    BY <2>1 DEF Attended
<1>8. CASE ChaosSteps \/ SamplerSteps
  <2>1. UNCHANGED <<runner, client, kill, container>>
    BY <1>8 DEF ChaosSteps, AwaitNet, AwaitStep, CheckStop, DockerCall, DockerHangs, TakeSum, Divide, DeleteSamples,
                Flush, GoesOn, SamplerSteps, Poll, PollFails, PollReturns, AddCpu, RaisePeak, AddMemory, AddPids, Samples
  <2>. QED
    BY <2>1 DEF Attended
<1>9. CASE \E p \in DOMAIN Profiles : StartRun(p)
  BY <1>9 DEF StartRun, Attended
<1>10. CASE Returned
  BY <1>10 DEF Returned, Attended
<1>11. CASE UNCHANGED runVars
  BY <1>11 DEF runVars, Attended
<1>. QED
  BY <1>1, <1>2, <1>3, <1>4, <1>5, <1>6, <1>7, <1>8, <1>9, <1>10, <1>11
     DEF RunMove, RunSteps, RunnerSteps, DaemonSteps

\* When a run is over its container is, unless docker kill could not end it.
THEOREM NobodyStrays == SessionSpec => []NoStrayContainer
<1>1. SessionInit => Attended
  BY SessionStartsAtRest DEF AtRest, Attended
<1>2. RunTypeOK /\ Attended /\ [SessionNext]_vars => Attended'
  BY SessionMovesRuns, MovesAttend
<1>3. Attended => NoStrayContainer
  BY DEF Attended, NoStrayContainer, RunOver
<1>. QED
  BY <1>1, <1>2, <1>3, RunTypes, PTL DEF SessionSpec

-----------------------------------------------------------------------------

\* What the commands left make of the network: the rules are within s, or will be cleared first.
Heads(s) == ChangeTo(cmds, s) /\ (limits.net \subseteq s.net \/ ClearsFirst(cmds))

Applying ==
    /\ ~stop => calls = 0
    /\ calls + Len(cmds) <= Budget(P)
    /\ RulesOfOneSnapshot
    /\ refused \/ \E s \in Snapshots(P) : Heads(s)

LEMMA EffectOnRules ==
    ASSUME NEW c \in Command, limits \in Limits
    PROVE  /\ c.op = "update" => Effect(c).net = limits.net
           /\ c.op = "clear" => Effect(c).net = {}
           /\ Effect(c).net \subseteq limits.net \cup c.args
BY DEF Effect, Limits, Command

\* A command that has no rules to add leaves the clearing ahead of them ahead.
LEMMA ClearingStaysFirst ==
    ASSUME NEW q \in Seq(Command), q # <<>>, ClearsFirst(q), Head(q).op # "clear"
    PROVE  Head(q).op = "update" /\ ClearsFirst(Tail(q))
<1>1. /\ Head(q) \in Command /\ Head(q) = q[1] /\ 1 \in 1 .. Len(q)
      /\ Tail(q) \in Seq(Command) /\ Len(Tail(q)) = Len(q) - 1
      /\ \A i \in 1 .. Len(Tail(q)) : i + 1 \in 1 .. Len(q) /\ Tail(q)[i] = q[i + 1]
  BY HeadAndTail
<1>2. q[1].op \notin {"netem", "tbf"}
  <2>1. ~\E j \in 1 .. Len(q) : j < 1
    OBVIOUS
  <2>. QED
    BY <1>1, <2>1 DEF ClearsFirst
<1>3. Head(q).op = "update"
  BY <1>1, <1>2 DEF Command
<1>4. ASSUME NEW i \in 1 .. Len(Tail(q)), Tail(q)[i].op \in {"netem", "tbf"}
      PROVE  \E j \in 1 .. Len(Tail(q)) : j < i /\ Tail(q)[j].op = "clear"
  <2>1. PICK k \in 1 .. Len(q) : k < i + 1 /\ q[k].op = "clear"
    BY <1>1, <1>4 DEF ClearsFirst
  <2>2. k # 1
    BY <1>1, <2>1
  <2>3. k - 1 \in 1 .. Len(Tail(q)) /\ k - 1 < i /\ (k - 1) + 1 = k
    BY <1>1, <2>1, <2>2
  <2>. QED
    BY <1>1, <2>1, <2>3
<1>. QED
  BY <1>3, <1>4 DEF ClearsFirst

LEMMA NewCommandsApply ==
    ASSUME RunTypeOK, Applying, ~stop, UNCHANGED <<profile, limits, refused, calls, stop>>,
           NEW s \in Snapshots(P), ChangeTo(cmds', s), ClearsFirst(cmds'),
           Len(cmds') <= Len(StepCommands(P, s))
    PROVE  Applying'
<1>1. P' = P
  BY DEF P
<1>2. profile \in DOMAIN Profiles
  BY DEF RunTypeOK, RunnerTypes
<1>3. calls' = 0 /\ Len(cmds') \in Nat
  BY DEF Applying, ChangeTo
<1>4. calls' + Len(cmds') <= Budget(P)
  <2>1. /\ Len(StepCommands(P, s)) <= Budget(P) /\ Budget(P) \in Nat
        /\ Len(StepCommands(P, s)) \in Nat
    BY <1>2, WithinBudget, CommandsOfAStep DEF P
  <2>. QED
    BY <1>3, <2>1
<1>5. RulesOfOneSnapshot'
  BY <1>1 DEF Applying, RulesOfOneSnapshot
<1>6. Heads(s)'
  BY DEF Heads
<1>. QED
  BY <1>1, <1>3, <1>4, <1>5, <1>6 DEF Applying

LEMMA CallsApply ==
    ASSUME RunTypeOK, Ready, Applying, DockerCall
    PROVE  Applying'
<1>. DEFINE c == Head(cmds)
<1>1. chaos = "call" /\ cmds' = Tail(cmds) /\ UNCHANGED <<profile, stop>> /\ P' = P
  BY DEF DockerCall, GoesOn, runnerVars, P
<1>2. cmds \in Seq(Command) /\ cmds # <<>> /\ limits \in Limits /\ calls \in Nat
  BY <1>1 DEF Ready, RunTypeOK, ChaosTypes, DockerTypes
<1>3. /\ c \in Command /\ c = cmds[1] /\ 1 \in 1 .. Len(cmds)
      /\ Tail(cmds) \in Seq(Command) /\ Len(Tail(cmds)) = Len(cmds) - 1
      /\ \A i \in 1 .. Len(Tail(cmds)) : i + 1 \in 1 .. Len(cmds) /\ Tail(cmds)[i] = cmds[i + 1]
  BY <1>2, HeadAndTail
<1>4. ~stop' => calls' = 0
  BY <1>1 DEF Applying, DockerCall
<1>5. calls' + Len(cmds') <= Budget(P)'
  <2>1. PICK n \in Nat : n = Len(cmds)
    BY <1>2
  <2>2. PICK b \in Nat : b = Budget(P)
    BY WithinBudget DEF P, RunTypeOK, RunnerTypes
  <2>3. PICK k \in Nat, m \in Nat : k = calls /\ m = calls' /\ m <= k + 1
    BY <1>2 DEF DockerCall
  <2>4. k + n <= b => m + (n - 1) <= b
    <3>1. \A w, x, y, z \in Nat : x <= w + 1 /\ w + y <= z => x + (y - 1) <= z
      OBVIOUS
    <3>. QED
      BY <2>3, <3>1
  <2>. QED
    BY <1>1, <1>3, <2>1, <2>2, <2>3, <2>4 DEF Applying
<1>6. ASSUME ~refused'
      PROVE  \E s \in Snapshots(P) : Heads(s)' /\ (limits'.net \subseteq s.net \/ limits'.net = limits.net)
  <2>1. ~refused /\ (limits' = Effect(c) \/ (limits' = limits /\ c.op # "clear"))
    <3>1. CASE limits' = Effect(c) /\ UNCHANGED refused
      BY <1>6, <3>1
    <3>2. CASE limits' = limits /\ refused' = (refused \/ c.op = "clear")
      BY <1>6, <3>2
    <3>. QED
      BY <3>1, <3>2 DEF DockerCall
  <2>2. PICK s \in Snapshots(P) : Heads(s)
    BY <2>1 DEF Applying
  <2>3. ChangeTo(cmds', s)
    BY <1>1, <1>3, <2>2 DEF Heads, ChangeTo
  <2>4. CASE c.op = "clear"
    <3>1. limits'.net = {}
      BY <1>2, <1>3, <2>1, <2>4, EffectOnRules
    <3>. QED
      BY <2>3, <3>1 DEF Heads
  <2>5. CASE c.op = "update"
    <3>1. limits'.net = limits.net
      BY <1>2, <1>3, <2>1, <2>5, EffectOnRules
    <3>2. ClearsFirst(cmds) => ClearsFirst(cmds')
      BY <1>1, <1>2, <2>5, ClearingStaysFirst
    <3>. QED
      BY <2>2, <2>3, <3>1, <3>2 DEF Heads
  <2>6. CASE c.op \in {"netem", "tbf"}
    <3>1. ~ClearsFirst(cmds)
      BY <1>2, <2>6, ClearingStaysFirst
    <3>2. c.args \subseteq s.net
      BY <1>3, <2>2, <2>6 DEF Heads, ChangeTo
    <3>3. limits.net \subseteq s.net
      BY <2>2, <3>1 DEF Heads
    <3>4. limits'.net \subseteq limits.net \cup c.args
      BY <1>2, <1>3, <2>1, EffectOnRules
    <3>5. limits'.net \subseteq s.net
      BY <3>2, <3>3, <3>4
    <3>. QED
      BY <2>3, <3>5 DEF Heads
  <2>7. c.op \in {"update", "clear", "netem", "tbf"}
    BY <1>3 DEF Command
  <2>. QED
    BY <2>4, <2>5, <2>6, <2>7
<1>7. RulesOfOneSnapshot'
  <2>1. refused => refused'
    BY DEF DockerCall
  <2>. QED
    BY <1>1, <1>6, <2>1 DEF Applying, RulesOfOneSnapshot
<1>. QED
  BY <1>1, <1>4, <1>5, <1>6, <1>7 DEF Applying

LEMMA NothingToApply ==
    profile \in DOMAIN Profiles /\ calls = 0 /\ cmds = <<>> /\ limits.net = {} => Applying
<1>. SUFFICES ASSUME profile \in DOMAIN Profiles, calls = 0, cmds = <<>>, limits.net = {}
              PROVE  Applying
  OBVIOUS
<1>1. P.initial \in Snapshots(P)
  BY DEF Snapshots
<1>2. ChangeTo(<<>>, P.initial)
  BY DEF ChangeTo
<1>3. Budget(P) \in Nat
  BY WithinBudget DEF P
<1>4. Len(<<>>) = 0
  OBVIOUS
<1>5. calls + Len(cmds) <= Budget(P)
  BY <1>3, <1>4
<1>. QED
  BY <1>1, <1>2, <1>5 DEF Applying, Heads, RulesOfOneSnapshot

LEMMA MovesApply == RunTypeOK /\ Ready /\ Applying /\ RunMove => Applying'
<1>. SUFFICES ASSUME RunTypeOK, Ready, Applying, RunMove PROVE Applying'
  OBVIOUS
<1>. USE DEF runnerVars, dockerVars, chaosVars, samplerVars
<1>1. profile \in DOMAIN Profiles
  BY DEF RunTypeOK, RunnerTypes
<1>2. ASSUME UNCHANGED <<profile, limits, refused, cmds, calls>>, stop => stop'
      PROVE  Applying'
  BY <1>2 DEF Applying, Heads, RulesOfOneSnapshot, P
<1>3. CASE RunnerSteps
  <2>1. UNCHANGED <<profile, limits, refused, cmds, calls>> /\ (stop => stop')
    BY <1>3 DEF RunnerSteps, RunReturns, RunFails, RunTimesOut, KillReturns, KillHangs, Finish,
                JoinReturns, JoinTimesOut, Joined, ReadFigure
  <2>. QED
    BY <1>2, <2>1
<1>4. CASE DaemonSteps \/ SamplerSteps
  <2>1. UNCHANGED <<profile, limits, refused, cmds, calls, stop>>
    BY <1>4 DEF DaemonSteps, ContainerStarts, ContainerExits, SamplerSteps, Poll, PollFails, PollReturns, AddCpu,
                RaisePeak, AddMemory, AddPids, Samples
  <2>. QED
    BY <1>2, <2>1
<1>5. CASE AwaitStep \/ DockerHangs \/ TakeSum \/ Divide \/ DeleteSamples \/ Flush
  <2>1. UNCHANGED <<profile, limits, refused, cmds, calls, stop>>
    BY <1>5 DEF AwaitStep, DockerHangs, TakeSum, Divide, DeleteSamples, Flush, GoesOn
  <2>. QED
    BY <1>2, <2>1
<1>6. CASE AwaitNet
  <2>1. UNCHANGED <<profile, limits, refused, calls, stop>>
    BY <1>6 DEF AwaitNet, GoesOn
  <2>2. CASE stop
    BY <1>2, <1>6, <2>1, <2>2 DEF AwaitNet
  <2>3. CASE ~stop
    <3>1. HasNetChaos(P.initial) /\ cmds' = TcCommands(P.initial)
      BY <1>6, <2>3 DEF AwaitNet, Ready
    <3>2. P.initial \in Snapshots(P)
      BY DEF Snapshots
    <3>. QED
      BY <1>1, <2>1, <2>3, <3>1, <3>2, CommandsOfTheStart, NewCommandsApply DEF P
  <2>. QED
    BY <2>2, <2>3
<1>7. CASE CheckStop
  <2>1. UNCHANGED <<profile, limits, refused, calls, stop>>
    BY <1>7 DEF CheckStop, GoesOn
  <2>2. CASE stop
    BY <1>2, <1>7, <2>1, <2>2 DEF CheckStop
  <2>3. CASE ~stop
    <3>1. PICK s \in Snapshots(P) : cmds' = StepCommands(P, s)
      BY <1>7, <2>3, SnapshotOfTheStep
    <3>2. ChangeTo(cmds', s) /\ ClearsFirst(cmds') /\ Len(cmds') <= Len(StepCommands(P, s))
      BY <1>1, <3>1, CommandsOfAStep DEF P
    <3>. QED
      BY <2>1, <2>3, <3>2, NewCommandsApply
  <2>. QED
    BY <2>2, <2>3
<1>8. CASE DockerCall
  BY <1>8, CallsApply
<1>9. CASE \E p \in DOMAIN Profiles : StartRun(p)
  <2>1. profile' \in DOMAIN Profiles /\ calls' = 0 /\ cmds' = <<>> /\ limits'.net = {}
    BY <1>9 DEF StartRun, RunLimits
  <2>2. (profile \in DOMAIN Profiles /\ calls = 0 /\ cmds = <<>> /\ limits.net = {})' => Applying'
    BY NothingToApply, PTL
  <2>. QED
    BY <2>1, <2>2
<1>10. CASE Returned
  <2>1. profile' \in DOMAIN Profiles /\ calls' = 0 /\ cmds' = <<>> /\ limits'.net = {}
    BY <1>10 DEF Returned, RunLimits, Profiles
  <2>2. (profile \in DOMAIN Profiles /\ calls = 0 /\ cmds = <<>> /\ limits.net = {})' => Applying'
    BY NothingToApply, PTL
  <2>. QED
    BY <2>1, <2>2
<1>11. CASE UNCHANGED runVars
  BY <1>2, <1>11 DEF runVars
<1>. QED
  BY <1>3, <1>4, <1>5, <1>6, <1>7, <1>8, <1>9, <1>10, <1>11 DEF RunMove, RunSteps, ChaosSteps

\* The chaos thread applies one snapshot at a time, also when the run ends while it works.
THEOREM OneSnapshotAtATime == SessionSpec => []SnapshotHolds
<1>1. SessionInit => Applying
  <2>1. AtRest => profile \in DOMAIN Profiles /\ calls = 0 /\ cmds = <<>> /\ limits.net = {}
    BY DEF AtRest, RunLimits, Profiles
  <2>. QED
    BY <2>1, SessionStartsAtRest, NothingToApply
<1>2. RunTypeOK /\ Ready /\ Applying /\ [SessionNext]_vars => Applying'
  BY SessionMovesRuns, MovesApply
<1>3. RunTypeOK /\ Applying => SnapshotHolds
  <2>. SUFFICES ASSUME RunTypeOK, Applying PROVE SnapshotHolds
    OBVIOUS
  <2>1. calls \in Nat /\ Len(cmds) \in Nat /\ Budget(P) \in Nat
    BY WithinBudget DEF RunTypeOK, RunnerTypes, ChaosTypes, P
  <2>2. calls <= Budget(P)
    BY <2>1 DEF Applying
  <2>. QED
    BY <2>2 DEF Applying, SnapshotHolds, OneSnapshotAfterStop, Budget
<1>. QED
  BY <1>1, <1>2, <1>3, RunTypes, PTL DEF SessionSpec

-----------------------------------------------------------------------------

\* The runner reads what the chaos thread flushed, if it did not give up on it.
Arrived ==
    /\ ~NeedsNetAdmin(P) => joined
    /\ joined /\ runner \in {"reading", "ended"} =>
           /\ chaos \in {"done", "dead"}
           /\ \A i \in 1 .. Len(result) : result[i] = dockerStats[Figures[i]]

\* The join runs out only for a thread with more than one command to issue.
LEMMA OnlyNetworkIsSlow ==
    ASSUME RunTypeOK, Ready, Applying, JoinTimesOut
    PROVE  NeedsNetAdmin(P)
<1>1. chaos = "call" /\ calls >= 1
  BY DEF JoinTimesOut
<1>2. cmds \in Seq(Command) /\ cmds # <<>>
  BY <1>1 DEF Ready, RunTypeOK, ChaosTypes
<1>3. PICK n \in Nat : n = Len(cmds) /\ n # 0
  BY <1>2
<1>4. PICK k \in Nat : k = calls /\ k >= 1
  BY <1>1 DEF RunTypeOK, ChaosTypes
<1>5. PICK b \in Nat : b = Budget(P) /\ (~NeedsNetAdmin(P) => b <= 1)
  BY WithinBudget DEF P, RunTypeOK, RunnerTypes
<1>6. k + n <= b
  BY <1>3, <1>4, <1>5 DEF Applying
<1>7. k >= 1 /\ n # 0 /\ k + n <= b => ~(b <= 1)
  OBVIOUS
<1>. QED
  BY <1>3, <1>4, <1>5, <1>6, <1>7

LEMMA MovesArrive == RunTypeOK /\ Ready /\ Applying /\ Arrived /\ RunMove => Arrived'
<1>. SUFFICES ASSUME RunTypeOK, Ready, Applying, Arrived, RunMove PROVE Arrived'
  OBVIOUS
<1>. USE DEF runnerVars, dockerVars, chaosVars, samplerVars
<1>1. ASSUME UNCHANGED <<profile, joined, chaos, dockerStats>>, runner' \notin {"reading", "ended"}
      PROVE  Arrived'
  BY <1>1 DEF Arrived, P
<1>2. CASE RunReturns \/ RunFails \/ RunTimesOut \/ KillReturns \/ KillHangs
  <2>1. UNCHANGED <<profile, joined, chaos, dockerStats>> /\ runner' \notin {"reading", "ended"}
    BY <1>2 DEF RunReturns, RunFails, RunTimesOut, KillReturns, KillHangs, Finish
  <2>. QED
    BY <1>1, <2>1
<1>3. CASE JoinReturns
  <2>1. chaos \in {"done", "dead"} /\ joined' /\ result' = <<>> /\ UNCHANGED <<profile, chaos, dockerStats>>
    BY <1>3 DEF JoinReturns, Joined, Ready
  <2>2. 1 .. Len(<<>>) = {}
    OBVIOUS
  <2>. QED
    BY <2>1, <2>2 DEF Arrived, P
<1>4. CASE JoinTimesOut
  <2>1. joined' = FALSE /\ profile' = profile
    BY <1>4 DEF JoinTimesOut, Joined
  <2>. QED
    BY <1>4, <2>1, OnlyNetworkIsSlow DEF Arrived, P
<1>5. CASE ReadFigure
  <2>1. /\ runner = "reading" /\ UNCHANGED <<profile, joined, chaos, dockerStats>>
        /\ result' = Append(result, dockerStats[Figures[Len(result) + 1]])
    BY <1>5 DEF ReadFigure
  <2>2. PICK n \in Nat : n = Len(result) /\ result \in Seq(Nat)
    BY DEF RunTypeOK, RunnerTypes
  <2>3. Len(result') = n + 1 /\ \A i \in 1 .. n + 1 : result'[i] = IF i = n + 1 THEN dockerStats[Figures[i]] ELSE result[i]
    BY <2>1, <2>2
  <2>4. \A i \in 1 .. n + 1 : i = n + 1 \/ i \in 1 .. n
    OBVIOUS
  <2>. QED
    BY <2>1, <2>2, <2>3, <2>4 DEF Arrived, P
<1>6. CASE DaemonSteps \/ SamplerSteps
  <2>1. UNCHANGED <<profile, joined, runner, result, chaos, dockerStats>>
    BY <1>6 DEF DaemonSteps, ContainerStarts, ContainerExits, SamplerSteps, Poll, PollFails, PollReturns, AddCpu,
                RaisePeak, AddMemory, AddPids, Samples
  <2>. QED
    BY <2>1 DEF Arrived, P
<1>7. CASE ChaosSteps
  <2>1. chaos \notin {"done", "dead"} /\ UNCHANGED <<profile, joined, runner>>
    BY <1>7 DEF ChaosSteps, AwaitNet, AwaitStep, CheckStop, DockerCall, DockerHangs, TakeSum, Divide, DeleteSamples,
                Flush, GoesOn
  <2>. QED
    BY <2>1 DEF Arrived, P
<1>8. CASE \E p \in DOMAIN Profiles : StartRun(p)
  BY <1>8 DEF StartRun, Arrived
<1>9. CASE Returned
  BY <1>9 DEF Returned, Arrived
<1>10. CASE UNCHANGED runVars
  BY <1>10 DEF runVars, Arrived, P
<1>. QED
  BY <1>2, <1>3, <1>4, <1>5, <1>6, <1>7, <1>8, <1>9, <1>10 DEF RunMove, RunSteps, RunnerSteps

-----------------------------------------------------------------------------

Seen == {samples[i].cpu : i \in DOMAIN samples} \cup {0}

\* A peak is a sample, wherever it is on its way to the result.
Peaks ==
    /\ stats.peak \in Seen /\ dockerStats.peak \in Seen
    /\ sampler \in {"cpu", "peak"} => sample.cpu \in Seen
    /\ Len(result) >= 2 => result[2] \in Seen

LEMMA SeenTypes == RunTypeOK => Seen \subseteq Nat
<1>. SUFFICES ASSUME RunTypeOK PROVE Seen \subseteq Nat
  OBVIOUS
<1>1. \A i \in DOMAIN samples : samples[i] \in Said
  BY ElementsOfASequence DEF RunTypeOK, SamplerTypes
<1>2. \A i \in DOMAIN samples : samples[i].cpu \in Nat
  BY <1>1 DEF Said
<1>. QED
  BY <1>2 DEF Seen

LEMMA PollShows ==
    ASSUME RunTypeOK, PollReturns
    PROVE  Seen' = Seen \cup {sample'.cpu} /\ sample'.cpu \in Nat
<1>1. PICK s \in Loads[profile] : sample' = s /\ samples' = Append(samples, s)
  BY DEF PollReturns
<1>2. s \in Said /\ samples \in Seq(Said)
  BY LoadsAssumption DEF RunTypeOK, RunnerTypes, SamplerTypes, Said
<1>3. PICK n \in Nat : n = Len(samples)
  BY <1>2
<1>4. /\ DOMAIN samples = 1 .. n /\ DOMAIN samples' = 1 .. n + 1
      /\ samples'[n + 1] = s /\ \A i \in 1 .. n : samples'[i] = samples[i]
  BY <1>1, <1>2, <1>3
<1>5. 1 .. n + 1 = (1 .. n) \cup {n + 1}
  OBVIOUS
<1>6. Seen' = Seen \cup {s.cpu}
  BY <1>4, <1>5 DEF Seen
<1>. QED
  BY <1>1, <1>2, <1>6 DEF Said

LEMMA MovesKeepPeaks == RunTypeOK /\ Ready /\ Peaks /\ RunMove => Peaks'
<1>. SUFFICES ASSUME RunTypeOK, Ready, Peaks, RunMove PROVE Peaks'
  OBVIOUS
<1>. USE DEF runnerVars, dockerVars, chaosVars, samplerVars
<1>1. ASSUME UNCHANGED <<sampler, sample, samples, result>>, stats'.peak = stats.peak,
             dockerStats'.peak \in {dockerStats.peak, stats.peak}
      PROVE  Peaks'
  BY <1>1 DEF Peaks, Seen
<1>2. CASE RunReturns \/ RunFails \/ RunTimesOut \/ KillReturns \/ KillHangs \/ JoinReturns \/ JoinTimesOut
  <2>1. UNCHANGED <<sampler, sample, samples, result, stats, dockerStats>>
    BY <1>2 DEF RunReturns, RunFails, RunTimesOut, KillReturns, KillHangs, Finish, JoinReturns, JoinTimesOut, Joined
  <2>. QED
    BY <1>1, <2>1
<1>3. CASE ReadFigure
  <2>1. /\ UNCHANGED <<sampler, sample, samples, stats, dockerStats>>
        /\ result' = Append(result, dockerStats[Figures[Len(result) + 1]])
    BY <1>3 DEF ReadFigure
  <2>2. PICK n \in Nat : n = Len(result) /\ result \in Seq(Nat)
    BY DEF RunTypeOK, RunnerTypes
  <2>3. Len(result') = n + 1 /\ \A i \in 1 .. n + 1 : result'[i] = IF i = n + 1 THEN dockerStats[Figures[i]] ELSE result[i]
    BY <2>1, <2>2
  <2>4. n + 1 >= 2 => 2 \in 1 .. n + 1 /\ (2 # n + 1 => n >= 2)
    OBVIOUS
  <2>5. Figures[2] = "peak"
    BY DEF Figures
  <2>6. Len(result') >= 2 => result'[2] \in Seen
    BY <2>2, <2>3, <2>4, <2>5 DEF Peaks
  <2>. QED
    BY <2>1, <2>6 DEF Peaks, Seen
<1>4. CASE DaemonSteps
  <2>1. UNCHANGED <<sampler, sample, samples, result, stats, dockerStats>>
    BY <1>4 DEF DaemonSteps, ContainerStarts, ContainerExits
  <2>. QED
    BY <1>1, <2>1
<1>5. CASE ChaosSteps
  <2>1. UNCHANGED <<sampler, sample, samples, result>>
    BY <1>5 DEF ChaosSteps, AwaitNet, AwaitStep, CheckStop, DockerCall, DockerHangs, TakeSum, Divide, DeleteSamples,
                Flush, GoesOn
  <2>2. stats'.peak = stats.peak /\ dockerStats'.peak \in {dockerStats.peak, stats.peak}
    <3>1. stats \in Tally
      BY DEF RunTypeOK
    <3>2. CASE AwaitNet \/ AwaitStep \/ CheckStop \/ DockerCall \/ DockerHangs
      BY <3>2 DEF AwaitNet, AwaitStep, CheckStop, DockerCall, DockerHangs
    <3>3. CASE TakeSum \/ Divide \/ DeleteSamples
      BY <3>1, <3>3 DEF TakeSum, Divide, DeleteSamples, Tally
    <3>4. CASE Flush
      BY <3>4 DEF Flush
    <3>. QED
      BY <1>5, <3>2, <3>3, <3>4 DEF ChaosSteps
  <2>. QED
    BY <1>1, <2>1, <2>2
<1>6. CASE PollReturns
  <2>1. Seen' = Seen \cup {sample'.cpu}
    BY <1>6, PollShows
  <2>2. UNCHANGED <<stats, dockerStats, result>>
    BY <1>6 DEF PollReturns, Samples
  <2>. QED
    BY <2>1, <2>2 DEF Peaks
<1>7. CASE Poll \/ PollFails \/ AddCpu \/ RaisePeak \/ AddMemory \/ AddPids
  <2>1. UNCHANGED <<dockerStats, result, sample, samples>> /\ (sampler' \in {"cpu", "peak"} => sampler = "cpu")
    BY <1>7 DEF Poll, PollFails, AddCpu, RaisePeak, AddMemory, AddPids, Samples
  <2>2. stats'.peak \in Seen
    <3>1. stats \in Tally /\ stats.peak \in Nat /\ sample.cpu \in Nat
      BY DEF RunTypeOK, SamplerTypes, Tally, Said
    <3>2. CASE RaisePeak
      <4>1. stats'.peak = Larger(stats.peak, sample.cpu) /\ sampler = "peak"
        BY <3>1, <3>2 DEF RaisePeak, Tally
      <4>2. stats'.peak \in {stats.peak, sample.cpu}
        BY <3>1, <4>1, LargerOfTwo
      <4>. QED
        BY <4>1, <4>2 DEF Peaks
    <3>3. CASE ~RaisePeak
      <4>1. stats'.peak = stats.peak
        BY <1>7, <3>1, <3>3 DEF Poll, PollFails, AddCpu, AddMemory, AddPids, Tally
      <4>. QED
        BY <4>1 DEF Peaks
    <3>. QED
      BY <3>2, <3>3
  <2>3. Seen' = Seen
    BY <2>1 DEF Seen
  <2>. QED
    BY <2>1, <2>2, <2>3 DEF Peaks
<1>8. ASSUME stats'.peak = 0, dockerStats'.peak = 0, result' = <<>>, sampler' \in {"off", "idle"}
      PROVE  Peaks'
  <2>1. 0 \in Seen'
    BY DEF Seen
  <2>2. ~(Len(<<>>) >= 2)
    OBVIOUS
  <2>. QED
    BY <1>8, <2>1, <2>2 DEF Peaks
<1>9. CASE (\E p \in DOMAIN Profiles : StartRun(p)) \/ Returned
  BY <1>8, <1>9 DEF StartRun, Returned, NoStats, Empty
<1>10. CASE UNCHANGED runVars
  BY <1>1, <1>10 DEF runVars
<1>. QED
  BY <1>2, <1>3, <1>4, <1>5, <1>6, <1>7, <1>9, <1>10 DEF RunMove, RunSteps, RunnerSteps, SamplerSteps

-----------------------------------------------------------------------------

\* Arithmetic of averages.
LEMMA OneMore == \A s, m, n, c \in Nat : s <= m * n /\ c <= m => s + c <= m * (n + 1)
<1>1. \A m, n \in Nat : m * (n + 1) = m * n + m /\ m * n \in Nat
  OBVIOUS
<1>. QED
  BY <1>1

LEMMA BiggerBound == \A m, n, k, l \in Nat : m <= k /\ n <= l => m * n <= k * l
OBVIOUS

LEMMA BoundOfQuotient == \A a, m, b \in Nat : b > 0 /\ a <= m * b => a \div b <= m
OBVIOUS

\* No average on its way to the result is above m.
Tops(m) ==
    /\ stats.sum <= m * stats.len
    /\ chaos = "divide" => stats.avg <= m * stats.len
    /\ chaos \in {"delete", "flush", "done"} => stats.avg <= m
    /\ dockerStats.avg <= m
    /\ Len(result) >= 3 => result[3] <= m

\* The largest sample bounds the averages.
Averaged == \E m \in Seen : (\A x \in Seen : x <= m) /\ Tops(m)

LEMMA ChaosAverages ==
    ASSUME RunTypeOK, Ready, ChaosSteps, NEW m \in Nat, Tops(m)
    PROVE  Tops(m)'
<1>. DEFINE s == stats.sum  n == stats.len  a == stats.avg
<1>1. stats \in Tally /\ s \in Nat /\ n \in Nat /\ a \in Nat
  BY DEF RunTypeOK, Tally
<1>2. UNCHANGED result
  BY DEF ChaosSteps, AwaitNet, AwaitStep, CheckStop, DockerCall, DockerHangs, TakeSum, Divide, DeleteSamples,
         Flush, GoesOn, runnerVars
<1>3. CASE AwaitNet \/ AwaitStep \/ CheckStop \/ DockerCall \/ DockerHangs
  <2>1. chaos' \in {"await_step", "call", "check", "await_stop", "dead"} /\ UNCHANGED <<stats, dockerStats>>
    BY <1>3 DEF AwaitNet, AwaitStep, CheckStop, DockerCall, DockerHangs
  <2>. QED
    BY <1>2, <2>1 DEF Tops
<1>4. CASE TakeSum
  <2>1. /\ stats'.sum = s /\ stats'.len = n /\ stats'.avg = s /\ UNCHANGED dockerStats
        /\ chaos' = IF n = 0 THEN "delete" ELSE "divide"
    BY <1>1, <1>4 DEF TakeSum, Tally
  <2>2. s <= m * n
    BY DEF Tops
  <2>3. n = 0 => s <= m
    <3>1. n = 0 => m * n = 0
      BY <1>1
    <3>. QED
      BY <1>1, <2>2, <3>1
  <2>. QED
    BY <1>2, <2>1, <2>2, <2>3 DEF Tops
<1>5. CASE Divide
  <2>1. /\ stats'.sum = s /\ stats'.len = n /\ stats'.avg = a \div n /\ UNCHANGED dockerStats
        /\ chaos = "divide" /\ chaos' = "delete"
    BY <1>1, <1>5 DEF Divide, Tally
  <2>2. n > 0 /\ a <= m * n
    BY <2>1 DEF Ready, Tops
  <2>3. a \div n <= m
    BY <1>1, <2>2, BoundOfQuotient
  <2>. QED
    BY <1>2, <2>1, <2>3 DEF Tops
<1>6. CASE DeleteSamples
  <2>1. /\ stats'.sum = s /\ stats'.len = n /\ stats'.avg = a /\ UNCHANGED dockerStats
        /\ chaos = "delete" /\ chaos' = "flush"
    BY <1>1, <1>6 DEF DeleteSamples, Tally
  <2>. QED
    BY <1>2, <2>1 DEF Tops
<1>7. CASE Flush
  <2>1. /\ UNCHANGED stats /\ dockerStats'.avg = a /\ chaos = "flush" /\ chaos' = "done"
    BY <1>7 DEF Flush
  <2>. QED
    BY <1>2, <2>1 DEF Tops
<1>. QED
  BY <1>3, <1>4, <1>5, <1>6, <1>7 DEF ChaosSteps

\* A sample that counts is at most m.
LEMMA SamplerAverages ==
    ASSUME RunTypeOK, Poll \/ PollFails \/ AddCpu \/ RaisePeak \/ AddMemory \/ AddPids,
           NEW m \in Nat, Tops(m), sampler = "cpu" => sample.cpu <= m
    PROVE  Tops(m)'
<1>. DEFINE s == stats.sum  n == stats.len  a == stats.avg
<1>1. stats \in Tally /\ s \in Nat /\ n \in Nat /\ a \in Nat /\ sample.cpu \in Nat
  BY DEF RunTypeOK, SamplerTypes, Tally, Said
<1>2. UNCHANGED <<result, chaos, dockerStats>>
  BY DEF Poll, PollFails, AddCpu, RaisePeak, AddMemory, AddPids, Samples, runnerVars, chaosVars
<1>3. CASE stats'.sum = s /\ stats'.len = n /\ stats'.avg = a
  BY <1>2, <1>3 DEF Tops
<1>4. CASE AddCpu
  <2>1. \/ UNCHANGED stats
        \/ stats'.sum = s + sample.cpu /\ stats'.len = n + 1 /\ stats'.avg = a
    BY <1>1, <1>4 DEF AddCpu, Tally
  <2>2. sample.cpu <= m /\ s <= m * n
    BY <1>4 DEF AddCpu, Tops
  <2>3. s + sample.cpu <= m * (n + 1)
    BY <1>1, <2>2, OneMore
  <2>4. \A x \in Nat : x <= m * n => x <= m * (n + 1)
    <3>1. m * n <= m * (n + 1) /\ m * n \in Nat /\ m * (n + 1) \in Nat
      BY <1>1, BiggerBound
    <3>. QED
      BY <3>1
  <2>5. CASE stats'.sum = s + sample.cpu /\ stats'.len = n + 1 /\ stats'.avg = a
    BY <1>1, <1>2, <2>3, <2>4, <2>5 DEF Tops
  <2>. QED
    BY <1>3, <2>1, <2>5
<1>5. CASE Poll \/ PollFails \/ RaisePeak \/ AddMemory \/ AddPids
  <2>1. stats'.sum = s /\ stats'.len = n /\ stats'.avg = a
    BY <1>1, <1>5 DEF Poll, PollFails, RaisePeak, AddMemory, AddPids, Tally
  <2>. QED
    BY <1>3, <2>1
<1>. QED
  BY <1>4, <1>5

\* What is bounded is bounded by more.
LEMMA HigherTops ==
    ASSUME RunTypeOK, NEW m \in Nat, NEW k \in Nat, m <= k, Tops(m)
    PROVE  Tops(k)
<1>1. /\ stats.sum \in Nat /\ stats.len \in Nat /\ stats.avg \in Nat /\ dockerStats.avg \in Nat
      /\ Len(result) >= 3 => result[3] \in Nat
  <2>1. result \in Seq(Nat)
    BY DEF RunTypeOK, RunnerTypes
  <2>2. PICK n \in Nat : n = Len(result)
    BY <2>1
  <2>3. n >= 3 => 3 \in 1 .. n
    OBVIOUS
  <2>4. Len(result) >= 3 => result[3] \in Nat
    BY <2>1, <2>2, <2>3
  <2>. QED
    BY <2>4 DEF RunTypeOK, ChaosTypes, Tally, Kept
<1>2. \A n, x \in Nat : x <= m * n => x <= k * n
  <2>1. \A n \in Nat : m * n \in Nat /\ k * n \in Nat /\ m * n <= k * n
    BY BiggerBound
  <2>. QED
    BY <2>1
<1>3. \A x \in Nat : x <= m * stats.len => x <= k * stats.len
  BY <1>1, <1>2
<1>4. \A x \in Nat : x <= m => x <= k
  OBVIOUS
<1>. QED
  BY <1>1, <1>3, <1>4 DEF Tops

LEMMA MovesAverage == RunTypeOK /\ Ready /\ Peaks /\ Averaged /\ RunMove => Averaged'
<1>. SUFFICES ASSUME RunTypeOK, Ready, Peaks, Averaged, RunMove PROVE Averaged'
  OBVIOUS
<1>. USE DEF runnerVars, dockerVars, chaosVars, samplerVars
<1>1. PICK m \in Seen : (\A x \in Seen : x <= m) /\ Tops(m)
  BY DEF Averaged
<1>2. Seen \subseteq Nat
  BY SeenTypes
<1>3. ASSUME UNCHANGED samples, Tops(m)' PROVE Averaged'
  BY <1>1, <1>3 DEF Averaged, Seen
<1>4. CASE RunReturns \/ RunFails \/ RunTimesOut \/ KillReturns \/ KillHangs \/ JoinReturns \/ JoinTimesOut \/ DaemonSteps
  <2>1. UNCHANGED <<samples, chaos, result, stats, dockerStats>>
    BY <1>4 DEF RunReturns, RunFails, RunTimesOut, KillReturns, KillHangs, Finish, JoinReturns, JoinTimesOut, Joined,
                DaemonSteps, ContainerStarts, ContainerExits
  <2>. QED
    BY <1>1, <1>3, <2>1 DEF Tops
<1>5. CASE ReadFigure
  <2>1. /\ UNCHANGED <<chaos, samples, stats, dockerStats>>
        /\ result' = Append(result, dockerStats[Figures[Len(result) + 1]])
    BY <1>5 DEF ReadFigure
  <2>2. PICK n \in Nat : n = Len(result) /\ result \in Seq(Nat)
    BY DEF RunTypeOK, RunnerTypes
  <2>3. Len(result') = n + 1 /\ \A i \in 1 .. n + 1 : result'[i] = IF i = n + 1 THEN dockerStats[Figures[i]] ELSE result[i]
    BY <2>1, <2>2
  <2>4. n + 1 >= 3 => 3 \in 1 .. n + 1 /\ (3 # n + 1 => n >= 3)
    OBVIOUS
  <2>5. Figures[3] = "avg"
    BY DEF Figures
  <2>6. Len(result') >= 3 => result'[3] <= m
    BY <1>1, <2>2, <2>3, <2>4, <2>5 DEF Tops
  <2>. QED
    BY <1>1, <1>3, <2>1, <2>6 DEF Tops
<1>6. CASE ChaosSteps
  <2>1. UNCHANGED samples
    BY <1>6 DEF ChaosSteps, AwaitNet, AwaitStep, CheckStop, DockerCall, DockerHangs, TakeSum, Divide, DeleteSamples,
                Flush, GoesOn
  <2>. QED
    BY <1>1, <1>2, <1>3, <1>6, <2>1, ChaosAverages
<1>7. CASE PollReturns
  <2>1. Seen' = Seen \cup {sample'.cpu} /\ sample'.cpu \in Nat
    BY <1>7, PollShows
  <2>2. UNCHANGED <<chaos, result, stats, dockerStats>>
    BY <1>7 DEF PollReturns, Samples
  <2>3. PICK k \in Seen' : k \in Nat /\ m <= k /\ \A x \in Seen' : x <= k
    <3>1. CASE sample'.cpu <= m
      BY <1>1, <1>2, <2>1, <3>1
    <3>2. CASE ~(sample'.cpu <= m)
      <4>1. \A x \in Seen : x <= sample'.cpu
        BY <1>1, <1>2, <2>1, <3>2
      <4>. QED
        BY <1>1, <1>2, <2>1, <4>1
    <3>. QED
      BY <3>1, <3>2
  <2>4. Tops(k)
    BY <1>1, <1>2, <2>3, HigherTops
  <2>. QED
    BY <2>2, <2>3, <2>4 DEF Averaged, Tops
<1>8. CASE Poll \/ PollFails \/ AddCpu \/ RaisePeak \/ AddMemory \/ AddPids
  <2>1. UNCHANGED samples
    BY <1>8 DEF Poll, PollFails, AddCpu, RaisePeak, AddMemory, AddPids
  <2>2. sampler = "cpu" => sample.cpu <= m
    BY <1>1 DEF Peaks
  <2>. QED
    BY <1>1, <1>2, <1>3, <1>8, <2>1, <2>2, SamplerAverages
<1>9. CASE (\E p \in DOMAIN Profiles : StartRun(p)) \/ Returned
  <2>1. /\ samples' = <<>> /\ result' = <<>> /\ stats' = NoStats /\ dockerStats' = Empty
        /\ chaos' \notin {"divide", "delete", "flush", "done"}
    BY <1>9 DEF StartRun, Returned
  <2>2. Seen' = {0}
    BY <2>1 DEF Seen
  <2>3. Tops(0)'
    BY <2>1 DEF Tops, NoStats, Empty
  <2>. QED
    BY <2>2, <2>3 DEF Averaged
<1>10. CASE UNCHANGED runVars
  BY <1>1, <1>3, <1>10 DEF runVars, Tops
<1>. QED
  BY <1>4, <1>5, <1>6, <1>7, <1>8, <1>9, <1>10 DEF RunMove, RunSteps, RunnerSteps, SamplerSteps

-----------------------------------------------------------------------------

\* The peak bounds the samples summed up, but for one whose peak is still to come.
Weighed ==
    /\ sampler = "peak" => stats.len > 0 /\ stats.sum <= stats.peak * (stats.len - 1) + sample.cpu
    /\ sampler # "peak" => stats.sum <= stats.peak * stats.len

\* An average that was not cut out of a recording is at most the peak.
Fair ==
    /\ ~cut /\ chaos = "divide" => stats.avg <= stats.peak * stats.len
    /\ ~cut /\ chaos \in {"delete", "flush", "done"} => stats.avg <= stats.peak
    /\ dockerStats.avg <= dockerStats.peak \/ (cut /\ chaos = "done")

LEMMA SamplerWeighs ==
    ASSUME RunTypeOK, Weighed, Fair, SamplerSteps
    PROVE  Weighed' /\ Fair'
<1>. DEFINE s == stats.sum  n == stats.len  a == stats.avg  p == stats.peak
<1>1. /\ stats \in Tally /\ s \in Nat /\ n \in Nat /\ a \in Nat /\ p \in Nat
      /\ sample \in Said /\ sample.cpu \in Nat
  BY DEF RunTypeOK, SamplerTypes, Tally, Said
<1>2. UNCHANGED <<cut, chaos, dockerStats>>
  BY DEF SamplerSteps, Poll, PollFails, PollReturns, AddCpu, RaisePeak, AddMemory, AddPids, Samples, chaosVars
<1>3. ASSUME stats'.avg = a, p <= stats'.peak, n <= stats'.len, stats'.peak \in Nat, stats'.len \in Nat
      PROVE  Fair'
  <2>1. \A x, y, z, u, v \in Nat : x <= y * z /\ y <= u /\ z <= v => x <= u * v
    <3>1. \A y, z, u, v \in Nat : y * z \in Nat /\ u * v \in Nat /\ (y <= u /\ z <= v => y * z <= u * v)
      BY BiggerBound
    <3>. QED
      BY <3>1
  <2>2. a <= p * n => a <= stats'.peak * stats'.len
    BY <1>1, <1>3, <2>1
  <2>3. a <= p => a <= stats'.peak
    BY <1>1, <1>3
  <2>. QED
    BY <1>2, <1>3, <2>2, <2>3 DEF Fair
<1>4. CASE AddCpu
  <2>1. sampler = "cpu" /\ s <= p * n
    BY <1>4 DEF AddCpu, Weighed
  <2>2. CASE stats.deleted
    <3>1. sampler' = "idle" /\ UNCHANGED stats
      BY <1>4, <2>2 DEF AddCpu
    <3>. QED
      BY <1>1, <1>3, <2>1, <3>1 DEF Weighed
  <2>3. CASE ~stats.deleted
    <3>1. /\ sampler' = "peak" /\ UNCHANGED sample
          /\ stats'.sum = s + sample.cpu /\ stats'.len = n + 1 /\ stats'.avg = a /\ stats'.peak = p
      BY <1>1, <1>4, <2>3 DEF AddCpu, Tally
    <3>2. n + 1 > 0 /\ (n + 1) - 1 = n /\ n <= n + 1 /\ n + 1 \in Nat /\ p <= p
      BY <1>1
    <3>3. \A x, y, c \in Nat : x <= y => x + c <= y + c
      OBVIOUS
    <3>4. \A y, z \in Nat : y * z \in Nat
      OBVIOUS
    <3>5. s + sample.cpu <= p * n + sample.cpu
      BY <1>1, <2>1, <3>3, <3>4
    <3>6. Fair'
      BY <1>1, <1>3, <3>1, <3>2
    <3>. QED
      BY <3>1, <3>2, <3>5, <3>6 DEF Weighed
  <2>. QED
    BY <2>2, <2>3
<1>5. CASE RaisePeak
  <2>1. /\ sampler = "peak" /\ sampler' = "mem" /\ UNCHANGED sample
        /\ stats'.sum = s /\ stats'.len = n /\ stats'.avg = a /\ stats'.peak = Larger(p, sample.cpu)
    BY <1>1, <1>5 DEF RaisePeak, Tally
  <2>2. PICK q \in Nat : q = Larger(p, sample.cpu) /\ p <= q /\ sample.cpu <= q
    BY <1>1, LargerOfTwo
  <2>3. s <= q * n
    <3>1. n > 0 /\ s <= p * (n - 1) + sample.cpu
      BY <2>1 DEF Weighed
    <3>2. \A x, y, z, c, d \in Nat : z > 0 /\ x <= y * (z - 1) + c /\ y <= d /\ c <= d => x <= d * z
      <4>1. \A y, z, d \in Nat : z > 0 /\ y <= d => y * (z - 1) <= d * (z - 1) /\ y * (z - 1) \in Nat /\ d * (z - 1) \in Nat
        <5>1. \A z \in Nat : z > 0 => z - 1 \in Nat /\ z - 1 <= z - 1
          OBVIOUS
        <5>2. \A x, y \in Nat : x * y \in Nat
          OBVIOUS
        <5>. QED
          BY <5>1, <5>2, BiggerBound
      <4>2. \A z, d \in Nat : z > 0 => d * (z - 1) + d = d * z
        OBVIOUS
      <4>3. \A x, c, d, u, v \in Nat : x <= u + c /\ u <= v /\ c <= d => x <= v + d
        OBVIOUS
      <4>. QED
        BY <4>1, <4>2, <4>3
    <3>. QED
      BY <1>1, <2>2, <3>1, <3>2
  <2>4. Weighed'
    BY <2>1, <2>2, <2>3 DEF Weighed
  <2>5. n <= n
    BY <1>1
  <2>. QED
    BY <1>1, <1>3, <2>1, <2>2, <2>4, <2>5
<1>6. CASE Poll \/ PollFails \/ PollReturns \/ AddMemory \/ AddPids
  <2>1. /\ sampler # "peak" /\ sampler' # "peak"
        /\ stats'.sum = s /\ stats'.len = n /\ stats'.avg = a /\ stats'.peak = p
    BY <1>1, <1>6 DEF Poll, PollFails, PollReturns, AddMemory, AddPids, Tally
  <2>2. n <= n /\ p <= p
    BY <1>1
  <2>. QED
    BY <1>1, <1>3, <2>1, <2>2 DEF Weighed
<1>. QED
  BY <1>4, <1>5, <1>6 DEF SamplerSteps

LEMMA ChaosWeighs ==
    ASSUME RunTypeOK, Ready, Weighed, Fair, ChaosSteps
    PROVE  Weighed' /\ Fair'
<1>. DEFINE s == stats.sum  n == stats.len  a == stats.avg  p == stats.peak
<1>1. stats \in Tally /\ s \in Nat /\ n \in Nat /\ a \in Nat /\ p \in Nat
  BY DEF RunTypeOK, Tally
<1>2. UNCHANGED <<sampler, sample>> /\ stats'.sum = s /\ stats'.len = n /\ stats'.peak = p
  <2>1. CASE AwaitNet \/ AwaitStep \/ CheckStop \/ DockerCall \/ DockerHangs \/ Flush
    BY <2>1 DEF AwaitNet, AwaitStep, CheckStop, DockerCall, DockerHangs, Flush, GoesOn, samplerVars
  <2>2. CASE TakeSum \/ Divide \/ DeleteSamples
    BY <1>1, <2>2 DEF TakeSum, Divide, DeleteSamples, GoesOn, samplerVars, Tally
  <2>. QED
    BY <2>1, <2>2 DEF ChaosSteps
<1>3. Weighed'
  BY <1>2 DEF Weighed
<1>4. CASE AwaitNet \/ AwaitStep \/ CheckStop \/ DockerCall \/ DockerHangs
  <2>1. chaos \notin {"done"} /\ chaos' \in {"await_step", "call", "check", "await_stop", "dead"} /\ UNCHANGED dockerStats
    BY <1>4 DEF AwaitNet, AwaitStep, CheckStop, DockerCall, DockerHangs
  <2>. QED
    BY <1>3, <2>1 DEF Fair
<1>5. CASE TakeSum
  <2>1. /\ stats'.avg = s /\ UNCHANGED dockerStats /\ cut' = (sampler = "peak")
        /\ chaos = "await_stop" /\ chaos' = IF n = 0 THEN "delete" ELSE "divide"
    BY <1>1, <1>5 DEF TakeSum, Tally
  <2>2. dockerStats'.avg <= dockerStats'.peak
    BY <2>1 DEF Fair
  <2>3. CASE sampler = "peak"
    BY <1>3, <2>1, <2>2, <2>3 DEF Fair
  <2>4. CASE sampler # "peak"
    <3>1. s <= p * n
      BY <2>4 DEF Weighed
    <3>2. n = 0 => s <= p
      <4>1. n = 0 => p * n = 0
        BY <1>1
      <4>. QED
        BY <1>1, <3>1, <4>1
    <3>. QED
      BY <1>2, <1>3, <2>1, <2>2, <3>1, <3>2 DEF Fair
  <2>. QED
    BY <2>3, <2>4
<1>6. CASE Divide
  <2>1. /\ stats'.avg = a \div n /\ UNCHANGED <<dockerStats, cut>> /\ chaos = "divide" /\ chaos' = "delete"
    BY <1>1, <1>6 DEF Divide, Tally
  <2>2. dockerStats'.avg <= dockerStats'.peak
    BY <2>1 DEF Fair
  <2>3. ~cut => a \div n <= p
    BY <1>1, <2>1, BoundOfQuotient DEF Ready, Fair
  <2>. QED
    BY <1>2, <1>3, <2>1, <2>2, <2>3 DEF Fair
<1>7. CASE DeleteSamples
  <2>1. /\ stats'.avg = a /\ UNCHANGED <<dockerStats, cut>> /\ chaos = "delete" /\ chaos' = "flush"
    BY <1>1, <1>7 DEF DeleteSamples, Tally
  <2>. QED
    BY <1>2, <1>3, <2>1 DEF Fair
<1>8. CASE Flush
  <2>1. /\ UNCHANGED <<stats, cut>> /\ chaos = "flush" /\ chaos' = "done"
        /\ dockerStats'.avg = a /\ dockerStats'.peak = p
    BY <1>8 DEF Flush
  <2>. QED
    BY <1>3, <2>1 DEF Fair
<1>. QED
  BY <1>4, <1>5, <1>6, <1>7, <1>8 DEF ChaosSteps

LEMMA MovesWeigh == RunTypeOK /\ Ready /\ Weighed /\ Fair /\ RunMove => Weighed' /\ Fair'
<1>. SUFFICES ASSUME RunTypeOK, Ready, Weighed, Fair, RunMove PROVE Weighed' /\ Fair'
  OBVIOUS
<1>. USE DEF runnerVars, dockerVars, chaosVars, samplerVars
<1>1. ASSUME UNCHANGED <<sampler, sample, stats, cut, chaos, dockerStats>> PROVE Weighed' /\ Fair'
  BY <1>1 DEF Weighed, Fair
<1>2. CASE RunnerSteps \/ DaemonSteps \/ UNCHANGED runVars
  <2>1. UNCHANGED <<sampler, sample, stats, cut, chaos, dockerStats>>
    BY <1>2 DEF RunnerSteps, RunReturns, RunFails, RunTimesOut, KillReturns, KillHangs, Finish, JoinReturns,
                JoinTimesOut, Joined, ReadFigure, DaemonSteps, ContainerStarts, ContainerExits, runVars
  <2>. QED
    BY <1>1, <2>1
<1>3. CASE (\E p \in DOMAIN Profiles : StartRun(p)) \/ Returned
  <2>1. /\ sampler' # "peak" /\ chaos' \notin {"divide", "delete", "flush", "done"}
        /\ stats'.sum = 0 /\ stats'.len = 0 /\ stats'.peak = 0 /\ dockerStats'.avg = 0 /\ dockerStats'.peak = 0
    BY <1>3 DEF StartRun, Returned, NoStats, Empty
  <2>. QED
    BY <2>1 DEF Weighed, Fair
<1>. QED
  BY <1>2, <1>3, ChaosWeighs, SamplerWeighs DEF RunMove, RunSteps

-----------------------------------------------------------------------------

\* What a run has in store for its result.
Counted == Arrived /\ Peaks /\ Averaged /\ Weighed /\ Fair

LEMMA ResultIsCounted == RunTypeOK /\ Ready /\ Counted => FiguresAreReal
<1>. SUFFICES ASSUME RunTypeOK, Ready, Counted PROVE FiguresAreReal
  OBVIOUS
<1>1. StatsArrive
  <2>. SUFFICES ASSUME runner = "ended", chaos # "dead", ~NeedsNetAdmin(P)
                PROVE  chaos = "done" /\ \A i \in DOMAIN Figures : result[i] = dockerStats[Figures[i]]
    BY DEF StatsArrive
  <2>1. Len(result) = 4 /\ DOMAIN Figures = 1 .. 4
    BY DEF Ready, Figures
  <2>. QED
    BY <2>1 DEF Counted, Arrived
<1>2. ASSUME runner = "ended"
      PROVE  result[2] \in Seen /\ result[3] <= Max(Seen) /\ (result[3] > result[2] => cut \/ ~joined)
  <2>1. Len(result) = 4 /\ result \in Seq(Nat)
    BY <1>2 DEF Ready, RunTypeOK, RunnerTypes
  <2>2. result[2] \in Seen
    BY <2>1 DEF Counted, Peaks
  <2>3. PICK m \in Seen : (\A x \in Seen : x <= m) /\ result[3] <= m
    BY <2>1 DEF Counted, Averaged, Tops
  <2>4. Max(Seen) = m
    <3>1. Seen \subseteq Nat
      BY SeenTypes
    <3>2. \A x \in Seen : m >= x
      BY <2>3, <3>1
    <3>3. PICK t \in Seen : t = Max(Seen) /\ \A x \in Seen : t >= x
      BY <3>2 DEF Max
    <3>4. t >= m /\ m >= t /\ t \in Nat /\ m \in Nat
      BY <3>1, <3>2, <3>3
    <3>5. t = m
      BY <3>4
    <3>. QED
      BY <3>3, <3>5
  <2>5. ASSUME ~cut, joined PROVE ~(result[3] > result[2])
    <3>1. result[2] = dockerStats[Figures[2]] /\ result[3] = dockerStats[Figures[3]]
      BY <1>2, <2>1, <2>5 DEF Counted, Arrived
    <3>2. result[2] = dockerStats.peak /\ result[3] = dockerStats.avg
      BY <3>1 DEF Figures
    <3>3. dockerStats.avg <= dockerStats.peak /\ dockerStats.avg \in Nat /\ dockerStats.peak \in Nat
      BY <2>5 DEF Counted, Fair, RunTypeOK, ChaosTypes, Kept
    <3>. QED
      BY <3>2, <3>3
  <2>6. joined \in BOOLEAN /\ cut \in BOOLEAN
    BY DEF RunTypeOK, Flags
  <2>. QED
    BY <2>2, <2>3, <2>4, <2>5, <2>6
<1>3. FiguresAreSampled
  BY <1>2 DEF FiguresAreSampled, Seen
<1>. QED
  BY <1>1, <1>3 DEF FiguresAreReal

\* The figures of a result are those of samples of its run, and arrive when nothing is slow.
THEOREM ResultsAreCounted == SessionSpec => []FiguresAreReal
<1>1. SessionInit => Applying /\ Counted
  <2>1. AtRest => profile \in DOMAIN Profiles /\ calls = 0 /\ cmds = <<>> /\ limits.net = {}
    BY DEF AtRest, RunLimits, Profiles
  <2>2. AtRest => Counted
    <3>. SUFFICES ASSUME AtRest PROVE Counted
      OBVIOUS
    <3>1. Seen = {0} /\ Len(result) = 0
      BY DEF Seen, AtRest
    <3>2. Arrived /\ Peaks
      BY <3>1 DEF AtRest, Arrived, Peaks, NoStats, Empty
    <3>3. Tops(0)
      BY <3>1 DEF AtRest, Tops, NoStats, Empty
    <3>4. Averaged
      BY <3>1, <3>3 DEF Averaged
    <3>5. Weighed /\ Fair
      BY DEF AtRest, Weighed, Fair, NoStats, Empty
    <3>. QED
      BY <3>2, <3>4, <3>5 DEF Counted
  <2>. QED
    BY <2>1, <2>2, SessionStartsAtRest, NothingToApply
<1>2. RunTypeOK /\ Ready /\ Applying /\ [SessionNext]_vars => Applying'
  BY SessionMovesRuns, MovesApply
<1>3. RunTypeOK /\ Ready /\ Applying /\ Counted /\ [SessionNext]_vars => Counted'
  BY SessionMovesRuns, MovesArrive, MovesKeepPeaks, MovesAverage, MovesWeigh DEF Counted
<1>. QED
  BY <1>1, <1>2, <1>3, ResultIsCounted, RunTypes, PTL DEF SessionSpec

-----------------------------------------------------------------------------

\* Ways a run ends: the program's exit codes, docker's own, and those of the runner.
Ways == (0 .. 255) \cup {-1, -2}

\* What is known of how the run ended.
Judged ==
    /\ outcome.rc \in Ways /\ (outcome.timed <=> outcome.rc = -1)
    /\ runner = "running" => outcome.rc \in 0 .. 255

LEMMA MovesJudge == RunTypeOK /\ Judged /\ RunMove => Judged'
<1>. SUFFICES ASSUME RunTypeOK, Judged, RunMove PROVE Judged'
  OBVIOUS
<1>. USE DEF runnerVars, dockerVars, chaosVars, samplerVars, Ways
<1>1. CASE RunReturns \/ RunFails
  BY <1>1 DEF RunReturns, RunFails, Finish, Judged
<1>2. CASE RunTimesOut
  BY <1>2 DEF RunTimesOut, Judged
<1>3. CASE KillReturns \/ KillHangs
  BY <1>3 DEF KillReturns, KillHangs, Finish, Judged
<1>4. CASE JoinReturns \/ JoinTimesOut
  BY <1>4 DEF JoinReturns, JoinTimesOut, Joined, Judged
<1>5. CASE ReadFigure
  <2>1. runner' \in {"ended", "reading"} /\ UNCHANGED outcome
    BY <1>5 DEF ReadFigure
  <2>. QED
    BY <2>1 DEF Judged
<1>6. CASE ContainerStarts
  BY <1>6 DEF ContainerStarts, Judged
<1>7. CASE ContainerExits
  <2>1. /\ UNCHANGED runner
        /\ \E exit \in 0 .. 255 : outcome' = IF runner = "running" THEN [outcome EXCEPT !.rc = exit] ELSE outcome
    BY <1>7, ExitCodesAssumption DEF ContainerExits, RunTypeOK, RunnerTypes
  <2>2. outcome \in Ending
    BY DEF RunTypeOK, RunnerTypes
  <2>. QED
    BY <2>1, <2>2 DEF Judged, Ending
<1>8. CASE ChaosSteps \/ SamplerSteps
  <2>1. UNCHANGED <<runner, outcome>>
    BY <1>8 DEF ChaosSteps, AwaitNet, AwaitStep, CheckStop, DockerCall, DockerHangs, TakeSum, Divide, DeleteSamples,
                Flush, GoesOn, SamplerSteps, Poll, PollFails, PollReturns, AddCpu, RaisePeak, AddMemory, AddPids, Samples
  <2>. QED
    BY <2>1 DEF Judged
<1>9. CASE \E p \in DOMAIN Profiles : StartRun(p)
  BY <1>9 DEF StartRun, Judged, Pending
<1>10. CASE Returned
  BY <1>10 DEF Returned, Judged, Pending
<1>11. CASE UNCHANGED runVars
  BY <1>11 DEF runVars, Judged
<1>. QED
  BY <1>1, <1>2, <1>3, <1>4, <1>5, <1>6, <1>7, <1>8, <1>9, <1>10, <1>11
     DEF RunMove, RunSteps, RunnerSteps, DaemonSteps

Asked == Sessions[session].profiles

\* What the report may rely on of a result.
Sound(r) == r.rc \in Ways /\ (r.oom <=> r.rc = 137) /\ (r.timed <=> r.rc = -1) /\ r.wall \in Nat

\* The profiles asked for are those that have a result, in order, and those still to run.
Logged ==
    /\ session \in DOMAIN Sessions
    /\ \E T : results \in Seq(T)
    /\ todo \in Seq(Range(Asked))
    /\ Len(results) <= Len(Asked)
    /\ \A i \in 1 .. Len(results) : results[i].profile = Asked[i] /\ Sound(results[i])
    /\ phase \in {"start", "build", "run", "clean"} => todo # <<>> /\ Len(todo) <= Len(Asked)
    /\ phase \in {"start", "build", "run", "clean"} =>
           \A j \in 1 .. Len(todo) : todo[j] = Asked[Len(Asked) - Len(todo) + j]
    /\ phase \in {"start", "build", "run"} \/ (phase = "clean" /\ raised) => Len(results) + Len(todo) = Len(Asked)
    /\ phase = "clean" /\ ~raised => Len(results) + Len(todo) = Len(Asked) + 1
    /\ phase \in {"start", "build", "run"} => ~raised
    /\ phase = "run" => profile = todo[1]
    /\ raised \in BOOLEAN

\* A session that crashed lacks a result, unless the report met output that does not parse.
Reported ==
    /\ phase = "crash" => Len(results) < Len(Asked) \/ FeedbackRaises(results)
    /\ phase # "done" => report = NoReport
    /\ phase = "done" => report = Report(results)

LEMMA OneMoreResult ==
    ASSUME NEW T, NEW q \in Seq(T), NEW e
    PROVE  /\ Append(q, e) \in Seq(T \cup {e}) /\ Len(Append(q, e)) = Len(q) + 1
           /\ \A i \in 1 .. Len(q) : Append(q, e)[i] = q[i]
           /\ Append(q, e)[Len(q) + 1] = e
<1>1. q \in Seq(T \cup {e})
  OBVIOUS
<1>. QED
  BY <1>1

LEMMA ResultsAreSound ==
    ASSUME RunTypeOK, Judged, NEW wall \in Walls[profile], NEW o
    PROVE  Result(wall, o).profile = profile /\ Sound(Result(wall, o))
<1>1. wall \in Nat
  BY WallsAssumption DEF RunTypeOK, RunnerTypes
<1>2. /\ Result(wall, o).profile = profile /\ Result(wall, o).rc = outcome.rc
      /\ Result(wall, o).wall = wall
      /\ Result(wall, o).oom = (outcome.rc = 137)
      /\ Result(wall, o).timed = outcome.timed
  BY DEF Result
<1>3. Result(wall, o).rc \in Ways /\ Result(wall, o).wall \in Nat
  BY <1>1, <1>2 DEF Judged
<1>4. Result(wall, o).timed <=> Result(wall, o).rc = -1
  BY <1>2 DEF Judged
<1>5. Result(wall, o).oom <=> Result(wall, o).rc = 137
  BY <1>2
<1>. QED
  BY <1>2, <1>3, <1>4, <1>5 DEF Sound

LEMMA AskedTypes == session \in DOMAIN Sessions => Asked \in Seq(Range(Asked)) /\ Asked # <<>> /\ IsInjective(Asked)
BY SessionsAssumption DEF Asked

LEMMA RunStepsKeepProfile == RunSteps => UNCHANGED profile
BY DEF RunSteps, RunnerSteps, DaemonSteps, ChaosSteps, SamplerSteps, runnerVars, dockerVars, chaosVars, samplerVars,
       RunReturns, RunFails, Finish, RunTimesOut, KillReturns, KillHangs, JoinReturns, JoinTimesOut, Joined, ReadFigure,
       ContainerStarts, ContainerExits, AwaitNet, AwaitStep, CheckStop, DockerCall, DockerHangs, TakeSum, Divide,
       DeleteSamples, Flush, GoesOn, Poll, PollFails, PollReturns, AddCpu, RaisePeak, AddMemory, AddPids, Samples

\* Most steps of a session leave the log alone.
LEMMA LogIsKept ==
    ASSUME Logged, UNCHANGED <<session, todo, results, raised>>,
           \/ phase' = phase /\ (phase = "run" => UNCHANGED profile)
           \/ phase = "start" /\ phase' = "build"
           \/ phase' \in {"done", "exit", "crash"}
    PROVE  Logged'
BY DEF Logged, Asked

LEMMA StepsLog == RunTypeOK /\ Judged /\ Logged /\ [SessionNext]_vars => Logged'
<1>. SUFFICES ASSUME RunTypeOK, Judged, Logged, [SessionNext]_vars PROVE Logged'
  OBVIOUS
<1>1. CASE Run
  BY <1>1, LogIsKept, RunStepsKeepProfile DEF Run, sessionVars
<1>2. CASE RunInContainer \/ StrayEnds
  BY <1>2, LogIsKept DEF RunInContainer, StrayEnds, runVars
<1>3. CASE StartProfile
  BY <1>3, LogIsKept DEF StartProfile
<1>4. CASE SaveReport
  BY <1>4, LogIsKept DEF SaveReport
<1>5. CASE BuildEnds
  <2>1. phase = "build" /\ UNCHANGED <<session, todo, results>> /\ todo # <<>> /\ Head(todo) = todo[1]
    BY <1>5, HeadAndTail DEF BuildEnds, Logged
  <2>2. \/ phase' = "exit" /\ UNCHANGED raised
        \/ phase' = "run" /\ profile' = todo[1] /\ UNCHANGED raised
        \/ phase' = "clean" /\ raised'
    BY <1>5, <2>1 DEF BuildEnds, StartRun, CleanUp
  <2>3. CASE phase' = "exit" /\ UNCHANGED raised
    BY <2>1, <2>3, LogIsKept
  <2>4. CASE phase' = "run" /\ profile' = todo[1] /\ UNCHANGED raised
    BY <2>1, <2>4 DEF Logged, Asked
  <2>5. CASE phase' = "clean" /\ raised'
    <3>1. raised' \in BOOLEAN
      BY <1>5, <2>1, <2>5 DEF BuildEnds, CleanUp, Logged
    <3>. QED
      BY <2>1, <2>5, <3>1 DEF Logged, Asked
  <2>. QED
    BY <2>2, <2>3, <2>4, <2>5
<1>6. CASE RunEnds
  <2>1. /\ phase = "run" /\ phase' = "clean" /\ UNCHANGED <<session, todo>>
        /\ raised' = (runner = "raised")
    BY <1>6 DEF RunEnds, CleanUp
  <2>2. Asked \in Seq(Range(Asked))
    BY AskedTypes DEF Logged
  <2>3. CASE runner = "raised"
    <3>1. UNCHANGED results
      BY <1>6, <2>3 DEF RunEnds
    <3>. QED
      BY <2>1, <2>3, <3>1 DEF Logged, Asked
  <2>4. CASE runner # "raised"
    <3>1. PICK wall \in Walls[profile], o \in Outputs[profile] : results' = Append(results, Result(wall, o))
      BY <1>6, <2>4 DEF RunEnds
    <3>. DEFINE r == Result(wall, o)
    <3>2. r.profile = profile /\ Sound(r)
      BY ResultsAreSound
    <3>. HIDE DEF r
    <3>3. PICK T : results \in Seq(T)
      BY DEF Logged
    <3>4. /\ results' \in Seq(T \cup {r}) /\ Len(results') = Len(results) + 1
          /\ \A i \in 1 .. Len(results) : results'[i] = results[i]
          /\ results'[Len(results) + 1] = r
      BY <3>1, <3>3, OneMoreResult DEF r
    <3>5. PICK n \in Nat : n = Len(results)
      BY <3>3
    <3>6. PICK m \in Nat : m = Len(Asked)
      BY <2>2
    <3>7. PICK k \in Nat : k = Len(todo)
      BY DEF Logged
    <3>8. n + k = m /\ k >= 1 /\ profile = todo[1] /\ todo[1] = Asked[m - k + 1]
      <4>1. todo # <<>> /\ Len(todo) + Len(results) = Len(Asked) /\ profile = todo[1]
        BY <2>1, <3>5, <3>6, <3>7 DEF Logged
      <4>2. k >= 1
        BY <3>7, <4>1, EmptyHasNoLength DEF Logged
      <4>3. todo[1] = Asked[m - k + 1]
        BY <2>1, <3>6, <3>7, <4>2 DEF Logged
      <4>. QED
        BY <3>5, <3>6, <3>7, <4>1, <4>2, <4>3
    <3>9. \A i \in 1 .. Len(results') : results'[i].profile = Asked[i] /\ Sound(results'[i])
      <4>. TAKE i \in 1 .. Len(results')
      <4>1. i \in 1 .. n \/ i = n + 1
        BY <3>4, <3>5
      <4>2. CASE i \in 1 .. n
        BY <3>4, <3>5, <4>2 DEF Logged
      <4>3. CASE i = n + 1
        <5>1. m - k + 1 = i
          BY <3>8, <4>3
        <5>2. results'[i] = r
          BY <3>4, <3>5, <4>3
        <5>. QED
          BY <3>2, <3>8, <5>1, <5>2
      <4>. QED
        BY <4>1, <4>2, <4>3
    <3>10. Len(results') <= Len(Asked) /\ Len(results') + Len(todo) = Len(Asked) + 1
      BY <3>4, <3>5, <3>6, <3>7, <3>8
    <3>11. ~raised' /\ raised' \in BOOLEAN
      BY <2>1, <2>4
    <3>. QED
      BY <2>1, <3>4, <3>9, <3>10, <3>11 DEF Logged, Asked
  <2>. QED
    BY <2>3, <2>4
<1>7. CASE CleanEnds
  <2>1. /\ phase = "clean" /\ UNCHANGED <<session, results, raised>> /\ todo' = Tail(todo) /\ todo # <<>>
        /\ phase' = IF raised THEN "crash" ELSE IF todo' = <<>> THEN "write" ELSE "start"
    BY <1>7 DEF CleanEnds, Logged
  <2>2. /\ todo' \in Seq(Range(Asked)) /\ Len(todo') = Len(todo) - 1
        /\ \A i \in 1 .. Len(todo') : i + 1 \in 1 .. Len(todo) /\ todo'[i] = todo[i + 1]
    BY <2>1, HeadAndTail DEF Logged
  <2>3. CASE phase' # "start"
    BY <2>1, <2>2, <2>3 DEF Logged, Asked
  <2>4. CASE phase' = "start"
    <3>1. ~raised /\ todo' # <<>>
      BY <2>1, <2>4
    <3>2. PICK n \in Nat : n = Len(results)
      BY DEF Logged
    <3>3. PICK m \in Nat : m = Len(Asked)
      BY AskedTypes DEF Logged
    <3>4. PICK k \in Nat : k = Len(todo)
      BY DEF Logged
    <3>5. k \in 1 .. m /\ n + k = m + 1 /\ Len(todo') = k - 1
      BY <2>1, <2>2, <3>1, <3>2, <3>3, <3>4 DEF Logged
    <3>6. Len(todo') <= Len(Asked) /\ Len(results) + Len(todo') = Len(Asked)
      BY <3>2, <3>3, <3>5
    <3>7. \A j \in 1 .. Len(todo') : todo'[j] = Asked[Len(Asked) - Len(todo') + j]
      <4>. TAKE j \in 1 .. Len(todo')
      <4>1. j + 1 \in 1 .. Len(todo) /\ todo'[j] = todo[j + 1]
        BY <2>2
      <4>2. todo[j + 1] = Asked[m - k + (j + 1)]
        BY <2>1, <3>3, <3>4, <4>1 DEF Logged
      <4>3. m - k + (j + 1) = m - (k - 1) + j
        BY <3>5
      <4>. QED
        BY <3>3, <3>5, <4>1, <4>2, <4>3
    <3>. QED
      BY <2>1, <2>2, <2>4, <3>1, <3>6, <3>7 DEF Logged, Asked
  <2>. QED
    BY <2>3, <2>4
<1>8. CASE UNCHANGED vars
  BY <1>8, LogIsKept DEF vars, runVars, sessionVars
<1>. QED
  BY <1>1, <1>2, <1>3, <1>4, <1>5, <1>6, <1>7, <1>8 DEF SessionNext, SessionSteps

\* The session reports once, at its end.
LEMMA StepsReport == Logged /\ Reported /\ [SessionNext]_vars => Reported'
<1>. SUFFICES ASSUME Logged, Reported, [SessionNext]_vars PROVE Reported'
  OBVIOUS
<1>1. CASE phase' = phase /\ UNCHANGED <<session, results, report>>
  BY <1>1 DEF Reported, Asked
<1>2. CASE phase \notin {"done", "crash"} /\ phase' \notin {"done", "crash"} /\ UNCHANGED report
  BY <1>2 DEF Reported
<1>3. CASE StartProfile
  <2>1. phase = "start" /\ UNCHANGED <<session, results, report>> /\ phase' \in {"build", "crash"}
    BY <1>3 DEF StartProfile
  <2>2. Len(results) < Len(Asked)
    <3>1. PICK k \in Nat : k = Len(todo)
      BY DEF Logged
    <3>2. k # 0
      BY <2>1, <3>1, EmptyHasNoLength DEF Logged
    <3>3. PICK n \in Nat : n = Len(results)
      BY DEF Logged
    <3>4. n + k = Len(Asked)
      BY <2>1, <3>1, <3>3 DEF Logged
    <3>. QED
      BY <3>2, <3>3, <3>4
  <2>. QED
    BY <2>1, <2>2 DEF Reported, Asked
<1>4. CASE CleanEnds
  <2>1. /\ phase = "clean" /\ UNCHANGED <<session, results, report>>
        /\ phase' \in {"crash", "write", "start"} /\ (phase' = "crash" => raised)
    BY <1>4 DEF CleanEnds
  <2>2. ASSUME raised PROVE Len(results) < Len(Asked)
    <3>1. PICK k \in Nat : k = Len(todo)
      BY DEF Logged
    <3>2. k # 0
      BY <2>1, <3>1, EmptyHasNoLength DEF Logged
    <3>3. PICK n \in Nat : n = Len(results)
      BY DEF Logged
    <3>4. n + k = Len(Asked)
      BY <2>1, <2>2, <3>1, <3>3 DEF Logged
    <3>. QED
      BY <3>2, <3>3, <3>4
  <2>. QED
    BY <2>1, <2>2 DEF Reported, Asked
<1>5. CASE SaveReport
  BY <1>5 DEF SaveReport, Reported
<1>6. CASE BuildEnds \/ RunEnds
  <2>1. phase \in {"build", "run"} /\ phase' \in {"exit", "run", "clean"} /\ UNCHANGED report
    BY <1>6 DEF BuildEnds, RunEnds, CleanUp
  <2>. QED
    BY <1>2, <2>1
<1>7. CASE Run \/ RunInContainer \/ StrayEnds \/ UNCHANGED vars
  BY <1>1, <1>7 DEF Run, RunInContainer, StrayEnds, vars, sessionVars
<1>. QED
  BY <1>3, <1>4, <1>5, <1>6, <1>7 DEF SessionNext, SessionSteps

\* A quotient that is at most k.
LEMMA SmallQuotient == ASSUME NEW a \in Int, NEW b \in Nat, b > 0, a \div b <= 300 PROVE a < 301 * b
OBVIOUS

LEMMA AtMostTheBound ==
    ASSUME NEW b \in Nat, b # 0, NEW c \in Nat, Change(b, c) <= 300
    PROVE  2000 * c < 2601 * b
<1>1. ((c - b) * 2000 + b) \div (2 * b) <= 300
  BY DEF Change
<1>2. (c - b) * 2000 + b < 301 * (2 * b)
  <2>1. (c - b) * 2000 + b \in Int /\ 2 * b \in Nat /\ 2 * b > 0
    OBVIOUS
  <2>. QED
    BY <1>1, <2>1, SmallQuotient
<1>. QED
  BY <1>2

\* A profile has one result.
LEMMA OneResult ==
    ASSUME Logged, NEW r \in Others(results), NEW s \in Others(results), r.profile = s.profile
    PROVE  r = s
<1>1. PICK i \in 1 .. Len(results) : results[i] = r
  BY DEF Others, Range, Logged
<1>2. PICK j \in 1 .. Len(results) : results[j] = s
  BY DEF Others, Range, Logged
<1>3. IsInjective(Asked) /\ i \in DOMAIN Asked /\ j \in DOMAIN Asked /\ Asked[i] = Asked[j]
  <2>1. PICK n \in Nat : n = Len(results)
    BY DEF Logged
  <2>2. Asked \in Seq(Range(Asked)) /\ IsInjective(Asked)
    BY AskedTypes DEF Logged
  <2>3. PICK m \in Nat : m = Len(Asked) /\ DOMAIN Asked = 1 .. m
    BY <2>2
  <2>4. n <= m
    BY <2>1, <2>3 DEF Logged
  <2>. QED
    BY <1>1, <1>2, <2>1, <2>2, <2>3, <2>4 DEF Logged
<1>4. i = j
  BY <1>3 DEF IsInjective
<1>. QED
  BY <1>1, <1>2, <1>4

LEMMA OthersAreSound == ASSUME Logged, NEW r \in Range(results) PROVE Sound(r)
BY DEF Logged, Range

\* Every set of numbers that is not empty has a least one.
LEMMA LeastNumber == ASSUME NEW S \in SUBSET Nat, S # {} PROVE \E n \in S : \A m \in S : n <= m
<1>. DEFINE Less == OpToRel(<, Nat)
<1>1. IsWellFoundedOn(Less, Nat)
  BY NatLessThanWellFounded
<1>2. \A m, n \in Nat : <<m, n>> \in Less <=> m < n
  BY DEF OpToRel
<1>. HIDE DEF Less
<1>3. PICK n \in S : \A m \in S : ~(<<m, n>> \in Less)
  BY <1>1, WFMin
<1>4. ASSUME NEW m \in S PROVE n <= m
  <2>1. m \in Nat /\ n \in Nat
    OBVIOUS
  <2>2. ~(m < n)
    BY <1>2, <1>3, <2>1
  <2>. QED
    BY <2>1, <2>2
<1>. QED
  BY <1>3, <1>4

LEMMA BaselineIsSound == Logged /\ HasBaseline(results) => Sound(BaselineOf(results))
<1>. SUFFICES ASSUME Logged, HasBaseline(results) PROVE Sound(BaselineOf(results))
  OBVIOUS
<1>. DEFINE at == {i \in DOMAIN results : results[i].profile = "none"}
<1>1. at # {} /\ at \subseteq Nat
  BY DEF HasBaseline, Logged
<1>2. PICK i \in at : \A j \in at : i <= j
  BY <1>1, LeastNumber
<1>3. Min(at) \in at
  BY <1>1, <1>2 DEF Min
<1>. QED
  BY <1>3, OthersAreSound DEF BaselineOf, Range

-----------------------------------------------------------------------------

Written == Report(results)

\* What the report, the analysis and the feedback look at in a result.
LEMMA VerdictOfAResult ==
    ASSUME Logged
    PROVE  /\ Written.verdict.failures = {r.profile : r \in {s \in Others(results) : Failed(s) \/ WallPct(results, s) > 2000}}
           /\ Written.verdict.warnings =
                {r.profile : r \in {s \in Others(results) :
                                        ~(Failed(s) \/ WallPct(results, s) > 2000) /\ WallPct(results, s) > 300}}
           /\ Written.verdict.passing =
                {r.profile : r \in {s \in Others(results) :
                                        ~(Failed(s) \/ WallPct(results, s) > 2000) /\ ~(WallPct(results, s) > 300)}}
  BY DEF Written, Report, Verdict

LEMMA WallsAreNumbers == ASSUME Logged, NEW r \in Others(results) PROVE WallPct(results, r) \in Int
<1>1. Sound(r)
  BY OthersAreSound DEF Others
<1>2. CASE HasBaseline(results)
  <2>. DEFINE b == BaselineOf(results).wall  c == r.wall
  <2>1. b \in Nat /\ c \in Nat
    BY <1>1, <1>2, BaselineIsSound DEF Sound
  <2>2. WallPct(results, r) = Change(b, c)
    BY <1>2 DEF WallPct, Comparison
  <2>. HIDE DEF b, c
  <2>3. b # 0 => ((c - b) * 2000 + b) \div (2 * b) \in Int
    BY <2>1
  <2>. QED
    BY <2>1, <2>2, <2>3 DEF Change
<1>3. CASE ~HasBaseline(results)
  BY <1>3 DEF WallPct
<1>. QED
  BY <1>2, <1>3

\* A result without failure and warning was fast enough.
LEMMA EarnsItsSuccess ==
    ASSUME Logged, Written.verdict.failures = {}, Written.verdict.warnings = {}, NEW r \in Others(results)
    PROVE  /\ r.rc = 0 /\ ~r.oom /\ ~r.timed
           /\ HasBaseline(results) => 2000 * r.wall < 2601 * BaselineOf(results).wall \/ BaselineOf(results).wall = 0
<1>1. ~Failed(r) /\ ~(WallPct(results, r) > 2000) /\ ~(WallPct(results, r) > 300)
  BY VerdictOfAResult
<1>2. Sound(r) /\ WallPct(results, r) \in Int
  BY OthersAreSound, WallsAreNumbers DEF Others
<1>3. ASSUME HasBaseline(results), BaselineOf(results).wall # 0
      PROVE  2000 * r.wall < 2601 * BaselineOf(results).wall
  <2>1. BaselineOf(results).wall \in Nat /\ r.wall \in Nat
    BY <1>2, <1>3, BaselineIsSound DEF Sound
  <2>2. Change(BaselineOf(results).wall, r.wall) <= 300
    BY <1>1, <1>2, <1>3 DEF WallPct, Comparison
  <2>. QED
    BY <1>3, <2>1, <2>2, AtMostTheBound
<1>. QED
  BY <1>1, <1>3 DEF Failed

LEMMA StatusesAgree ==
    ASSUME Logged, NEW s \in Written.status
    PROVE  /\ s[1] \in Written.verdict.failures <=> s[2] \notin {"warn", "pass"}
           /\ s[1] \in Written.verdict.warnings <=> s[2] = "warn"
           /\ s[1] \in Written.verdict.passing <=> s[2] = "pass"
<1>1. PICK r \in Others(results) : s = <<r.profile, Status(results, r)>>
  BY DEF Written, Report
<1>2. \A q \in Others(results) : q.profile = r.profile => q = r
  BY OneResult
<1>. DEFINE pct == WallPct(results, r)  is == Status(results, r)
<1>3. /\ s[1] \in Written.verdict.failures <=> Failed(r) \/ pct > 2000
      /\ s[1] \in Written.verdict.warnings <=> ~(Failed(r) \/ pct > 2000) /\ pct > 300
      /\ s[1] \in Written.verdict.passing <=> ~(Failed(r) \/ pct > 2000) /\ ~(pct > 300)
  BY <1>1, <1>2, VerdictOfAResult
<1>4. pct \in Int
  BY WallsAreNumbers
<1>5. pct > 2000 => pct > 300
  BY <1>4
<1>6. is = IF r.oom THEN "out_of_memory" ELSE IF r.timed THEN "timed_out" ELSE IF r.rc # 0 THEN "exit_code"
           ELSE IF pct > 2000 THEN "too_slow" ELSE IF pct > 300 THEN "warn" ELSE "pass"
  BY Zenon DEF Status
<1>7. s[2] = is
  BY <1>1
<1>. HIDE DEF pct, is
<1>8. is \in {"warn", "pass"} <=> ~Failed(r) /\ ~(pct > 2000)
  BY <1>6 DEF Failed
<1>9. is = "warn" <=> ~Failed(r) /\ ~(pct > 2000) /\ pct > 300
  BY <1>6 DEF Failed
<1>10. is = "pass" <=> ~Failed(r) /\ ~(pct > 2000) /\ ~(pct > 300)
  BY <1>6 DEF Failed
<1>. QED
  BY <1>3, <1>5, <1>7, <1>8, <1>9, <1>10

LEMMA AnalysesAgree ==
    ASSUME Logged, HasBaseline(results)
    PROVE  /\ Summary(results).failures = Written.verdict.failures
           /\ Written.verdict.warnings \subseteq Summary(results).warnings
<1>1. \A r \in Others(results) :
         /\ Comparison(results, r).profile = r.profile /\ Comparison(results, r).failed = Failed(r)
         /\ Comparison(results, r).wallPct = WallPct(results, r)
  BY DEF Comparison, WallPct
<1>. DEFINE all == {Comparison(results, r) : r \in Others(results)}
            Warned(c) == ~c.failed /\ c.wallPct \in 201 .. 2000
<1>2. /\ Summary(results).failures = {c.profile : c \in {d \in all : d.failed \/ d.wallPct > 2000}}
      /\ Summary(results).warnings = {c.profile : c \in {d \in all : Warned(d)}}
  BY DEF Summary
<1>3. \A r \in Others(results) : WallPct(results, r) \in Int
  BY WallsAreNumbers
<1>4. ASSUME NEW p \in Written.verdict.failures PROVE p \in Summary(results).failures
  <2>1. PICK r \in Others(results) : p = r.profile /\ (Failed(r) \/ WallPct(results, r) > 2000)
    BY <1>4, VerdictOfAResult
  <2>2. Comparison(results, r) \in all
    OBVIOUS
  <2>. HIDE DEF all
  <2>3. \E c \in all : p = c.profile /\ (c.failed \/ c.wallPct > 2000)
    BY <1>1, <2>1, <2>2
  <2>. QED
    BY <1>2, <2>3
<1>5. ASSUME NEW p \in Summary(results).failures PROVE p \in Written.verdict.failures
  <2>0. PICK c \in all : p = c.profile /\ (c.failed \/ c.wallPct > 2000)
    BY <1>2, <1>5
  <2>1. PICK r \in Others(results) : /\ p = Comparison(results, r).profile
                                     /\ Comparison(results, r).failed \/ Comparison(results, r).wallPct > 2000
    BY <2>0
  <2>. QED
    BY <1>1, <2>1, VerdictOfAResult
<1>6. ASSUME NEW p \in Written.verdict.warnings PROVE p \in Summary(results).warnings
  <2>1. PICK r \in Others(results) : /\ p = r.profile /\ ~Failed(r)
                                     /\ ~(WallPct(results, r) > 2000) /\ WallPct(results, r) > 300
    BY <1>6, VerdictOfAResult
  <2>2. WallPct(results, r) \in 201 .. 2000
    BY <1>3, <2>1
  <2>3. Comparison(results, r) \in all
    OBVIOUS
  <2>. HIDE DEF all
  <2>4. Warned(Comparison(results, r))
    <3>. DEFINE c == Comparison(results, r)
    <3>1. c.failed = Failed(r) /\ c.wallPct = WallPct(results, r)
      BY <1>1
    <3>. HIDE DEF c
    <3>2. ~c.failed /\ c.wallPct \in 201 .. 2000
      BY <2>1, <2>2, <3>1
    <3>3. Warned(c)
      BY <3>2
    <3>. QED
      BY <3>3 DEF c
  <2>5. p = Comparison(results, r).profile
    BY <1>1, <2>1
  <2>. HIDE DEF Warned
  <2>. QED
    BY <1>2, <2>3, <2>4, <2>5
<1>. QED
  BY <1>4, <1>5, <1>6

\* The feedback on a result says how it failed.
LEMMA FeedbackTells ==
    ASSUME NEW m, NEW r, Sound(r)
    PROVE  /\ <<"success", "handled_well">> \in Feedback(m, r) => r.rc = 0 /\ ~r.timed
           /\ r.oom <=> <<"failure", "memory">> \in Feedback(m, r)
           /\ r.timed <=> <<"fail", "time_limit">> \in Feedback(m, r)
           /\ r.timed \/ r.rc = 124 <=> <<"failure", "time_limit">> \in Feedback(m, r)
<1>1. r.rc \in Int
  BY DEF Sound, Ways
<1>2. (r.oom <=> r.rc = 137) /\ (r.timed <=> r.rc = -1)
  BY DEF Sound
<1>3. /\ r.rc = 137 => FailureMode(r) = "memory"
      /\ r.rc \in {-1, 124} => FailureMode(r) = "time_limit"
      /\ r.rc \notin {137, -1, 124} => FailureMode(r) \notin {"memory", "time_limit"}
  BY <1>1, <1>2 DEF FailureMode
<1>0. \A n \in LeakNotes(r) : \E sign : n = <<"leak", sign>>
  BY Zenon DEF LeakNotes
<1>4. ASSUME NEW x PROVE <<"failure", x>> \in FailureNotes(r) <=> r.rc # 0 /\ x = FailureMode(r)
  <2>0. \A sign : <<"failure", x>> # <<"leak", sign>>
    OBVIOUS
  <2>1. <<"failure", x>> \notin LeakNotes(r) /\ <<"failure", x>> # <<"stderr", StderrNote(r)>>
    BY <1>0, <2>0
  <2>2. \A y : <<"failure", x>> = <<"failure", y>> <=> x = y
    OBVIOUS
  <2>. QED
    BY <2>1, <2>2, Zenon DEF FailureNotes
<1>5. ASSUME NEW n \in OtherNotes(m, r) PROVE n[1] # "failure" /\ n[1] # "success"
  <2>1. n \in {<<"good", "stderr">>, <<"fail", "memory">>, <<"fail", "time_limit">>, <<"warn", "throughput">>,
               <<"warn", "cpu">>, <<"warn", "flush">>, <<"warn", "buffer">>, <<"warn", "threads">>}
    BY <1>5, Zenon DEF OtherNotes
  <2>. QED
    BY <2>1
<1>. DEFINE notes == OtherNotes(m, r) \cup FailureNotes(r)
            Success == <<"success", "handled_well">>
<1>6. Feedback(m, r) = IF notes = {} THEN {Success} ELSE notes
  BY DEF Feedback
<1>7. ASSUME NEW x PROVE <<"failure", x>> \in notes <=> r.rc # 0 /\ x = FailureMode(r)
  <2>1. <<"failure", x>> \notin OtherNotes(m, r)
    BY <1>5
  <2>. QED
    BY <1>4, <2>1
<1>8. Success \notin notes
  <2>1. Success \notin OtherNotes(m, r)
    BY <1>5
  <2>2. \A x, y : Success # <<"failure", x>> /\ Success # <<"stderr", y>> /\ Success # <<"leak", x>>
    OBVIOUS
  <2>3. Success \notin LeakNotes(r)
    BY <1>0, <2>2, Zenon
  <2>4. Success \notin FailureNotes(r)
    BY <2>2, <2>3, Zenon DEF FailureNotes
  <2>. QED
    BY <2>1, <2>4
<1>9. \A x : <<"failure", x>> # Success
  OBVIOUS
<1>. HIDE DEF notes, Success
<1>10. ASSUME NEW x PROVE <<"failure", x>> \in Feedback(m, r) <=> r.rc # 0 /\ x = FailureMode(r)
  <2>1. CASE notes = {}
    <3>1. Feedback(m, r) = {Success}
      BY <1>6, <2>1
    <3>2. ~(r.rc # 0 /\ x = FailureMode(r))
      BY <1>7, <2>1
    <3>3. <<"failure", x>> \notin Feedback(m, r)
      BY <1>9, <3>1
    <3>. QED
      BY <3>2, <3>3
  <2>2. CASE notes # {}
    <3>1. Feedback(m, r) = notes
      BY <1>6, <2>2
    <3>. QED
      BY <1>7, <3>1
  <2>. QED
    BY <2>1, <2>2
<1>11. Success \in Feedback(m, r) => r.rc = 0
  <2>1. Success \in Feedback(m, r) => notes = {}
    BY <1>6, <1>8
  <2>2. r.rc # 0 => <<"failure", FailureMode(r)>> \in notes
    BY <1>7
  <2>. QED
    BY <2>1, <2>2
<1>12. <<"failure", "memory">> \in Feedback(m, r) <=> r.rc = 137
  BY <1>1, <1>3, <1>10
<1>13. <<"failure", "time_limit">> \in Feedback(m, r) <=> r.rc \in {-1, 124}
  BY <1>1, <1>3, <1>10
<1>14. r.rc = 0 => ~r.timed
  BY <1>2
<1>15. <<"fail", "time_limit">> \in Feedback(m, r) <=> r.timed
  <2>. DEFINE Limit == <<"fail", "time_limit">>
  <2>1. Limit \in OtherNotes(m, r) <=> r.timed
    <3>1. /\ Limit # <<"good", "stderr">> /\ Limit # <<"fail", "memory">> /\ Limit # <<"warn", "throughput">>
          /\ Limit # <<"warn", "cpu">> /\ Limit # <<"warn", "flush">> /\ Limit # <<"warn", "buffer">>
          /\ Limit # <<"warn", "threads">>
      OBVIOUS
    <3>. QED
      BY <3>1, Zenon DEF OtherNotes
  <2>2. Limit \notin FailureNotes(r)
    <3>1. \A x, y : Limit # <<"failure", x>> /\ Limit # <<"stderr", y>> /\ Limit # <<"leak", x>>
      OBVIOUS
    <3>2. Limit \notin LeakNotes(r)
      BY <1>0, <3>1, Zenon
    <3>. QED
      BY <3>1, <3>2, Zenon DEF FailureNotes
  <2>3. Limit \in notes <=> r.timed
    BY <2>1, <2>2 DEF notes
  <2>4. Limit # Success
    BY DEF Success
  <2>. HIDE DEF Limit
  <2>5. Limit \in Feedback(m, r) <=> Limit \in notes
    BY <1>6, <2>4
  <2>. QED
    BY <2>3, <2>5 DEF Limit
<1>. QED
  BY <1>1, <1>2, <1>11, <1>12, <1>13, <1>14, <1>15 DEF Success

LEMMA ReportIsTheRuns == Logged /\ Reported => ReportIsHonest
<1>. SUFFICES ASSUME Logged, Reported PROVE ReportIsHonest
  OBVIOUS
<1>1. report.written => report = Written
  BY DEF Reported, Written, NoReport
<1>2. SuccessIsEarned
  BY <1>1, EarnsItsSuccess DEF SuccessIsEarned
<1>3. StatusIsTheVerdict
  BY <1>1, StatusesAgree DEF StatusIsTheVerdict
<1>4. AnalysisAgrees
  BY <1>1, AnalysesAgree DEF AnalysisAgrees
<1>5. FeedbackIsHonest
  <2>. SUFFICES ASSUME report = Written, NEW r \in Others(results), NEW f \in report.feedback, f[1] = r.profile
                PROVE  /\ <<"success", "handled_well">> \in f[2] => r.rc = 0 /\ ~r.timed
                       /\ r.oom <=> <<"failure", "memory">> \in f[2]
                       /\ r.timed <=> <<"fail", "time_limit">> \in f[2]
                       /\ r.timed \/ r.rc = 124 <=> <<"failure", "time_limit">> \in f[2]
    BY <1>1 DEF FeedbackIsHonest
  <2>1. PICK q \in Others(results) : f = <<q.profile, Feedback(Metrics(q.out), q)>>
    BY DEF Written, Report
  <2>2. q = r
    BY <2>1, OneResult
  <2>3. f[2] = Feedback(Metrics(r.out), r)
    BY <2>1, <2>2
  <2>4. Sound(r)
    BY OthersAreSound DEF Others
  <2>. QED
    BY <2>3, <2>4, FeedbackTells
<1>6. ReportIsWritten
  <2>. SUFFICES ASSUME phase = "crash", Len(results) = Len(Asked) PROVE \E r \in Others(results) : ~Parses(r.out)
    BY DEF ReportIsWritten, Asked
  <2>1. ~(Len(results) < Len(Asked))
    <3>1. PICK n \in Nat : n = Len(results)
      BY DEF Logged
    <3>. QED
      BY <3>1
  <2>. QED
    BY <2>1 DEF Reported, FeedbackRaises, NeedsFeedback
<1>. QED
  BY <1>2, <1>3, <1>4, <1>5, <1>6 DEF ReportIsHonest

\* The report, the analysis and the feedback say of every run what it was, for all sessions.
THEOREM ReportsAreHonest == SessionSpec => []ReportIsHonest
<1>1. SessionInit => Judged /\ Logged /\ Reported
  <2>. SUFFICES ASSUME SessionInit PROVE Judged /\ Logged /\ Reported
    OBVIOUS
  <2>1. Judged
    BY SessionStartsAtRest DEF AtRest, Judged, Pending, Ways
  <2>2. /\ session \in DOMAIN Sessions /\ todo = Asked /\ results = <<>> /\ phase = "start" /\ raised = FALSE
        /\ report = NoReport
    BY DEF SessionInit, Asked
  <2>3. Asked \in Seq(Range(Asked)) /\ Asked # <<>>
    BY <2>2, AskedTypes
  <2>4. PICK m \in Nat : m = Len(Asked)
    BY <2>3
  <2>5. results \in Seq({}) /\ Len(results) = 0
    BY <2>2
  <2>6. \A j \in 1 .. Len(todo) : todo[j] = Asked[Len(Asked) - Len(todo) + j]
    BY <2>2, <2>4
  <2>7. Len(results) <= Len(Asked) /\ Len(results) + Len(todo) = Len(Asked) /\ Len(todo) <= Len(Asked)
    BY <2>2, <2>4, <2>5
  <2>8. (\E T : results \in Seq(T)) /\ \A i \in 1 .. Len(results) : results[i].profile = Asked[i] /\ Sound(results[i])
    BY <2>5
  <2>9. todo \in Seq(Range(Asked)) /\ todo # <<>>
    BY <2>2, <2>3
  <2>10. Logged
    BY <2>2, <2>6, <2>7, <2>8, <2>9 DEF Logged
  <2>. QED
    BY <2>1, <2>2, <2>10 DEF Reported
<1>2. RunTypeOK /\ Judged /\ [SessionNext]_vars => Judged'
  BY SessionMovesRuns, MovesJudge
<1>3. RunTypeOK /\ Judged /\ Logged /\ [SessionNext]_vars => Logged'
  BY StepsLog
<1>4. Logged /\ Reported /\ [SessionNext]_vars => Reported'
  BY StepsReport
<1>. QED
  BY <1>1, <1>2, <1>3, <1>4, ReportIsTheRuns, RunTypes, PTL DEF SessionSpec

-----------------------------------------------------------------------------

\* The container a clean-up has, and what it has done.
Cleaned ==
    /\ slipped \/ strays = {}
    /\ phase = "clean" => work = <<>> \/ work = CleanContainers(Sub)
    /\ phase = "clean" /\ work = <<>> /\ artifacts => slipped \/ CleanContainers(Sub) = <<>>
    /\ phase \in {"write", "done", "crash", "start"} /\ artifacts => slipped \/ CleanContainers(Sub) = <<>>
    /\ phase \in {"build", "run"} => Supported(Sub)
    /\ artifacts \in BOOLEAN /\ slipped \in BOOLEAN

LEMMA OneCleaner ==
    ASSUME NEW sub
    PROVE  CleanContainers(sub) \in {<<>>, <<"rm">>, <<"clean">>}
BY DEF CleanContainers

LEMMA LeftTypes == ASSUME artifacts \in BOOLEAN, NEW cmd, NEW ok \in BOOLEAN PROVE Leaves(cmd, ok) \subseteq BOOLEAN
BY DEF Leaves

LEMMA StepsClean == Cleaned /\ [SessionNext]_vars => Cleaned'
<1>. SUFFICES ASSUME Cleaned, [SessionNext]_vars PROVE Cleaned'
  OBVIOUS
<1>1. CASE RunInContainer
  <2>1. /\ phase \in {"build", "clean"} /\ work # <<>> /\ work' = Tail(work) /\ UNCHANGED <<session, phase>>
        /\ \/ \E ok \in BOOLEAN : /\ artifacts' \in Leaves(Head(work), ok)
                                  /\ slipped' = (slipped \/ (Head(work) \in Cleans /\ ~ok))
                                  /\ UNCHANGED strays
           \/ slipped' = TRUE /\ UNCHANGED artifacts
    BY <1>1 DEF RunInContainer
  <2>2. artifacts' \in BOOLEAN /\ slipped' \in BOOLEAN
    BY <2>1, LeftTypes DEF Cleaned
  <2>3. slipped' \/ strays' = {}
    BY <2>1 DEF Cleaned
  <2>4. UNCHANGED Sub
    BY <2>1 DEF Sub
  <2>5. CASE phase = "build"
    BY <2>1, <2>2, <2>3, <2>4, <2>5 DEF Cleaned
  <2>6. CASE phase = "clean"
    <3>1. work \in {<<"rm">>, <<"clean">>}
      BY <2>1, <2>6, OneCleaner DEF Cleaned
    <3>2. Head(work) \in Cleans /\ Head(work) \notin Builds /\ Tail(work) = <<>>
      <4>1. CASE work = <<"rm">>
        BY <4>1 DEF Cleans, Builds
      <4>2. CASE work = <<"clean">>
        BY <4>2 DEF Cleans, Builds
      <4>. QED
        BY <3>1, <4>1, <4>2
    <3>3. artifacts' => slipped'
      <4>1. Leaves(Head(work), TRUE) = {FALSE}
        BY <3>2, Zenon DEF Leaves
      <4>. QED
        BY <2>1, <3>2, <4>1
    <3>. QED
      BY <2>1, <2>2, <2>3, <2>4, <2>6, <3>2, <3>3 DEF Cleaned
  <2>. QED
    BY <2>1, <2>5, <2>6
<1>2. CASE StrayEnds
  <2>1. strays # {} /\ UNCHANGED <<session, phase, work, slipped>>
    BY <1>2 DEF StrayEnds
  <2>2. artifacts' \in BOOLEAN
    BY <1>2, LeftTypes DEF StrayEnds, Cleaned
  <2>3. slipped
    BY <2>1 DEF Cleaned
  <2>. QED
    BY <2>1, <2>2, <2>3 DEF Cleaned, Sub
<1>3. CASE StartProfile
  BY <1>3 DEF StartProfile, Cleaned, Sub
<1>4. CASE BuildEnds
  <2>1. /\ phase = "build" /\ work = <<>> /\ UNCHANGED <<session, artifacts, strays, slipped>>
        /\ \/ phase' \in {"exit", "run"}
           \/ phase' = "clean" /\ work' = CleanContainers(Sub)
    BY <1>4 DEF BuildEnds, CleanUp
  <2>. QED
    BY <2>1 DEF Cleaned, Sub
<1>5. CASE RunEnds
  <2>1. /\ phase = "run" /\ UNCHANGED <<session, artifacts, strays, slipped>>
        /\ phase' = "clean" /\ work' = CleanContainers(Sub)
    BY <1>5 DEF RunEnds, CleanUp
  <2>. QED
    BY <2>1 DEF Cleaned, Sub
<1>6. CASE CleanEnds
  <2>1. /\ phase = "clean" /\ work = <<>> /\ UNCHANGED <<session, artifacts, strays, slipped, work>>
        /\ phase' \in {"crash", "write", "start"}
    BY <1>6 DEF CleanEnds
  <2>. QED
    BY <2>1 DEF Cleaned, Sub
<1>7. CASE SaveReport
  BY <1>7 DEF SaveReport, Cleaned, Sub
<1>8. CASE Run \/ UNCHANGED vars
  BY <1>8 DEF Run, vars, sessionVars, Cleaned, Sub
<1>. QED
  BY <1>1, <1>2, <1>3, <1>4, <1>5, <1>6, <1>7, <1>8 DEF SessionNext, SessionSteps

-----------------------------------------------------------------------------

\* The first place where something is, is the least.
LEMMA LeastOf == ASSUME NEW S \in SUBSET Nat, S # {} PROVE Min(S) \in S /\ \A m \in S : Min(S) <= m
BY LeastNumber DEF Min

LEMMA SameSequence ==
    ASSUME NEW T, NEW n \in Nat, NEW a \in Seq(T), NEW b \in Seq(T), Len(a) = n, Len(b) = n, \A k \in 1 .. n : a[k] = b[k]
    PROVE  a = b
OBVIOUS

\* The sequence s without its element at i.
LEMMA Removed ==
    ASSUME NEW T, NEW s \in Seq(T), NEW i \in 1 .. Len(s)
    PROVE  /\ RemoveAt(s, i) \in Seq(T) /\ Len(RemoveAt(s, i)) = Len(s) - 1
           /\ \A k \in 1 .. Len(s) - 1 : RemoveAt(s, i)[k] = IF k < i THEN s[k] ELSE s[k + 1]
<1>. DEFINE a == SubSeq(s, 1, i - 1)  b == SubSeq(s, i + 1, Len(s))
<1>1. PICK n \in Nat : n = Len(s)
  OBVIOUS
<1>2. /\ a \in Seq(T) /\ Len(a) = i - 1 /\ \A k \in 1 .. i - 1 : a[k] = s[k]
      /\ b \in Seq(T) /\ Len(b) = n - i /\ \A k \in 1 .. n - i : b[k] = s[k + i]
  BY <1>1
<1>3. RemoveAt(s, i) = a \o b
  BY DEF RemoveAt
<1>. HIDE DEF a, b
<1>4. a \o b \in Seq(T) /\ Len(a \o b) = n - 1
  BY <1>1, <1>2
<1>5. \A k \in 1 .. n - 1 : (a \o b)[k] = IF k < i THEN s[k] ELSE s[k + 1]
  <2>. TAKE k \in 1 .. n - 1
  <2>1. CASE k < i
    <3>1. k \in 1 .. Len(a)
      BY <1>1, <1>2, <2>1
    <3>. QED
      BY <1>2, <2>1, <3>1
  <2>2. CASE ~(k < i)
    <3>1. k - (i - 1) \in 1 .. n - i /\ k > i - 1 /\ k - (i - 1) + i = k + 1
      BY <1>1, <2>2
    <3>2. (a \o b)[k] = b[k - (i - 1)]
      BY <1>1, <1>2, <3>1
    <3>. QED
      BY <1>2, <2>2, <3>1, <3>2
  <2>. QED
    BY <2>1, <2>2
<1>. QED
  BY <1>1, <1>3, <1>4, <1>5

LEMMA Concatenated ==
    ASSUME NEW T, NEW a \in Seq(T), NEW b \in Seq(T)
    PROVE  a \o b \in Seq(T) /\ Len(a \o b) = Len(a) + Len(b)
OBVIOUS

\* The sequence q is s with e in place j.
Puts(q, s, j, e) ==
    /\ Len(q) = Len(s) + 1
    /\ \A k \in 1 .. Len(s) + 1 : q[k] = IF k < j THEN s[k] ELSE IF k = j THEN e ELSE s[k - 1]

LEMMA Inserted ==
    ASSUME NEW T, NEW s \in Seq(T), NEW e \in T, NEW j \in 1 .. Len(s) + 1
    PROVE  InsertAt(s, j, e) \in Seq(T) /\ Puts(InsertAt(s, j, e), s, j, e)
<1>. DEFINE a == SubSeq(s, 1, j - 1)  b == SubSeq(s, j, Len(s))  c == a \o <<e>>
<1>1. PICK n \in Nat : n = Len(s)
  OBVIOUS
<1>2. /\ a \in Seq(T) /\ Len(a) = j - 1 /\ \A k \in 1 .. j - 1 : a[k] = s[k]
      /\ b \in Seq(T) /\ Len(b) = n - j + 1 /\ \A k \in 1 .. n - j + 1 : b[k] = s[k + j - 1]
  BY <1>1
<1>3. InsertAt(s, j, e) = c \o b
  BY DEF InsertAt
<1>. HIDE DEF a, b
<1>4. c \in Seq(T) /\ Len(c) = j /\ c[j] = e /\ \A k \in 1 .. j - 1 : c[k] = s[k]
  <2>1. a \o <<e>> \in Seq(T) /\ Len(a \o <<e>>) = Len(a) + 1
    BY <1>2
  <2>2. \A k \in 1 .. Len(a) : (a \o <<e>>)[k] = a[k]
    BY <1>2
  <2>3. (a \o <<e>>)[Len(a) + 1] = e
    BY <1>2
  <2>4. j - 1 + 1 = j
    OBVIOUS
  <2>. QED
    BY <1>2, <2>1, <2>2, <2>3, <2>4
<1>. HIDE DEF c
<1>5. c \o b \in Seq(T) /\ Len(c \o b) = n + 1
  <2>1. c \o b \in Seq(T) /\ Len(c \o b) = Len(c) + Len(b)
    BY <1>2, <1>4, Concatenated
  <2>2. j + (n - j + 1) = n + 1
    BY <1>1
  <2>. QED
    BY <1>2, <1>4, <2>1, <2>2
<1>6. \A k \in 1 .. n + 1 : (c \o b)[k] = IF k <= j THEN c[k] ELSE b[k - j]
  BY <1>1, <1>2, <1>4
<1>7. ASSUME NEW k \in 1 .. n + 1, k > j PROVE (c \o b)[k] = s[k - 1]
  <2>1. k - j \in 1 .. n - j + 1 /\ k - j + j - 1 = k - 1 /\ ~(k <= j)
    BY <1>1, <1>7
  <2>2. (c \o b)[k] = b[k - j]
    BY <1>6, <2>1
  <2>. QED
    BY <1>2, <2>1, <2>2
<1>8. \A k \in 1 .. n + 1 : (c \o b)[k] = IF k < j THEN s[k] ELSE IF k = j THEN e ELSE s[k - 1]
  <2>. TAKE k \in 1 .. n + 1
  <2>1. CASE k < j
    <3>1. k \in 1 .. j - 1 /\ k <= j
      BY <1>1, <2>1
    <3>. QED
      BY <1>4, <1>6, <2>1, <3>1
  <2>2. CASE k = j
    <3>1. (c \o b)[k] = c[k] /\ c[k] = e /\ ~(k < j)
      BY <1>4, <1>6, <2>2
    <3>. QED
      BY <2>2, <3>1
  <2>3. CASE k > j
    <3>1. ~(k < j) /\ k # j
      BY <1>1, <2>3
    <3>2. (c \o b)[k] = s[k - 1]
      BY <1>7, <2>3
    <3>. QED
      BY <3>1, <3>2
  <2>4. k < j \/ k = j \/ k > j
    BY <1>1
  <2>. QED
    BY <2>1, <2>2, <2>3, <2>4
<1>. QED
  BY <1>1, <1>3, <1>5, <1>8 DEF Puts

\* Taking out what was put in.
LEMMA MovedIsRemoved ==
    ASSUME NEW T, NEW s \in Seq(T), NEW i \in DOMAIN s, NEW j \in DOMAIN s
    PROVE  LET moved == InsertAt(RemoveAt(s, i), j, s[i])
           IN  /\ moved \in Seq(T) /\ Len(moved) = Len(s) /\ moved[j] = s[i]
               /\ RemoveAt(moved, j) = RemoveAt(s, i)
               /\ \A k \in DOMAIN moved : k # j => \E m \in DOMAIN s : m # i /\ moved[k] = s[m]
<1>. DEFINE r == RemoveAt(s, i)  moved == InsertAt(r, j, s[i])  back == RemoveAt(moved, j)
<1>1. PICK n \in Nat : n = Len(s) /\ DOMAIN s = 1 .. n /\ i \in 1 .. n /\ j \in 1 .. n
  OBVIOUS
<1>2. /\ r \in Seq(T) /\ Len(r) = n - 1
      /\ \A k \in 1 .. n - 1 : r[k] = IF k < i THEN s[k] ELSE s[k + 1]
  BY <1>1, Removed
<1>3. s[i] \in T
  OBVIOUS
<1>. HIDE DEF r
<1>4. /\ moved \in Seq(T) /\ Len(moved) = n
      /\ \A k \in 1 .. n : moved[k] = IF k < j THEN r[k] ELSE IF k = j THEN s[i] ELSE r[k - 1]
  <2>1. j \in 1 .. Len(r) + 1 /\ Len(r) + 1 = n
    BY <1>1, <1>2
  <2>2. r \in Seq(T)
    BY <1>2
  <2>3. PICK e \in T : e = s[i]
    BY <1>3
  <2>4. moved \in Seq(T) /\ Puts(moved, r, j, s[i])
    BY <2>1, <2>2, <2>3, Inserted
  <2>. QED
    BY <2>1, <2>4 DEF Puts
<1>. HIDE DEF moved
<1>5. /\ back \in Seq(T) /\ Len(back) = n - 1
      /\ \A k \in 1 .. n - 1 : back[k] = IF k < j THEN moved[k] ELSE moved[k + 1]
  <2>1. moved \in Seq(T) /\ j \in 1 .. Len(moved)
    BY <1>1, <1>4
  <2>2. /\ back \in Seq(T) /\ Len(back) = Len(moved) - 1
        /\ \A k \in 1 .. Len(moved) - 1 : back[k] = IF k < j THEN moved[k] ELSE moved[k + 1]
    BY <2>1, Removed
  <2>. QED
    BY <1>4, <2>2
<1>. HIDE DEF back
<1>6. \A k \in 1 .. n - 1 : back[k] = r[k]
  <2>. TAKE k \in 1 .. n - 1
  <2>1. k \in 1 .. n /\ k + 1 \in 1 .. n /\ (k + 1) - 1 = k
    BY <1>1
  <2>2. CASE k < j
    BY <1>4, <1>5, <2>1, <2>2
  <2>3. CASE ~(k < j)
    <3>1. k + 1 > j
      BY <1>1, <2>3
    <3>2. moved[k + 1] = r[(k + 1) - 1]
      BY <1>4, <2>1, <3>1
    <3>. QED
      BY <1>5, <2>1, <2>3, <3>2
  <2>. QED
    BY <2>2, <2>3
<1>7. back = r
  <2>1. n - 1 \in Nat
    BY <1>1
  <2>. QED
    BY <1>2, <1>5, <1>6, <2>1, SameSequence
<1>8. \A k \in 1 .. n : k # j => \E m \in 1 .. n : m # i /\ moved[k] = s[m]
  <2>. SUFFICES ASSUME NEW k \in 1 .. n, k # j PROVE \E m \in 1 .. n : m # i /\ moved[k] = s[m]
    OBVIOUS
  <2>1. PICK l \in 1 .. n - 1 : moved[k] = r[l]
    <3>1. CASE k < j
      <4>1. k \in 1 .. n - 1
        BY <1>1, <3>1
      <4>. QED
        BY <1>4, <3>1, <4>1
    <3>2. CASE k > j
      <4>1. k - 1 \in 1 .. n - 1
        BY <1>1, <3>2
      <4>. QED
        BY <1>4, <3>2, <4>1
    <3>. QED
      BY <1>1, <3>1, <3>2
  <2>2. CASE l < i
    <3>1. l \in 1 .. n /\ l # i
      BY <1>1, <2>2
    <3>. QED
      BY <1>2, <2>1, <2>2, <3>1
  <2>3. CASE ~(l < i)
    <3>1. l + 1 \in 1 .. n /\ l + 1 # i
      BY <1>1, <2>3
    <3>. QED
      BY <1>2, <2>1, <2>3, <3>1
  <2>. QED
    BY <2>2, <2>3
<1>9. DOMAIN moved = 1 .. n
  BY <1>4
<1>10. moved[j] = s[i]
  BY <1>1, <1>4
<1>. QED
  BY <1>1, <1>4, <1>7, <1>8, <1>9, <1>10 DEF back, moved, r

\* The settings depend on what the OUTPUT line says and on the other lines.
LEMMA OutputMayMove ==
    ASSUME NEW T, NEW lines \in Seq(T), NEW i \in DOMAIN lines, NEW j \in DOMAIN lines,
           \A k \in DOMAIN lines : IsOutput(lines[k]) <=> k = i
    PROVE  Settings(InsertAt(RemoveAt(lines, i), j, lines[i])) = Settings(lines)
<1>. DEFINE moved == InsertAt(RemoveAt(lines, i), j, lines[i])
<1>1. /\ moved \in Seq(T) /\ Len(moved) = Len(lines) /\ moved[j] = lines[i]
      /\ RemoveAt(moved, j) = RemoveAt(lines, i)
      /\ \A k \in DOMAIN moved : k # j => \E m \in DOMAIN lines : m # i /\ moved[k] = lines[m]
  BY MovedIsRemoved
<1>2. i \in Nat /\ j \in Nat /\ DOMAIN moved = DOMAIN lines
  <2>1. PICK n \in Nat : n = Len(lines) /\ DOMAIN lines = 1 .. n
    OBVIOUS
  <2>2. DOMAIN moved = 1 .. Len(moved)
    BY <1>1
  <2>. QED
    BY <1>1, <2>1, <2>2
<1>. HIDE DEF moved
<1>3. \A k \in DOMAIN moved : IsOutput(moved[k]) <=> k = j
  BY <1>1, <1>2
<1>4. ASSUME NEW s, NEW f \in DOMAIN s, f \in Nat, \A k \in DOMAIN s : IsOutput(s[k]) <=> k = f
      PROVE  /\ WithoutOutput(s) = RemoveAt(s, f)
             /\ FirstWhere(s, IsOutput, [file |-> NoFile]) = s[f]
  <2>1. {k \in DOMAIN s : IsOutput(s[k])} = {f}
    BY <1>4
  <2>2. Min({f}) = f
    <3>1. {f} \in SUBSET Nat /\ {f} # {}
      BY <1>4
    <3>2. Min({f}) \in {f}
      BY <3>1, LeastOf
    <3>. QED
      BY <3>2
  <2>. QED
    BY <2>1, <2>2 DEF WithoutOutput, FirstWhere
<1>5. WithoutOutput(moved) = WithoutOutput(lines)
  BY <1>1, <1>2, <1>3, <1>4
<1>6. FirstWhere(moved, IsOutput, [file |-> NoFile]) = FirstWhere(lines, IsOutput, [file |-> NoFile])
  BY <1>1, <1>2, <1>3, <1>4
<1>7. Settings(moved) = Settings(lines)
  BY <1>5, <1>6, Zenon DEF Settings
<1>. QED
  BY <1>7 DEF moved

-----------------------------------------------------------------------------

LEMMA OneLanguage ==
    ASSUME NEW k \in 1 .. 3, NEW l \in 1 .. 3, Extension(Languages[k]) = Extension(Languages[l])
    PROVE  k = l
BY DEF Extension, Languages

\* The language of a file that has one is that of its extension.
LEMMA LanguageIs ==
    ASSUME NEW k \in 1 .. 3
    PROVE  Knows(Extension(Languages[k])) /\ LanguageOf(Extension(Languages[k])) = Languages[k]
<1>1. DOMAIN Languages = 1 .. 3
  BY DEF Languages
<1>2. Knows(Extension(Languages[k]))
  BY <1>1 DEF Knows
<1>3. (CHOOSE l \in 1 .. 3 : Extension(Languages[l]) = Extension(Languages[k])) = k
  BY OneLanguage
<1>. QED
  BY <1>1, <1>2, <1>3 DEF LanguageOf

\* Files of a directory that are all of one language, the number k.
LEMMA DominantLanguage ==
    ASSUME NEW sub, IsFiniteSet(sub.below), NEW f \in sub.below, NEW k \in 1 .. 3, f.ext = Extension(Languages[k]),
           \A g \in sub.below : Knows(g.ext) => g.ext = f.ext
    PROVE  InferLanguage(sub) = Languages[k]
<1>. DEFINE Of(l) == {g \in sub.below : g.ext = Extension(Languages[l])}
            Count(l) == Cardinality(Of(l))
            counts == {Count(l) : l \in DOMAIN Languages}
<1>1. DOMAIN Languages = 1 .. 3
  BY DEF Languages
<1>2. \A l \in 1 .. 3 : l # k => Of(l) = {}
  <2>. SUFFICES ASSUME NEW l \in 1 .. 3, NEW g \in sub.below, g.ext = Extension(Languages[l]) PROVE l = k
    OBVIOUS
  <2>1. Knows(g.ext)
    BY LanguageIs
  <2>. QED
    BY <2>1, OneLanguage
<1>3. \A l \in 1 .. 3 : l # k => Count(l) = 0
  BY <1>2, FS_EmptySet
<1>4. Count(k) \in Nat /\ Count(k) # 0
  <2>1. IsFiniteSet(Of(k)) /\ f \in Of(k)
    BY FS_Subset
  <2>2. Count(k) \in Nat
    BY <2>1, FS_CardinalityType
  <2>3. Count(k) = 0 => Of(k) = {}
    BY <2>1, FS_EmptySet
  <2>. QED
    BY <2>1, <2>2, <2>3
<1>. HIDE DEF Of
<1>5. Max(counts) = Count(k)
  <2>1. Count(k) \in counts /\ counts \subseteq {Count(k), 0}
    BY <1>1, <1>3
  <2>. HIDE DEF counts, Count
  <2>2. \A c \in counts : Count(k) >= c
    BY <1>4, <2>1
  <2>3. \A c \in counts : (\A d \in counts : c >= d) => c = Count(k)
    BY <1>4, <2>1, <2>2
  <2>. QED
    BY <2>1, <2>2, <2>3 DEF Max
<1>6. {l \in DOMAIN Languages : Count(l) = Max(counts)} = {k}
  BY <1>1, <1>3, <1>4, <1>5
<1>7. Max({k}) = k
  BY DEF Max
<1>8. InferLanguage(sub) = Languages[Max({l \in DOMAIN Languages : Count(l) = Max(counts)})]
  BY DEF InferLanguage, Of
<1>. QED
  BY <1>6, <1>7, <1>8

\* The files of the settings are a sequence.
LEMMA FilesAreListed ==
    ASSUME NEW T, NEW sub, sub.lines \in Seq(T), sub.listing \in Seq(T)
    PROVE  DOMAIN ParseConfig(sub).files \subseteq Nat
<1>1. CASE ~sub.config
  <2>1. ParseConfig(sub).files = sub.listing
    BY <1>1 DEF ParseConfig
  <2>. QED
    BY <2>1
<1>2. CASE sub.config
  <2>. DEFINE rest == WithoutOutput(sub.lines)
              hasArgs == rest # <<>> /\ Last(rest).is = "args"
              named == IF hasArgs THEN Front(rest) ELSE rest
              names == [i \in DOMAIN named |-> AsFile(rest[i])]
              hasEntry == names # <<>> /\ IsEntry(Head(names))
              files == IF hasEntry THEN Tail(names) ELSE names
  <2>1. rest \in Seq(T)
    <3>. DEFINE found == {i \in DOMAIN sub.lines : IsOutput(sub.lines[i])}
    <3>1. CASE found = {}
      BY <3>1 DEF WithoutOutput
    <3>2. CASE found # {}
      <4>1. found \in SUBSET Nat
        OBVIOUS
      <4>2. Min(found) \in 1 .. Len(sub.lines)
        <5>1. Min(found) \in found
          BY <3>2, <4>1, LeastOf
        <5>. QED
          BY <5>1
      <4>3. RemoveAt(sub.lines, Min(found)) \in Seq(T)
        BY <4>2, Removed
      <4>. QED
        BY <3>2, <4>3 DEF WithoutOutput
    <3>. QED
      BY <3>1, <3>2
  <2>. HIDE DEF rest
  <2>2. PICK n \in Nat : DOMAIN named = 1 .. n
    <3>1. Front(rest) = SubSeq(rest, 1, Len(rest) - 1)
      BY DEF Front
    <3>2. rest # <<>> => DOMAIN Front(rest) = 1 .. Len(rest) - 1 /\ Len(rest) - 1 \in Nat
      BY <2>1, <3>1
    <3>. QED
      BY <2>1, <3>2
  <2>. HIDE DEF named
  <2>3. PICK S : names \in Seq(S)
    <3>. DEFINE S == {AsFile(rest[i]) : i \in 1 .. n}
    <3>1. \A i \in 1 .. n : AsFile(rest[i]) \in S
      OBVIOUS
    <3>. HIDE DEF S
    <3>2. [i \in 1 .. n |-> AsFile(rest[i])] \in Seq(S)
      BY <3>1
    <3>. QED
      BY <2>2, <3>2
  <2>. HIDE DEF names
  <2>4. DOMAIN files \subseteq Nat
    <3>1. DOMAIN names \subseteq Nat
      BY <2>3
    <3>2. names # <<>> => DOMAIN Tail(names) \subseteq Nat
      BY <2>3, HeadAndTail
    <3>. QED
      BY <3>1, <3>2
  <2>5. ParseConfig(sub).files = files
    BY <1>2 DEF ParseConfig, Settings, names, named, rest
  <2>. QED
    BY <2>4, <2>5
<1>. QED
  BY <1>1, <1>2

\* A submission is what the constants say.
LEMMA SubTypes ==
    ASSUME session \in DOMAIN Sessions
    PROVE  /\ IsFiniteSet(Sub.below)
           /\ \E T : Sub.lines \in Seq(T) /\ Sub.listing \in Seq(T)
<1>1. IsFiniteSet(Sub.below) /\ Sub.lines \in Seq(Range(Sub.lines)) /\ Sub.listing \in Seq(Range(Sub.listing))
  BY SubmissionsAssumption DEF Sub
<1>. DEFINE T == Range(Sub.lines) \cup Range(Sub.listing)
<1>2. Range(Sub.lines) \subseteq T /\ Range(Sub.listing) \subseteq T
  OBVIOUS
<1>. HIDE DEF T
<1>3. Sub.lines \in Seq(T) /\ Sub.listing \in Seq(T)
  BY <1>1, <1>2
<1>. QED
  BY <1>1, <1>3

LEMMA FirstKnown ==
    ASSUME NEW s, DOMAIN s \subseteq Nat, \E f \in Range(s) : Knows(f.ext)
    PROVE  LET f == FirstWhere(s, LAMBDA g : Knows(g.ext), NoFile) IN f \in Range(s) /\ Knows(f.ext)
<1>. DEFINE found == {i \in DOMAIN s : Knows(s[i].ext)}
<1>1. found \in SUBSET Nat /\ found # {}
  BY DEF Range
<1>2. Min(found) \in found
  <2>. HIDE DEF found
  <2>. QED
    BY <1>1, LeastOf
<1>3. FirstWhere(s, LAMBDA g : Knows(g.ext), NoFile) = s[Min(found)]
  BY <1>1 DEF FirstWhere
<1>. QED
  BY <1>2, <1>3 DEF Range

LEMMA BuiltAndRunAlike ==
    ASSUME session \in DOMAIN Sessions, Supported(Sub), ~Single(Sub), BuildSystem(Sub) = "none",
           Range(ParseConfig(Sub).files) \subseteq Sub.below,
           \A f, g \in {h \in Sub.below : Knows(h.ext)} : f.ext = g.ext
    PROVE  InferLanguage(Sub) = DetectLanguage(Sub)
<1>. DEFINE files == ParseConfig(Sub).files
            f == FirstWhere(files, LAMBDA g : Knows(g.ext), NoFile)
<1>1. DOMAIN files \subseteq Nat
  BY SubTypes, FilesAreListed
<1>2. \E g \in Range(files) : Knows(g.ext)
  BY DEF Supported
<1>3. f \in Range(files) /\ Knows(f.ext)
  <2>. HIDE DEF files
  <2>. QED
    BY <1>1, <1>2, FirstKnown
<1>4. DetectLanguage(Sub) = LanguageOf(f.ext)
  BY DEF DetectLanguage
<1>5. f \in Sub.below
  BY <1>3
<1>. HIDE DEF files, f
<1>6. \A g \in Sub.below : Knows(g.ext) => g.ext = f.ext
  BY <1>3, <1>5
<1>7. PICK k \in 1 .. 3 : f.ext = Extension(Languages[k])
  <2>1. DOMAIN Languages = 1 .. 3
    BY DEF Languages
  <2>. QED
    BY <1>3, <2>1 DEF Knows
<1>8. InferLanguage(Sub) = Languages[k]
  BY <1>5, <1>6, <1>7, SubTypes, DominantLanguage
<1>. QED
  BY <1>4, <1>7, <1>8, LanguageIs

\* Every submission is built, run and cleaned up as what it is.
THEOREM SubmissionsAreRun == SessionSpec => []SubmissionIsRun
<1>1. SessionInit => Cleaned /\ session \in DOMAIN Sessions
  BY DEF SessionInit, Cleaned
<1>2. Cleaned /\ [SessionNext]_vars => Cleaned'
  BY StepsClean
<1>3. session \in DOMAIN Sessions /\ [SessionNext]_vars => (session \in DOMAIN Sessions)'
  BY DEF SessionNext, SessionSteps, Run, StartProfile, RunInContainer, BuildEnds, RunEnds, CleanEnds, SaveReport,
         StrayEnds, vars, sessionVars
<1>4. Cleaned /\ session \in DOMAIN Sessions => SubmissionIsRun
  <2>. SUFFICES ASSUME Cleaned, session \in DOMAIN Sessions PROVE SubmissionIsRun
    OBVIOUS
  <2>1. BuildIsCleaned
    BY DEF Cleaned, BuildIsCleaned
  <2>2. OutputAnywhere
    <3>1. PICK T : Sub.lines \in Seq(T)
      BY SubTypes
    <3>2. ASSUME NEW i \in DOMAIN Sub.lines, NEW j \in DOMAIN Sub.lines,
                 \A k \in DOMAIN Sub.lines : IsOutput(Sub.lines[k]) <=> k = i
          PROVE  Settings(InsertAt(RemoveAt(Sub.lines, i), j, Sub.lines[i])) = Settings(Sub.lines)
      BY <3>1, <3>2, OutputMayMove
    <3>. QED
      BY <3>2 DEF OutputAnywhere
  <2>3. RunsWhereBuilt
    BY BuiltAndRunAlike DEF Cleaned, RunsWhereBuilt
  <2>. QED
    BY <2>1, <2>2, <2>3 DEF SubmissionIsRun
<1>. QED
  BY <1>1, <1>2, <1>3, <1>4, PTL DEF SessionSpec

=============================================================================
