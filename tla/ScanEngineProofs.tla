-------------------------- MODULE ScanEngineProofs --------------------------
(***************************************************************************)
(* Proofs about a command of the security toolkit, for every set of        *)
(* commands, targets and outputs: whatever order its scanners run in, they *)
(* leave nothing behind, the engine treats them as PluginRuns says, and    *)
(* the command is done as it was given.                                    *)
(***************************************************************************)
EXTENDS ScanEngine, FiniteSetTheorems, TLAPS

RunTypeOK ==
    /\ at \in [Plugins -> Places]
    /\ nets \subseteq Plugins /\ containers \subseteq Plugins /\ temps \subseteq Plugins

InSandbox == {"container", "wait", "dump", "stop", "unnet"}

OwnsContainer == {"wait", "dump", "stop", "port", "unstart", "up", "measure"}

(***************************************************************************)
(* The strengthening: what a scanner that nothing hindered may have is     *)
(* told by where it is; only memory forensics is in the sandbox, and only  *)
(* a scanner that runs a tool has a file.                                  *)
(***************************************************************************)
Held(p) ==
    /\ at[p] \in {"network", "container", "wait", "dump", "unnet"} => p = Memory
    /\ p \in nets => p = Memory
    /\ p \notin hindered =>
          /\ p \in nets => at[p] \in InSandbox
          /\ p \in containers => at[p] \in OwnsContainer
          /\ p \in temps => at[p] = "tool"

RunInv == RunTypeOK /\ \A p \in Plugins : Held(p)

LEMMA Starts == RunInit => RunInv
  BY DEF RunInit, RunInv, RunTypeOK, Held, Places

\* One step per action: what the scanner itself holds, then what the others do.
LEMMA RunInvKept == RunInv /\ [RunNext]_runVars => RunInv'
<1> SUFFICES ASSUME RunInv, [RunNext]_runVars PROVE RunInv'
  OBVIOUS
<1>1. CASE UNCHANGED runVars
  BY <1>1 DEF runVars, RunInv, RunTypeOK, Held
<1>2. CASE RunNext
  <2>1. PICK p \in Plugins :
             \/ \E place \in Places : Begin(p, place)
             \/ FindingStep(p) \/ QuietStep(p) \/ Collected(p)
    BY <1>2 DEF RunNext
  <2> USE DEF RunInv, RunTypeOK, Held, Go, Hindered, Places, InSandbox, OwnsContainer
  <2>2. CASE \E place \in Places : Begin(p, place)
    <3>1. PICK place \in Places : Begin(p, place)
      BY <2>2
    <3>2. RunTypeOK' /\ Held(p)'
      BY <3>1 DEF Begin, FirstPlaces, Memory, Monitor, Secret
    <3>3. ASSUME NEW q \in Plugins, q # p PROVE Held(q)'
      BY <3>1, <3>3 DEF Begin
    <3> QED BY <3>2, <3>3
  <2>3. CASE FindingStep(p)
    <3>1. RunTypeOK' /\ Held(p)'
      BY <2>3 DEF FindingStep, ToolAnswers, Dump, CheckUrl, Measure
    <3>2. ASSUME NEW q \in Plugins, q # p PROVE Held(q)'
      BY <2>3, <3>2 DEF FindingStep, ToolAnswers, Dump, CheckUrl, Measure
    <3> QED BY <3>1, <3>2
  <2>4. CASE QuietStep(p)
    <3>1. CASE ToolIsOdd(p) \/ ToolFails(p)
      <4>1. RunTypeOK' /\ Held(p)'
        BY <3>1 DEF ToolIsOdd, ToolFails
      <4>2. ASSUME NEW q \in Plugins, q # p PROVE Held(q)'
        BY <3>1, <4>2 DEF ToolIsOdd, ToolFails
      <4> QED BY <4>1, <4>2
    <3>2. CASE CreateNetwork(p)
      <4>1. RunTypeOK' /\ Held(p)'
        BY <3>2 DEF CreateNetwork
      <4>2. ASSUME NEW q \in Plugins, q # p PROVE Held(q)'
        BY <3>2, <4>2 DEF CreateNetwork
      <4> QED BY <4>1, <4>2
    <3>3. CASE RunSandboxed(p)
      <4>1. RunTypeOK' /\ Held(p)'
        BY <3>3 DEF RunSandboxed
      <4>2. ASSUME NEW q \in Plugins, q # p PROVE Held(q)'
        BY <3>3, <4>2 DEF RunSandboxed
      <4> QED BY <4>1, <4>2
    <3>4. CASE StopContainer(p)
      <4>1. RunTypeOK' /\ Held(p)'
        BY <3>4 DEF StopContainer, AfterStop
      <4>2. ASSUME NEW q \in Plugins, q # p PROVE Held(q)'
        BY <3>4, <4>2 DEF StopContainer, AfterStop
      <4> QED BY <4>1, <4>2
    <3>5. CASE RemoveNetwork(p)
      <4>1. RunTypeOK' /\ Held(p)'
        BY <3>5 DEF RemoveNetwork
      <4>2. ASSUME NEW q \in Plugins, q # p PROVE Held(q)'
        BY <3>5, <4>2 DEF RemoveNetwork
      <4> QED BY <4>1, <4>2
    <3>6. CASE StartService(p) \/ AskPort(p) \/ Unstart(p)
      <4>1. RunTypeOK' /\ Held(p)'
        BY <3>6 DEF StartService, AskPort, Unstart
      <4>2. ASSUME NEW q \in Plugins, q # p PROVE Held(q)'
        BY <3>6, <4>2 DEF StartService, AskPort, Unstart
      <4> QED BY <4>1, <4>2
    <3>7. CASE WaitForContainer(p) \/ WaitForHealth(p)
      <4>1. RunTypeOK' /\ Held(p)'
        BY <3>7 DEF WaitForContainer, WaitForHealth
      <4>2. ASSUME NEW q \in Plugins, q # p PROVE Held(q)'
        BY <3>7, <4>2 DEF WaitForContainer, WaitForHealth
      <4> QED BY <4>1, <4>2
    <3> QED
      BY <2>4, <3>1, <3>2, <3>3, <3>4, <3>5, <3>6, <3>7 DEF QuietStep
  <2>5. CASE Collected(p)
    <3>1. RunTypeOK' /\ Held(p)'
      BY <2>5 DEF Collected
    <3>2. ASSUME NEW q \in Plugins, q # p PROVE Held(q)'
      BY <2>5, <3>2 DEF Collected
    <3> QED BY <3>1, <3>2
  <2> QED
    BY <2>1, <2>2, <2>3, <2>4, <2>5
<1> QED
  BY <1>1, <1>2

LEMMA EndedHoldsNothing == RunInv => NothingLeftBehind
  BY DEF RunInv, RunTypeOK, Held, NothingLeftBehind, Ended, LeftBehind, InSandbox, OwnsContainer

(***************************************************************************)
(* For any set of scanners: one that ended and was not hindered left       *)
(* nothing behind (the finally blocks of memory.py:200-204 and             *)
(* resource_monitor.py:106-108, gitleaks.py:203-204).                      *)
(***************************************************************************)
THEOREM ScannersLeaveNothing == RunSpec => []NothingLeftBehind
<1>1. RunInit => RunInv
  BY Starts
<1>2. RunInv /\ [RunNext]_runVars => RunInv'
  BY RunInvKept
<1>3. RunInv => NothingLeftBehind
  BY EndedHoldsNothing
<1> QED
  BY <1>1, <1>2, <1>3, PTL DEF RunSpec

-----------------------------------------------------------------------------

LEMMA PluginsOfTheRegistry == {Registry[i] : i \in DOMAIN Registry} = Plugins
BY PluginsAreRegistered DEF ToSet

LEMMA SelectedAreRegistered == Selected \subseteq Plugins
BY PluginsOfTheRegistry DEF Selected, SelectPlugins

QueueOK == queue \subseteq Plugins

LEMMA QueueIsKept == QueueOK /\ [EngineNext]_vars => QueueOK'
<1>. SUFFICES ASSUME QueueOK, [EngineNext]_vars PROVE QueueOK'
  OBVIOUS
<1>1. CASE RunEngine
  <2>1. queue' = queue \/ queue' = Selected
    BY <1>1 DEF RunEngine
  <2>. QED
    BY <2>1, SelectedAreRegistered DEF QueueOK
<1>2. CASE TakeWork
  BY <1>2 DEF TakeWork, QueueOK
<1>3. CASE ParseArgs \/ ProfileStage \/ EngineEnds \/ MakeReport \/ WriteAndExit
  BY <1>3 DEF ParseArgs, ProfileStage, EngineEnds, MakeReport, WriteAndExit, QueueOK
<1>4. CASE \E p \in Plugins : ScannerStep(p) \/ Collect(p)
  BY <1>4 DEF ScannerStep, Collect, QueueOK
<1>5. CASE UNCHANGED vars
  BY <1>5 DEF vars, engineVars, QueueOK
<1>. QED
  BY <1>1, <1>2, <1>3, <1>4, <1>5 DEF EngineNext, MainSteps

\* A step of the engine is a step of the scanners or none.
LEMMA EngineMovesScanners == QueueOK /\ [EngineNext]_vars => [RunNext]_runVars
<1>. SUFFICES ASSUME QueueOK, [EngineNext]_vars PROVE [RunNext]_runVars
  OBVIOUS
<1>1. CASE TakeWork
  <2>1. PICK p \in queue : Begin(p, FirstPlace(p))
    BY <1>1 DEF TakeWork
  <2>2. FirstPlace(p) \in Places
    BY <2>1 DEF Begin, FirstPlaces, Places
  <2>. QED
    BY <2>1, <2>2 DEF QueueOK, RunNext
<1>2. CASE \E p \in Plugins : ScannerStep(p)
  BY <1>2 DEF ScannerStep, FindingStep, RunNext
<1>3. CASE \E p \in Plugins : Collect(p)
  BY <1>3 DEF Collect, RunNext
<1>4. CASE ParseArgs \/ ProfileStage \/ RunEngine \/ EngineEnds \/ MakeReport \/ WriteAndExit \/ UNCHANGED vars
  BY <1>4 DEF ParseArgs, ProfileStage, RunEngine, EngineEnds, MakeReport, WriteAndExit, vars
<1>. QED
  BY <1>1, <1>2, <1>3, <1>4 DEF EngineNext, MainSteps

\* What PluginRuns proves of its scanners holds of the engine's.
LEMMA EngineRunsScanners == EngineSpec => RunSpec
<1>1. EngineInit => RunInit /\ QueueOK
  BY DEF EngineInit, QueueOK
<1>2. QueueOK /\ [EngineNext]_vars => QueueOK'
  BY QueueIsKept
<1>3. QueueOK /\ [EngineNext]_vars => [RunNext]_runVars
  BY EngineMovesScanners
<1>. QED
  BY <1>1, <1>2, <1>3, PTL DEF EngineSpec, RunSpec

(***************************************************************************)
(* No command leaves anything of a scanner that nothing hindered.          *)
(***************************************************************************)
THEOREM CommandsLeaveNothing == EngineSpec => []NothingLeftBehind
BY EngineRunsScanners, ScannersLeaveNothing, PTL

-----------------------------------------------------------------------------

\* Where a scanner has to do with containers.
DockerPlaces == {"network", "container", "wait", "dump", "stop", "unnet", "start", "port", "unstart", "up", "measure"}

\* Only a command that names an image profiles one, and only a profile of one leads to docker.
Imaged ==
    /\ Memory \in queue => C.image # None
    /\ phase \in {"select", "scan"} => profile.image \in {C.image, None}
    /\ \A p \in Plugins : at[p] \in DockerPlaces => C.image # None
    /\ nets \cup containers # {} => C.image # None

LEMMA ProfilesOfTheImage ==
    ASSUME NEW stage, NEW prof \in StageProfile(C, C.world, stage)
    PROVE  prof.image \in {C.image, None}
<1>1. SourceProfile(C.world.dir).image = None
  BY DEF SourceProfile
<1>2. ASSUME NEW image, NEW url, NEW ports PROVE RuntimeProfile(image, url, ports).image = image
  BY DEF RuntimeProfile
<1>3. ASSUME NEW w, NEW target, NEW image, NEW pid, NEW url, NEW q \in ProfileTarget(w, target, image, pid, url)
      PROVE  \/ q = SourceProfile(w.dir)
             \/ \E ports : q = RuntimeProfile(image, url, ports) \/ q = RuntimeProfile(None, url, ports)
             \/ q = RuntimeProfile(None, None, {})
  <2>. DEFINE args == {a[1] : a \in {b \in {<<"target", target>>, <<"image", image>>, <<"pid", pid>>, <<"url", url>>} : b[2] # None}}
  <2>1. ProfileTarget(w, target, image, pid, url) =
          CASE args = {"target"} -> IF w.dir.exists THEN {SourceProfile(w.dir)} ELSE {}
            [] args \in {{"image"}, {"image", "url"}} -> {RuntimeProfile(image, url, ports) : ports \in {w.ports, {}}}
            [] args = {"url"} -> {RuntimeProfile(None, url, {PortFromUrl(w.address)})}
            [] args = {"pid"} -> {RuntimeProfile(None, None, {})}
            [] OTHER -> {}
    BY DEF ProfileTarget
  <2>. HIDE DEF args
  <2>. QED
    BY <2>1
<1>4. CASE stage = "source"
  <2>1. prof \in ProfileTarget(C.world, C.target, None, None, None)
    BY <1>4 DEF StageProfile
  <2>. QED
    BY <1>1, <1>2, <1>3, <2>1
<1>5. CASE stage # "source"
  <2>1. prof \in ProfileTarget(C.world, None, C.image, IF C.cmd = "full" THEN None ELSE C.pid, C.url)
    BY <1>5 DEF StageProfile
  <2>. QED
    BY <1>1, <1>2, <1>3, <2>1
<1>. QED
  BY <1>4, <1>5

LEMMA ImagedIsKept == RunTypeOK /\ QueueOK /\ Imaged /\ [EngineNext]_vars => Imaged'
<1>. SUFFICES ASSUME RunTypeOK, QueueOK, Imaged, [EngineNext]_vars PROVE Imaged'
  OBVIOUS
<1>. USE DEF runVars, engineVars
<1>1. command' = command /\ C' = C
  BY DEF EngineNext, MainSteps, ParseArgs, ProfileStage, RunEngine, TakeWork, EngineEnds, MakeReport, WriteAndExit,
         ScannerStep, Collect, C, vars
<1>2. CASE ProfileStage
  <2>1. UNCHANGED <<queue, at, nets, containers>>
    BY <1>2 DEF ProfileStage
  <2>2. phase' \in {"select", "scan"} => profile' \in StageProfile(C, C.world, Head(stages))
    BY <1>2 DEF ProfileStage, Exit
  <2>3. phase' \in {"select", "scan"} => profile'.image \in {C.image, None}
    BY <2>2, ProfilesOfTheImage
  <2>. QED
    BY <1>1, <2>1, <2>3 DEF Imaged
<1>3. CASE RunEngine
  <2>1. phase = "select" /\ UNCHANGED <<profile, at, nets, containers>> /\ (queue' = queue \/ queue' = Selected)
    BY <1>3 DEF RunEngine
  <2>2. Memory \in Selected => profile.image # None
    <3>1. Memory \in Selected => CanHandle(Memory, profile, C.world)
      BY DEF Selected, SelectPlugins
    <3>. QED
      BY <3>1 DEF CanHandle, Memory
  <2>. QED
    BY <1>1, <2>1, <2>2 DEF Imaged
<1>4. CASE TakeWork
  <2>1. PICK p \in queue : Begin(p, FirstPlace(p)) /\ queue' = queue \ {p}
    BY <1>4 DEF TakeWork
  <2>2. UNCHANGED <<phase, profile, nets, containers>> /\ phase = "scan"
    BY <1>4, <2>1 DEF TakeWork, Begin
  <2>3. FirstPlace(p) \in DockerPlaces => C.image # None
    <3>1. CASE p = Memory
      BY <2>1, <3>1 DEF Imaged
    <3>2. CASE p = Monitor
      <4>1. FirstPlace(p) \in DockerPlaces => profile.image # None
        BY <3>2 DEF FirstPlace, Monitor, DockerPlaces, None
      <4>. QED
        BY <2>2, <4>1 DEF Imaged
    <3>3. CASE p \notin {Memory, Monitor}
      BY <3>3 DEF FirstPlace, Memory, Monitor, DockerPlaces
    <3>. QED
      BY <3>1, <3>2, <3>3
  <2>4. ASSUME NEW q \in Plugins, at'[q] \in DockerPlaces PROVE C.image # None
    BY <2>1, <2>3, <2>4 DEF Imaged, Begin, Go, RunTypeOK
  <2>. QED
    BY <1>1, <2>1, <2>2, <2>4 DEF Imaged
<1>5. ASSUME NEW p \in Plugins, ScannerStep(p) PROVE Imaged'
  <2>1. UNCHANGED <<queue, phase, profile>>
    BY <1>5 DEF ScannerStep
  <2>2. CASE at[p] \in DockerPlaces
    BY <1>1, <2>1, <2>2 DEF Imaged
  <2>3. CASE at[p] \notin DockerPlaces
    <3>1. ToolAnswers(p) \/ ToolIsOdd(p) \/ ToolFails(p) \/ CheckUrl(p)
      BY <1>5, <2>3 DEF ScannerStep, FindingStep, QuietStep, Dump, Measure, CreateNetwork, RunSandboxed, WaitForContainer,
                        StopContainer, RemoveNetwork, StartService, AskPort, Unstart, WaitForHealth, DockerPlaces
    <3>2. UNCHANGED <<nets, containers>>
      BY <3>1 DEF ToolAnswers, ToolIsOdd, ToolFails, CheckUrl
    <3>3. \A q \in Plugins : at'[q] \in DockerPlaces => at[q] \in DockerPlaces
      BY <3>1 DEF ToolAnswers, ToolIsOdd, ToolFails, CheckUrl, Go, RunTypeOK, DockerPlaces
    <3>. QED
      BY <1>1, <2>1, <3>2, <3>3 DEF Imaged
  <2>. QED
    BY <2>2, <2>3
<1>6. ASSUME NEW p \in Plugins, Collect(p) PROVE Imaged'
  <2>1. UNCHANGED <<queue, phase, profile, nets, containers>>
    BY <1>6 DEF Collect, Collected
  <2>2. \A q \in Plugins : at'[q] \in DockerPlaces => at[q] \in DockerPlaces
    BY <1>6 DEF Collect, Collected, Go, RunTypeOK, DockerPlaces
  <2>. QED
    BY <1>1, <2>1, <2>2 DEF Imaged
<1>7. CASE ParseArgs \/ EngineEnds \/ MakeReport \/ WriteAndExit \/ UNCHANGED vars
  <2>1. UNCHANGED <<queue, at, nets, containers, profile>> /\ (phase' \in {"select", "scan"} => phase \in {"select", "scan"})
    BY <1>7 DEF ParseArgs, EngineEnds, MakeReport, WriteAndExit, Exit, vars
  <2>. QED
    BY <1>1, <2>1 DEF Imaged
<1>. QED
  BY <1>2, <1>3, <1>4, <1>5, <1>6, <1>7 DEF EngineNext, MainSteps


LEMMA Given == EngineInit => RunInit /\ QueueOK /\ Imaged /\ command \in DOMAIN Commands
  BY DEF EngineInit, QueueOK, Imaged, RunInit, DockerPlaces

\* The command and what was asked for with it stay as they are.
LEMMA CommandStays == [EngineNext]_vars => command' = command /\ C' = C
  BY DEF EngineNext, MainSteps, ParseArgs, ProfileStage, RunEngine, TakeWork, EngineEnds, MakeReport, WriteAndExit,
         ScannerStep, Collect, C, vars, engineVars

-----------------------------------------------------------------------------

LEMMA MaxWithZero == ASSUME NEW n \in Int PROVE Max({n, 0}) \in Nat /\ Max({n, 0}) >= n
<1>. DEFINE IsMax(x) == x \in {n, 0} /\ \A y \in {n, 0} : x >= y
<1>1. \E x : IsMax(x)
  <2>1. CASE n >= 0
    BY <2>1
  <2>2. CASE ~(n >= 0)
    BY <2>2
  <2>. QED
    BY <2>1, <2>2
<1>2. Max({n, 0}) = CHOOSE x : IsMax(x)
  BY DEF Max
<1>. HIDE DEF IsMax
<1>3. IsMax(Max({n, 0}))
  BY <1>1, <1>2
<1>. QED
  BY <1>3 DEF IsMax

LEMMA BusyIsFinite == IsFiniteSet(Busy)
<1>1. {Registry[i] : i \in DOMAIN Registry}
        = {Registry[1], Registry[2], Registry[3]} \cup {Registry[4], Registry[5], Registry[6]} \cup {Registry[7]}
  <2>1. DOMAIN Registry = 1 .. 7
    BY DEF Registry
  <2>2. 1 .. 7 = {1, 2, 3, 4, 5, 6, 7}
    OBVIOUS
  <2>. QED
    BY <2>1, <2>2
<1>2. ASSUME NEW a, NEW b, NEW c PROVE IsFiniteSet({a, b, c})
  <2>1. IsFiniteSet({a}) /\ IsFiniteSet({b}) /\ IsFiniteSet({c})
    BY FS_Singleton
  <2>2. IsFiniteSet({a} \cup {b})
    BY <2>1, FS_Union
  <2>3. IsFiniteSet(({a} \cup {b}) \cup {c})
    BY <2>1, <2>2, FS_Union
  <2>4. ({a} \cup {b}) \cup {c} = {a, b, c}
    OBVIOUS
  <2>. QED
    BY <2>3, <2>4
<1>3. IsFiniteSet({Registry[1], Registry[2], Registry[3]} \cup {Registry[4], Registry[5], Registry[6]})
  BY <1>2, FS_Union
<1>4. IsFiniteSet({Registry[i] : i \in DOMAIN Registry})
  <2>1. IsFiniteSet({Registry[7]})
    BY FS_Singleton
  <2>. DEFINE six == {Registry[1], Registry[2], Registry[3]} \cup {Registry[4], Registry[5], Registry[6]}
  <2>2. IsFiniteSet(six)
    BY <1>3
  <2>. HIDE DEF six
  <2>3. IsFiniteSet(six \cup {Registry[7]})
    BY <2>1, <2>2, FS_Union
  <2>. QED
    BY <1>1, <2>3 DEF six
<1>. QED
  BY <1>4, PluginsOfTheRegistry, FS_Subset DEF Busy

\* Only a worker that is free makes one more scanner busy.
LEMMA WorkersAreKept ==
    command \in DOMAIN Commands /\ RunTypeOK /\ QueueOK /\ WorkersAreEnough /\ [EngineNext]_vars => WorkersAreEnough'
<1>. SUFFICES ASSUME command \in DOMAIN Commands, RunTypeOK, QueueOK, WorkersAreEnough, [EngineNext]_vars
              PROVE  WorkersAreEnough'
  OBVIOUS
<1>1. C' = C
  BY CommandStays
<1>2. C.workers \in Int
  BY CommandsAreParsed DEF C
<1>3. Max({C.workers, 0}) \in Nat /\ Max({C.workers, 0}) >= C.workers
  BY <1>2, MaxWithZero
<1>4. Cardinality(Busy) \in Nat
  BY BusyIsFinite, FS_CardinalityType
<1>5. CASE TakeWork
  <2>1. PICK p \in queue : Begin(p, FirstPlace(p))
    BY <1>5 DEF TakeWork
  <2>2. Busy' \subseteq Busy \cup {p}
    BY <2>1 DEF Busy, Begin, Go, RunTypeOK
  <2>3. IsFiniteSet(Busy \cup {p}) /\ Cardinality(Busy \cup {p}) \in {Cardinality(Busy), Cardinality(Busy) + 1}
    BY BusyIsFinite, FS_AddElement
  <2>4. Cardinality(Busy') \in Nat /\ Cardinality(Busy') <= Cardinality(Busy \cup {p})
    BY <2>2, <2>3, FS_Subset, FS_CardinalityType
  <2>5. Cardinality(Busy) < C.workers
    BY <1>5 DEF TakeWork
  <2>6. Cardinality(Busy') <= Max({C.workers, 0})
    BY <1>2, <1>3, <1>4, <2>3, <2>4, <2>5
  <2>. QED
    BY <1>1, <2>6 DEF WorkersAreEnough
<1>6. ASSUME Busy' \subseteq Busy PROVE WorkersAreEnough'
  <2>1. Cardinality(Busy') \in Nat /\ Cardinality(Busy') <= Cardinality(Busy)
    BY <1>6, BusyIsFinite, FS_Subset, FS_CardinalityType
  <2>2. Cardinality(Busy') <= Max({C.workers, 0})
    BY <1>3, <1>4, <2>1 DEF WorkersAreEnough
  <2>. QED
    BY <1>1, <2>2 DEF WorkersAreEnough
<1>7. ASSUME NEW p \in Plugins, ScannerStep(p) PROVE WorkersAreEnough'
  <2>1. p \in Busy
    BY <1>7 DEF ScannerStep, FindingStep, QuietStep, ToolAnswers, ToolIsOdd, ToolFails, Dump, Measure, CheckUrl, CreateNetwork,
                RunSandboxed, WaitForContainer, StopContainer, RemoveNetwork, StartService, AskPort, Unstart,
                WaitForHealth, Busy
  <2>2. \E place : Go(p, place)
    BY <1>7 DEF ScannerStep, FindingStep, QuietStep, ToolAnswers, ToolIsOdd, ToolFails, Dump, Measure, CheckUrl, CreateNetwork,
                RunSandboxed, WaitForContainer, StopContainer, RemoveNetwork, StartService, AskPort, Unstart,
                WaitForHealth
  <2>3. Busy' \subseteq Busy
    BY <2>1, <2>2 DEF Busy, Go, RunTypeOK
  <2>. QED
    BY <1>6, <2>3
<1>8. ASSUME NEW p \in Plugins, Collect(p) PROVE WorkersAreEnough'
  <2>1. Busy' \subseteq Busy
    BY <1>8 DEF Collect, Collected, Go, Busy, RunTypeOK
  <2>. QED
    BY <1>6, <2>1
<1>9. CASE ParseArgs \/ ProfileStage \/ RunEngine \/ EngineEnds \/ MakeReport \/ WriteAndExit \/ UNCHANGED vars
  <2>1. at' = at
    BY <1>9 DEF ParseArgs, ProfileStage, RunEngine, EngineEnds, MakeReport, WriteAndExit, vars, runVars
  <2>. QED
    BY <1>6, <2>1 DEF Busy
<1>. QED
  BY <1>5, <1>7, <1>8, <1>9 DEF EngineNext, MainSteps

-----------------------------------------------------------------------------

\* Unless it was asked for by a name in .md, the JSON report's path ends in something else.
LEMMA TwoPaths ==
    ASSUME NEW out \in [dir : Seq(STRING), stem : STRING, suffix : STRING], NEW dirs, out.suffix # ".md"
    PROVE  LET json == JsonPath(out, dirs)
           IN  Written(json, dirs, "report", ".json") # Written(MdPath(json), dirs, "report", ".md")
<1>. DEFINE json == JsonPath(out, dirs)
            a == Written(json, dirs, "report", ".json")
            b == Written(MdPath(json), dirs, "report", ".md")
<1>1. json.suffix # ".md" /\ \E d, s, x : json = [dir |-> d, stem |-> s, suffix |-> x]
  <2>1. CASE Inside(out) \in dirs
    BY <2>1 DEF JsonPath, Path
  <2>2. CASE Inside(out) \notin dirs /\ out.suffix = ""
    BY <2>2 DEF JsonPath
  <2>3. CASE Inside(out) \notin dirs /\ out.suffix # ""
    BY <2>3 DEF JsonPath
  <2>. QED
    BY <2>1, <2>2, <2>3
<1>. HIDE DEF json
<1>2. a.suffix # ".md"
  BY <1>1 DEF Written, Path
<1>3. b.suffix = ".md"
  BY <1>1 DEF Written, Path, MdPath
<1>. QED
  BY <1>2, <1>3 DEF json

\* The one step that ends a command with another code than 2 writes the reports.
LEMMA ReportsAreWritten == command \in DOMAIN Commands /\ BothAreWritten /\ [EngineNext]_vars => BothAreWritten'
<1>. SUFFICES ASSUME command \in DOMAIN Commands, BothAreWritten, [EngineNext]_vars PROVE BothAreWritten'
  OBVIOUS
<1>1. C' = C
  BY CommandStays
<1>2. CASE WriteAndExit
  <2>. SUFFICES ASSUME C.output # <<>>, Head(C.output).suffix # ".md"
                PROVE  {files'[f] : f \in DOMAIN files'} = {"json", "md"}
    BY <1>1 DEF BothAreWritten
  <2>1. Head(C.output) \in [dir : Seq(STRING), stem : STRING, suffix : STRING]
    <3>1. C.output \in Seq([dir : Seq(STRING), stem : STRING, suffix : STRING])
      BY CommandsAreParsed DEF C
    <3>2. ASSUME NEW T, NEW q \in Seq(T), q # <<>> PROVE Head(q) \in T
      BY <3>2
    <3>. QED
      BY <3>1, <3>2
  <2>. DEFINE json == JsonPath(Head(C.output), C.world.dirs)
              a == Written(json, C.world.dirs, "report", ".json")
              b == Written(MdPath(json), C.world.dirs, "report", ".md")
  <2>2. a # b
    BY <2>1, TwoPaths
  <2>3. files' = [f \in {a, b} |-> IF f = b THEN "md" ELSE "json"]
    BY <1>2 DEF WriteAndExit
  <2>. HIDE DEF a, b
  <2>. QED
    BY <2>2, <2>3
<1>3. CASE ParseArgs \/ ProfileStage \/ RunEngine
  <2>1. phase' # "done" \/ code' = 2
    BY <1>3 DEF ParseArgs, ProfileStage, RunEngine, Exit
  <2>. QED
    BY <2>1 DEF BothAreWritten
<1>4. CASE TakeWork \/ EngineEnds \/ MakeReport \/ \E p \in Plugins : Collect(p)
  <2>1. phase' # "done"
    BY <1>4 DEF TakeWork, EngineEnds, MakeReport, Collect
  <2>. QED
    BY <2>1 DEF BothAreWritten
<1>5. CASE UNCHANGED vars \/ \E p \in Plugins : ScannerStep(p)
  <2>1. UNCHANGED <<phase, code, files>>
    BY <1>5 DEF vars, engineVars, ScannerStep
  <2>. QED
    BY <1>1, <2>1 DEF BothAreWritten
<1>. QED
  BY <1>2, <1>3, <1>4, <1>5 DEF EngineNext, MainSteps

(***************************************************************************)
(* Whatever is scanned, the command is done as it was given: docker is     *)
(* used for an image only, no more scanners run than there are workers,    *)
(* and both reports are written (cli.py:95-135, engine.py:108-111).        *)
(***************************************************************************)
THEOREM CommandsAreObeyed == EngineSpec => []CommandIsObeyed
<1>. DEFINE Inv == /\ command \in DOMAIN Commands /\ RunInv /\ QueueOK
                   /\ Imaged /\ WorkersAreEnough /\ BothAreWritten
<1>1. EngineInit => Inv
  <2>. SUFFICES ASSUME EngineInit PROVE Inv
    OBVIOUS
  <2>1. RunInv /\ QueueOK /\ Imaged /\ command \in DOMAIN Commands
    BY Given, Starts
  <2>2. WorkersAreEnough
    <3>1. Busy = {}
      BY DEF EngineInit, RunInit, Busy
    <3>2. C.workers \in Int
      BY <2>1, CommandsAreParsed DEF C
    <3>. QED
      BY <3>1, <3>2, MaxWithZero, FS_EmptySet DEF WorkersAreEnough
  <2>3. BothAreWritten
    BY DEF EngineInit, BothAreWritten
  <2>. QED
    BY <2>1, <2>2, <2>3
<1>2. Inv /\ [EngineNext]_vars => Inv'
  <2>. SUFFICES ASSUME Inv, [EngineNext]_vars PROVE Inv'
    OBVIOUS
  <2>1. command' = command /\ C' = C
    BY CommandStays
  <2>2. (command \in DOMAIN Commands)'
    BY <2>1
  <2>3. RunInv'
    BY EngineMovesScanners, RunInvKept
  <2>4. QueueOK'
    BY QueueIsKept
  <2>5. Imaged'
    BY ImagedIsKept DEF RunInv
  <2>6. WorkersAreEnough'
    BY WorkersAreKept DEF RunInv
  <2>7. BothAreWritten'
    BY ReportsAreWritten
  <2>. QED
    BY <2>2, <2>3, <2>4, <2>5, <2>6, <2>7
<1>3. Inv => CommandIsObeyed
  BY DEF Imaged, ContainersAreForImages, CommandIsObeyed
<1>. QED
  BY <1>1, <1>2, <1>3, PTL DEF EngineSpec

-----------------------------------------------------------------------------

\* Every set of numbers that is not empty has a least one.
LEMMA LeastNumber == ASSUME NEW S \in SUBSET Nat, S # {} PROVE \E n \in S : \A m \in S : n <= m
<1>. DEFINE Less == OpToRel(<, Nat)
<1>1. IsWellFoundedOn(Less, Nat)
  BY NatLessThanWellFounded
<1>2. \A m, n \in Nat : <<m, n>> \in Less <=> m < n
  BY DEF OpToRel
<1>. HIDE DEF Less
<1>3. PICK n \in S : \A m \in S : ~(<<m, n>> \in Less)
  BY <1>1, WFMin
<1>4. ASSUME NEW m \in S PROVE n <= m
  <2>1. m \in Nat /\ n \in Nat
    OBVIOUS
  <2>2. ~(m < n)
    BY <1>2, <1>3, <2>1
  <2>. QED
    BY <2>1, <2>2
<1>. QED
  BY <1>3, <1>4

LEMMA UptoHas == \A n \in Nat : IsFiniteSet(1 .. n) /\ Cardinality(1 .. n) = n
<1>. SUFFICES ASSUME NEW n \in Nat PROVE IsFiniteSet(1 .. n) /\ Cardinality(1 .. n) = n
  OBVIOUS
<1>1. IsFiniteSet(1 .. n) /\ Cardinality(1 .. n) = IF 1 > n THEN 0 ELSE n - 1 + 1
  BY FS_Interval
<1>2. (IF 1 > n THEN 0 ELSE n - 1 + 1) = n
  OBVIOUS
<1>. QED
  BY <1>1, <1>2

(***************************************************************************)
(* Places are numbered one to one: Nth and Rank are each other's inverse.  *)
(***************************************************************************)
LEMMA Ranks ==
    ASSUME NEW S \in SUBSET Nat, IsFiniteSet(S)
    PROVE  /\ Cardinality(S) \in Nat
           /\ \A i \in S : Rank(S, i) \in 1 .. Cardinality(S)
           /\ \A i, j \in S : Rank(S, i) = Rank(S, j) => i = j
           /\ \A k \in 1 .. Cardinality(S) : Nth(S, k) \in S /\ Rank(S, Nth(S, k)) = k
<1>1. Cardinality(S) \in Nat
  BY FS_CardinalityType
<1>. DEFINE Upto(i) == {j \in S : j <= i}
<1>2. \A i : IsFiniteSet(Upto(i)) /\ Cardinality(Upto(i)) \in Nat /\ Cardinality(Upto(i)) <= Cardinality(S)
  BY FS_Subset, FS_CardinalityType
<1>3. ASSUME NEW i \in S PROVE Rank(S, i) \in 1 .. Cardinality(S)
  <2>1. Upto(i) # {}
    OBVIOUS
  <2>2. Cardinality(Upto(i)) # 0
    BY <1>2, <2>1, FS_EmptySet
  <2>. QED
    BY <1>1, <1>2, <2>2 DEF Rank
<1>4. ASSUME NEW i \in S, NEW j \in S, i < j PROVE Rank(S, i) # Rank(S, j)
  <2>1. i \in Nat /\ j \in Nat
    OBVIOUS
  <2>2. \A m \in Upto(i) : m \in Nat /\ m <= j
    BY <1>4, <2>1
  <2>3. j \in Upto(j) /\ ~(j \in Upto(i))
    BY <1>4, <2>1
  <2>4. Upto(i) \in SUBSET Upto(j) /\ Upto(i) # Upto(j)
    BY <2>2, <2>3
  <2>5. Cardinality(Upto(i)) # Cardinality(Upto(j))
    BY <1>2, <2>4, FS_Subset
  <2>. QED
    BY <2>5 DEF Rank
<1>5. \A i, j \in S : Rank(S, i) = Rank(S, j) => i = j
  BY <1>4
<1>. DEFINE f == [i \in S |-> Rank(S, i)]
            N == 1 .. Cardinality(S)
<1>6. f \in Injection(S, N)
  BY <1>3, <1>5 DEF Injection, IsInjective
<1>7. IsFiniteSet(N) /\ Cardinality(N) = Cardinality(S)
  BY <1>1, FS_Interval
<1>8. f \in Surjection(S, N)
  BY <1>6, <1>7, FS_Injection
<1>9. \A k \in N : \E i \in S : Rank(S, i) = k
  BY <1>8 DEF Surjection
<1>10. \A k \in N : Nth(S, k) \in S /\ Rank(S, Nth(S, k)) = k
  BY <1>9 DEF Nth
<1>. QED
  BY <1>1, <1>3, <1>5, <1>10

\* What is taken of a sequence are its elements at the places asked for, each once.
LEMMA ThoseTaken ==
    ASSUME NEW T, NEW s \in Seq(T), NEW S \in SUBSET DOMAIN s
    PROVE  /\ Those(s, S) \in Seq(T)
           /\ DOMAIN Those(s, S) = 1 .. Cardinality(S) /\ Len(Those(s, S)) = Cardinality(S) /\ Cardinality(S) \in Nat
           /\ \A k \in DOMAIN Those(s, S) : Those(s, S)[k] = s[Nth(S, k)] /\ Nth(S, k) \in S
           /\ \A k, l \in DOMAIN Those(s, S) : Nth(S, k) = Nth(S, l) => k = l
           /\ ToSet(Those(s, S)) = {s[i] : i \in S}
<1>1. IsFiniteSet(DOMAIN s) /\ DOMAIN s \subseteq Nat /\ \A i \in DOMAIN s : s[i] \in T
  <2>1. PICK n \in Nat : n = Len(s)
    OBVIOUS
  <2>2. DOMAIN s = 1 .. n
    BY <2>1
  <2>. QED
    BY <2>2, FS_Interval
<1>2. IsFiniteSet(S) /\ S \in SUBSET Nat
  BY <1>1, FS_Subset
<1>3. PICK n \in Nat : n = Cardinality(S)
  BY <1>2, Ranks
<1>4. \A i \in S : Rank(S, i) \in 1 .. n
  BY <1>2, <1>3, Ranks
<1>5. \A k \in 1 .. n : Nth(S, k) \in S /\ Rank(S, Nth(S, k)) = k
  BY <1>2, <1>3, Ranks
<1>6. \A i, j \in S : Rank(S, i) = Rank(S, j) => i = j
  BY <1>2, Ranks
<1>. DEFINE q == Those(s, S)
<1>7. q = [k \in 1 .. n |-> s[Nth(S, k)]]
  BY <1>3 DEF Those
<1>8. \A k \in 1 .. n : s[Nth(S, k)] \in T
  BY <1>1, <1>5
<1>9. q \in Seq(T) /\ Len(q) = n /\ DOMAIN q = 1 .. n
  BY <1>7, <1>8
<1>10. ToSet(q) = {s[i] : i \in S}
  <2>1. ASSUME NEW i \in S PROVE \E k \in 1 .. n : s[Nth(S, k)] = s[i]
    <3>1. Nth(S, Rank(S, i)) = i
      BY <1>4, <1>5, <1>6
    <3>. QED
      BY <1>4, <3>1
  <2>2. \A k \in 1 .. n : q[k] = s[Nth(S, k)]
    BY <1>7
  <2>3. ToSet(q) = {q[k] : k \in 1 .. n}
    BY <1>9 DEF ToSet
  <2>. HIDE DEF q
  <2>4. \A k \in 1 .. n : q[k] \in {s[i] : i \in S}
    BY <1>5, <2>2
  <2>5. \A i \in S : \E k \in 1 .. n : q[k] = s[i]
    BY <2>1, <2>2
  <2>. QED
    BY <2>3, <2>4, <2>5
<1>. QED
  BY <1>3, <1>5, <1>7, <1>9, <1>10

-----------------------------------------------------------------------------

Weighed(T) == \A t \in T : t.sev \in INFO .. CRITICAL

Distinct(s) == \A i, j \in DOMAIN s : Fingerprint(s[i]) = Fingerprint(s[j]) => i = j

Falling(s) == \A i, j \in DOMAIN s : i < j => s[i].sev >= s[j].sev

\* The sequence has a finding with t's fingerprint that is as bad.
Covered(t, s) == \E i \in DOMAIN s : Fingerprint(s[i]) = Fingerprint(t) /\ s[i].sev >= t.sev

LEMMA Listed ==
    ASSUME NEW T, NEW s \in Seq(T)
    PROVE  /\ DOMAIN s \in SUBSET Nat /\ s \in Seq(ToSet(s)) /\ ToSet(s) \subseteq T
           /\ \A i \in DOMAIN s : s[i] \in T /\ s[i] \in ToSet(s)
<1>1. PICK n \in Nat : n = Len(s)
  OBVIOUS
<1>2. DOMAIN s = 1 .. n /\ \A i \in 1 .. n : s[i] \in T
  BY <1>1
<1>3. ToSet(s) = {s[i] : i \in 1 .. n}
  BY <1>2 DEF ToSet
<1>4. s = [i \in 1 .. n |-> s[i]]
  BY <1>2
<1>5. s \in Seq(ToSet(s))
  <2>. DEFINE U == ToSet(s)
  <2>1. \A i \in 1 .. n : s[i] \in U
    BY <1>3
  <2>. HIDE DEF U
  <2>2. s \in [1 .. n -> U]
    BY <1>4, <2>1
  <2>3. \A f \in [1 .. n -> U] : f \in Seq(U)
    OBVIOUS
  <2>4. s \in Seq(U)
    BY <2>2, <2>3
  <2>. QED
    BY <2>4 DEF U
<1>. QED
  BY <1>2, <1>3, <1>5

LEMMA FirstWorstIs ==
    ASSUME NEW T, Weighed(T), NEW s \in Seq(T), NEW i \in DOMAIN s
    PROVE  /\ FirstWorst(s, i) \in Same(s, i)
           /\ \A k \in Same(s, i) : s[k].sev <= s[FirstWorst(s, i)].sev
<1>1. DOMAIN s \in SUBSET Nat /\ \A k \in DOMAIN s : s[k].sev \in INFO .. CRITICAL
  BY Listed DEF Weighed
<1>. DEFINE L == {CRITICAL - s[k].sev : k \in Same(s, i)}
<1>2. L \in SUBSET Nat /\ L # {}
  BY <1>1 DEF Same, INFO, CRITICAL
<1>3. PICK a \in L : \A b \in L : a <= b
  BY <1>2, LeastNumber
<1>. DEFINE J == {k \in Same(s, i) : CRITICAL - s[k].sev = a}
<1>4. J \in SUBSET Nat /\ J # {}
  BY <1>1, <1>3 DEF Same
<1>5. PICK j \in J : \A k \in J : j <= k
  BY <1>4, LeastNumber
<1>6. ASSUME NEW k \in Same(s, i) PROVE s[k].sev < s[j].sev \/ (s[k].sev = s[j].sev /\ j <= k)
  <2>1. k \in DOMAIN s /\ j \in DOMAIN s /\ k \in Nat /\ j \in Nat
    BY <1>1, <1>5 DEF Same
  <2>2. s[k].sev \in 1 .. 5 /\ s[j].sev \in 1 .. 5
    BY <1>1, <2>1 DEF INFO, CRITICAL
  <2>3. 5 - s[j].sev = a /\ a <= 5 - s[k].sev
    BY <1>3, <1>5 DEF CRITICAL
  <2>4. s[k].sev = s[j].sev => j <= k
    BY <1>5 DEF CRITICAL
  <2>. QED
    BY <2>2, <2>3, <2>4
<1>7. /\ FirstWorst(s, i) \in Same(s, i)
      /\ \A k \in Same(s, i) :
            s[k].sev < s[FirstWorst(s, i)].sev \/ (s[k].sev = s[FirstWorst(s, i)].sev /\ FirstWorst(s, i) <= k)
  BY <1>5, <1>6 DEF FirstWorst
<1>8. ASSUME NEW k \in Same(s, i) PROVE s[k].sev <= s[FirstWorst(s, i)].sev
  <2>1. k \in DOMAIN s /\ FirstWorst(s, i) \in DOMAIN s
    BY <1>7 DEF Same
  <2>2. s[k].sev \in Int /\ s[FirstWorst(s, i)].sev \in Int
    BY <1>1, <2>1 DEF INFO, CRITICAL
  <2>. QED
    BY <1>7, <2>2
<1>. QED
  BY <1>7, <1>8

\* De-duplicated, a list tells no fingerprint twice, and of each the worst that it had.
LEMMA Deduplicated ==
    ASSUME NEW T, Weighed(T), NEW s \in Seq(T)
    PROVE  /\ Deduplicate(s) \in Seq(T) /\ Distinct(Deduplicate(s))
           /\ \A i \in DOMAIN s : Covered(s[i], Deduplicate(s))
<1>. DEFINE w == [i \in DOMAIN s |-> s[FirstWorst(s, i)]]
            F == Firsts(s)
            d == Deduplicate(s)
<1>1. DOMAIN s \in SUBSET Nat /\ \A i \in DOMAIN s : s[i] \in T
  BY Listed
<1>2. \A i \in DOMAIN s : FirstWorst(s, i) \in Same(s, i) /\ \A k \in Same(s, i) : s[k].sev <= s[FirstWorst(s, i)].sev
  BY FirstWorstIs
<1>3. w \in Seq(T)
  <2>1. PICK n \in Nat : n = Len(s)
    OBVIOUS
  <2>2. DOMAIN s = 1 .. n
    BY <2>1
  <2>3. \A i \in 1 .. n : w[i] \in T
    BY <1>1, <1>2, <2>2 DEF Same
  <2>4. w = [i \in 1 .. n |-> w[i]]
    BY <2>2
  <2>. HIDE DEF w
  <2>. QED
    BY <2>3, <2>4
<1>4. F \in SUBSET DOMAIN w
  BY DEF Firsts
<1>5. d = Those(w, F)
  BY DEF Deduplicate
<1>6. /\ d \in Seq(T) /\ ToSet(d) = {w[i] : i \in F}
      /\ \A k \in DOMAIN d : d[k] = w[Nth(F, k)] /\ Nth(F, k) \in F
      /\ \A k, l \in DOMAIN d : Nth(F, k) = Nth(F, l) => k = l
  <2>. HIDE DEF w, F, d
  <2>. QED
    BY <1>3, <1>4, <1>5, ThoseTaken
<1>7. \A i \in DOMAIN s : w[i] = s[FirstWorst(s, i)] /\ Fingerprint(w[i]) = Fingerprint(s[i])
  BY <1>2 DEF Same
<1>. HIDE DEF w, d
<1>8. Distinct(d)
  <2>. SUFFICES ASSUME NEW k \in DOMAIN d, NEW l \in DOMAIN d, Fingerprint(d[k]) = Fingerprint(d[l]) PROVE k = l
    BY DEF Distinct
  <2>1. Nth(F, k) \in DOMAIN s /\ Nth(F, l) \in DOMAIN s
    BY <1>6 DEF Firsts
  <2>2. Fingerprint(s[Nth(F, k)]) = Fingerprint(s[Nth(F, l)])
    BY <1>6, <1>7, <2>1
  <2>3. Nth(F, k) <= Nth(F, l) /\ Nth(F, l) <= Nth(F, k)
    BY <1>6, <2>1, <2>2 DEF Firsts, Same
  <2>4. Nth(F, k) = Nth(F, l)
    BY <1>1, <2>1, <2>3
  <2>. QED
    BY <1>6, <2>4
<1>9. ASSUME NEW i \in DOMAIN s PROVE Covered(s[i], d)
  <2>1. Same(s, i) \in SUBSET Nat /\ Same(s, i) # {}
    BY <1>1 DEF Same
  <2>2. PICK j \in Same(s, i) : \A k \in Same(s, i) : j <= k
    BY <2>1, LeastNumber
  <2>3. j \in DOMAIN s /\ Same(s, j) = Same(s, i)
    BY <2>2 DEF Same
  <2>4. j \in F
    BY <2>2, <2>3 DEF Firsts
  <2>5. w[j] \in ToSet(d)
    BY <1>6, <2>4
  <2>6. PICK k \in DOMAIN d : d[k] = w[j]
    BY <2>5 DEF ToSet
  <2>7. i \in Same(s, j)
    BY <2>3 DEF Same
  <2>8. s[i].sev <= w[j].sev /\ Fingerprint(w[j]) = Fingerprint(s[i])
    BY <1>2, <1>7, <2>3, <2>7 DEF Same
  <2>9. s[i].sev \in Int /\ w[j].sev \in Int
    <3>1. FirstWorst(s, j) \in DOMAIN s
      BY <1>2, <2>3 DEF Same
    <3>. QED
      BY <1>1, <1>7, <2>3, <3>1 DEF Weighed, INFO, CRITICAL
  <2>10. w[j].sev >= s[i].sev
    BY <2>8, <2>9
  <2>. QED
    BY <2>6, <2>8, <2>10 DEF Covered
<1>. QED
  BY <1>6, <1>8, <1>9 DEF d

-----------------------------------------------------------------------------

\* q has the findings of s that are rated from lo to hi, the worst first and none twice.
Part(s, q, lo, hi) ==
    /\ q \in Seq(ToSet(s)) /\ Falling(q) /\ Distinct(q)
    /\ ToSet(q) = {s[i] : i \in {j \in DOMAIN s : lo <= s[j].sev /\ s[j].sev <= hi}}

LEMMA RatedIsAPart ==
    ASSUME NEW T, Weighed(T), NEW s \in Seq(T), Distinct(s), NEW sev \in INFO .. CRITICAL
    PROVE  Part(s, Rated(s, sev), sev, sev)
<1>. DEFINE S == {i \in DOMAIN s : s[i].sev = sev}
            q == Rated(s, sev)
<1>1. /\ q = Those(s, S) /\ S \in SUBSET DOMAIN s /\ s \in Seq(ToSet(s))
  BY Listed DEF Rated
<1>2. /\ q \in Seq(ToSet(s)) /\ ToSet(q) = {s[i] : i \in S}
      /\ \A k \in DOMAIN q : q[k] = s[Nth(S, k)] /\ Nth(S, k) \in S
      /\ \A k, l \in DOMAIN q : Nth(S, k) = Nth(S, l) => k = l
  <2>. HIDE DEF S, q
  <2>. QED
    BY <1>1, ThoseTaken
<1>. HIDE DEF q
<1>3. Falling(q)
  <2>. SUFFICES ASSUME NEW k \in DOMAIN q, NEW l \in DOMAIN q PROVE q[k].sev >= q[l].sev
    BY DEF Falling
  <2>1. q[k].sev = sev /\ q[l].sev = sev
    BY <1>2
  <2>. QED
    BY <2>1 DEF INFO, CRITICAL
<1>4. Distinct(q)
  BY <1>2 DEF Distinct
<1>5. S = {j \in DOMAIN s : sev <= s[j].sev /\ s[j].sev <= sev}
  <2>1. \A j \in DOMAIN s : s[j].sev \in INFO .. CRITICAL
    BY Listed DEF Weighed
  <2>2. ASSUME NEW j \in DOMAIN s PROVE s[j].sev = sev <=> sev <= s[j].sev /\ s[j].sev <= sev
    BY <2>1 DEF INFO, CRITICAL
  <2>. QED
    BY <2>2
<1>6. ToSet(q) = {s[i] : i \in {j \in DOMAIN s : sev <= s[j].sev /\ s[j].sev <= sev}}
  BY <1>2, <1>5
<1>7. Part(s, q, sev, sev)
  BY <1>2, <1>3, <1>4, <1>6 DEF Part
<1>. QED
  BY <1>7 DEF q

LEMMA JoinedHas == ASSUME NEW T, NEW a \in Seq(T), NEW b \in Seq(T) PROVE ToSet(a \o b) = ToSet(a) \cup ToSet(b)
<1>1. PICK m \in Nat : m = Len(a)
  OBVIOUS
<1>2. PICK n \in Nat : n = Len(b)
  OBVIOUS
<1>. DEFINE q == a \o b
<1>3. /\ DOMAIN a = 1 .. m /\ DOMAIN b = 1 .. n /\ DOMAIN q = 1 .. m + n
      /\ \A i \in 1 .. m + n : q[i] = IF i <= m THEN a[i] ELSE b[i - m]
  BY <1>1, <1>2
<1>4. ToSet(q) = {q[i] : i \in 1 .. m + n} /\ ToSet(a) = {a[i] : i \in 1 .. m} /\ ToSet(b) = {b[i] : i \in 1 .. n}
  BY <1>3 DEF ToSet
<1>5. \A i \in 1 .. m + n : (i <= m => i \in 1 .. m /\ q[i] = a[i]) /\ (i > m => i - m \in 1 .. n /\ q[i] = b[i - m])
  BY <1>3
<1>6. \A i \in 1 .. m + n : q[i] \in ToSet(a) \cup ToSet(b)
  <2>1. \A i \in 1 .. m + n : i <= m \/ i > m
    OBVIOUS
  <2>. QED
    BY <1>4, <1>5, <2>1
<1>7. \A i \in 1 .. m : i \in 1 .. m + n /\ q[i] = a[i]
  BY <1>3
<1>8. \A i \in 1 .. n : i + m \in 1 .. m + n /\ q[i + m] = b[i]
  BY <1>3
<1>. HIDE DEF q
<1>9. \A x \in ToSet(a) \cup ToSet(b) : x \in ToSet(q)
  BY <1>4, <1>7, <1>8
<1>10. ToSet(q) = ToSet(a) \cup ToSet(b)
  BY <1>4, <1>6, <1>9
<1>. QED
  BY <1>10 DEF q

LEMMA PartsJoin ==
    ASSUME NEW T, Weighed(T), NEW s \in Seq(T), Distinct(s), NEW lo \in Int, NEW mid \in Int, NEW hi \in Int, lo <= mid, mid < hi,
           NEW a, NEW b, Part(s, a, mid + 1, hi), Part(s, b, lo, mid)
    PROVE  Part(s, a \o b, lo, hi)
<1>1. \A i \in DOMAIN s : s[i].sev \in INFO .. CRITICAL
  BY Listed DEF Weighed
<1>2. a \in Seq(ToSet(s)) /\ b \in Seq(ToSet(s))
  BY DEF Part
<1>3. PICK m \in Nat : m = Len(a)
  BY <1>2
<1>4. PICK n \in Nat : n = Len(b)
  BY <1>2
<1>. DEFINE q == a \o b
<1>5. /\ DOMAIN a = 1 .. m /\ DOMAIN b = 1 .. n /\ DOMAIN q = 1 .. m + n
      /\ \A i \in 1 .. m + n : q[i] = IF i <= m THEN a[i] ELSE b[i - m]
      /\ q \in Seq(ToSet(s))
  BY <1>2, <1>3, <1>4
<1>6. \A i \in 1 .. m : \E k \in DOMAIN s : a[i] = s[k] /\ mid + 1 <= s[k].sev /\ s[k].sev <= hi
  <2>1. \A i \in 1 .. m : a[i] \in ToSet(a)
    BY <1>5 DEF ToSet
  <2>. QED
    BY <2>1 DEF Part
<1>7. \A i \in 1 .. n : \E k \in DOMAIN s : b[i] = s[k] /\ lo <= s[k].sev /\ s[k].sev <= mid
  <2>1. \A i \in 1 .. n : b[i] \in ToSet(b)
    BY <1>5 DEF ToSet
  <2>. QED
    BY <2>1 DEF Part
<1>8. \A i \in 1 .. m, j \in 1 .. n : a[i].sev >= b[j].sev /\ Fingerprint(a[i]) # Fingerprint(b[j])
  <2>. SUFFICES ASSUME NEW i \in 1 .. m, NEW j \in 1 .. n PROVE a[i].sev >= b[j].sev /\ Fingerprint(a[i]) # Fingerprint(b[j])
    OBVIOUS
  <2>1. PICK k \in DOMAIN s : a[i] = s[k] /\ mid + 1 <= s[k].sev
    BY <1>6
  <2>2. PICK l \in DOMAIN s : b[j] = s[l] /\ s[l].sev <= mid
    BY <1>7
  <2>3. s[k].sev \in Int /\ s[l].sev \in Int
    BY <1>1 DEF INFO, CRITICAL
  <2>4. s[k].sev > s[l].sev
    BY <2>1, <2>2, <2>3
  <2>5. k # l
    BY <2>3, <2>4
  <2>6. Fingerprint(s[k]) # Fingerprint(s[l])
    BY <2>5 DEF Distinct
  <2>. QED
    BY <2>1, <2>2, <2>3, <2>4, <2>6
<1>9. \A i \in 1 .. m + n : (i <= m /\ i \in 1 .. m) \/ (i > m /\ i - m \in 1 .. n)
  OBVIOUS
<1>10. Falling(q)
  <2>. SUFFICES ASSUME NEW i \in 1 .. m + n, NEW j \in 1 .. m + n, i < j PROVE q[i].sev >= q[j].sev
    BY <1>5 DEF Falling
  <2>1. CASE j <= m
    <3>1. i \in 1 .. m /\ j \in 1 .. m /\ i <= m
      BY <2>1
    <3>2. a[i].sev >= a[j].sev
      BY <1>5, <3>1 DEF Part, Falling
    <3>3. q[i] = a[i] /\ q[j] = a[j]
      BY <1>5, <2>1, <3>1
    <3>. QED
      BY <3>2, <3>3
  <2>2. CASE i <= m /\ j > m
    <3>1. i \in 1 .. m /\ j - m \in 1 .. n /\ ~(j <= m)
      BY <2>2
    <3>2. a[i].sev >= b[j - m].sev
      BY <1>8, <3>1
    <3>3. q[i] = a[i] /\ q[j] = b[j - m]
      BY <1>5, <2>2, <3>1
    <3>. QED
      BY <3>2, <3>3
  <2>3. CASE i > m
    <3>1. i - m \in 1 .. n /\ j - m \in 1 .. n /\ ~(i <= m) /\ ~(j <= m) /\ i - m < j - m
      BY <2>3
    <3>2. b[i - m].sev >= b[j - m].sev
      BY <1>5, <3>1 DEF Part, Falling
    <3>3. q[i] = b[i - m] /\ q[j] = b[j - m]
      BY <1>5, <3>1
    <3>. QED
      BY <3>2, <3>3
  <2>4. j <= m \/ (i <= m /\ j > m) \/ i > m
    OBVIOUS
  <2>. HIDE DEF q
  <2>. QED
    BY <2>1, <2>2, <2>3, <2>4
<1>11. Distinct(q)
  <2>. SUFFICES ASSUME NEW i \in 1 .. m + n, NEW j \in 1 .. m + n, Fingerprint(q[i]) = Fingerprint(q[j]) PROVE i = j
    BY <1>5 DEF Distinct
  <2>1. CASE i <= m /\ j <= m
    <3>1. i \in 1 .. m /\ j \in 1 .. m /\ q[i] = a[i] /\ q[j] = a[j]
      BY <1>5, <2>1
    <3>. QED
      BY <1>5, <3>1 DEF Part, Distinct
  <2>2. CASE i > m /\ j > m
    <3>1. i - m \in 1 .. n /\ j - m \in 1 .. n /\ q[i] = b[i - m] /\ q[j] = b[j - m]
      BY <1>5, <2>2
    <3>2. i - m = j - m
      BY <1>5, <3>1 DEF Part, Distinct
    <3>. QED
      BY <3>2
  <2>3. CASE i <= m /\ j > m
    <3>1. i \in 1 .. m /\ j - m \in 1 .. n /\ q[i] = a[i] /\ q[j] = b[j - m]
      BY <1>5, <2>3
    <3>. QED
      BY <1>8, <3>1
  <2>4. CASE i > m /\ j <= m
    <3>1. j \in 1 .. m /\ i - m \in 1 .. n /\ q[j] = a[j] /\ q[i] = b[i - m]
      BY <1>5, <2>4
    <3>. QED
      BY <1>8, <3>1
  <2>. QED
    BY <2>1, <2>2, <2>3, <2>4
<1>12. ToSet(q) = ToSet(a) \cup ToSet(b)
  BY <1>2, JoinedHas
<1>13. ToSet(a) \cup ToSet(b) = {s[i] : i \in {j \in DOMAIN s : lo <= s[j].sev /\ s[j].sev <= hi}}
  <2>1. \A j \in DOMAIN s : s[j].sev \in Int
    BY <1>1 DEF INFO, CRITICAL
  <2>2. ASSUME NEW x \in Int
        PROVE  lo <= x /\ x <= hi <=> (mid + 1 <= x /\ x <= hi) \/ (lo <= x /\ x <= mid)
    OBVIOUS
  <2>3. \A j \in DOMAIN s : lo <= s[j].sev /\ s[j].sev <= hi
                            <=> (mid + 1 <= s[j].sev /\ s[j].sev <= hi) \/ (lo <= s[j].sev /\ s[j].sev <= mid)
    BY <2>1, <2>2
  <2>. QED
    BY <2>3 DEF Part
<1>. QED
  BY <1>5, <1>10, <1>11, <1>12, <1>13 DEF Part

\* Sorted, a list has the same findings, each as often, the worst first.
LEMMA SortedFalls ==
    ASSUME NEW T, Weighed(T), NEW s \in Seq(T), Distinct(s)
    PROVE  /\ SortBySeverity(s) \in Seq(T) /\ Falling(SortBySeverity(s)) /\ Distinct(SortBySeverity(s))
           /\ ToSet(SortBySeverity(s)) = ToSet(s)
<1>1. \A v \in 1 .. 5 : Part(s, Rated(s, v), v, v)
  BY RatedIsAPart DEF INFO, CRITICAL
<1>2. Part(s, Rated(s, 5) \o Rated(s, 4), 4, 5)
  BY <1>1, PartsJoin
<1>3. Part(s, (Rated(s, 5) \o Rated(s, 4)) \o Rated(s, 3), 3, 5)
  BY <1>1, <1>2, PartsJoin
<1>4. Part(s, ((Rated(s, 5) \o Rated(s, 4)) \o Rated(s, 3)) \o Rated(s, 2), 2, 5)
  BY <1>1, <1>3, PartsJoin
<1>5. Part(s, (((Rated(s, 5) \o Rated(s, 4)) \o Rated(s, 3)) \o Rated(s, 2)) \o Rated(s, 1), 1, 5)
  BY <1>1, <1>4, PartsJoin
<1>6. Part(s, SortBySeverity(s), 1, 5)
  BY <1>5 DEF SortBySeverity, INFO, LOW, MEDIUM, HIGH, CRITICAL
<1>7. {j \in DOMAIN s : 1 <= s[j].sev /\ s[j].sev <= 5} = DOMAIN s
  <2>1. \A j \in DOMAIN s : s[j].sev \in 1 .. 5
    BY Listed DEF Weighed, INFO, CRITICAL
  <2>2. \A j \in DOMAIN s : 1 <= s[j].sev /\ s[j].sev <= 5
    BY <2>1
  <2>. QED
    BY <2>2
<1>8. ToSet(SortBySeverity(s)) = ToSet(s)
  BY <1>6, <1>7 DEF Part, ToSet
<1>9. \A q \in Seq(ToSet(s)) : q \in Seq(T)
  BY Listed
<1>. QED
  BY <1>6, <1>8, <1>9 DEF Part

-----------------------------------------------------------------------------

\* What a scanner may return: a list of findings, each with one of the five ratings.
Good(s) == IsList(s) /\ Weighed(ToSet(s))

LEMMA RatedListIsGood ==
    ASSUME NEW s, IsList(s), NEW q, q = [i \in DOMAIN s |-> q[i]], \A i \in DOMAIN s : q[i].sev \in INFO .. CRITICAL
    PROVE  Good(q)
<1>1. PICK n \in Nat : n = Len(s)
  BY DEF IsList
<1>2. DOMAIN s = 1 .. n
  BY <1>1 DEF IsList
<1>. DEFINE U == ToSet(q)
<1>3. U = {q[i] : i \in 1 .. n} /\ q = [i \in 1 .. n |-> q[i]]
  BY <1>2 DEF ToSet
<1>. HIDE DEF U
<1>4. q \in [1 .. n -> U]
  BY <1>3
<1>5. \A f \in [1 .. n -> U] : f \in Seq(U)
  OBVIOUS
<1>6. q \in Seq(U) /\ Weighed(U)
  BY <1>2, <1>3, <1>4, <1>5 DEF Weighed
<1>. QED
  BY <1>6 DEF U, Good, IsList

LEMMA FewAreGood == Good(<<>>) /\ \A f : f.sev \in INFO .. CRITICAL => Good(<<f>>)
<1>1. Good(<<>>)
  BY DEF Good, IsList, ToSet, Weighed
<1>2. ASSUME NEW f, f.sev \in INFO .. CRITICAL PROVE Good(<<f>>)
  <2>1. ToSet(<<f>>) = {f}
    BY DEF ToSet
  <2>. QED
    BY <1>2, <2>1 DEF Good, IsList, Weighed
<1>. QED
  BY <1>1, <1>2

LEMMA JoinedAreGood == ASSUME NEW a, NEW b, Good(a), Good(b) PROVE Good(a \o b)
<1>. DEFINE T == ToSet(a) \cup ToSet(b)
<1>1. Weighed(T)
  BY DEF Good, Weighed
<1>2. \A q \in Seq(ToSet(a)) \cup Seq(ToSet(b)) : q \in Seq(T)
  OBVIOUS
<1>3. a \in Seq(T) /\ b \in Seq(T)
  BY <1>2 DEF Good, IsList
<1>. HIDE DEF T
<1>4. a \o b \in Seq(T)
  BY <1>3
<1>5. a \o b \in Seq(ToSet(a \o b)) /\ ToSet(a \o b) \subseteq T
  BY <1>4, Listed
<1>. QED
  BY <1>1, <1>5 DEF Good, IsList, Weighed

LEMMA ThoseAreGood ==
    ASSUME NEW s, IsList(s), NEW S \in SUBSET DOMAIN s
    PROVE  IsList(Those(s, S)) /\ (Good(s) => Good(Those(s, S)))
<1>1. Those(s, S) \in Seq(ToSet(s))
  BY ThoseTaken DEF IsList
<1>2. Those(s, S) \in Seq(ToSet(Those(s, S))) /\ ToSet(Those(s, S)) \subseteq ToSet(s)
  BY <1>1, Listed
<1>. QED
  BY <1>2 DEF Good, IsList, Weighed

LEMMA NormalizedIsRated == \A label : Normalize(label) \in INFO .. CRITICAL
  BY DEF Normalize, INFO, LOW, MEDIUM, HIGH, CRITICAL

LEMMA ReducedIsGood == ASSUME NEW s, Good(s) PROVE Good(ReduceFalsePositives(s))
<1>. DEFINE noisy == {i \in DOMAIN s : Last(s[i].rule) = Noisy}
            safe  == {i \in noisy : Safe(s[i])}
            clean == Those(s, DOMAIN s \ noisy)
<1>1. Good(clean) /\ Good(Those(s, noisy)) /\ Good(Those(s, noisy \ safe))
  <2>1. DOMAIN s \ noisy \in SUBSET DOMAIN s /\ noisy \in SUBSET DOMAIN s /\ noisy \ safe \in SUBSET DOMAIN s
    OBVIOUS
  <2>. HIDE DEF noisy, safe
  <2>. QED
    BY <2>1, ThoseAreGood DEF Good
<1>2. Good(IF safe = {} THEN <<>> ELSE <<Advisory(Those(s, safe))>>)
  <2>1. \A hits : Advisory(hits).sev \in INFO .. CRITICAL
    BY DEF Advisory, Finding, INFO, CRITICAL
  <2>. HIDE DEF safe
  <2>. QED
    BY <2>1, FewAreGood
<1>3. \/ ReduceFalsePositives(s) = clean \o Those(s, noisy)
      \/ ReduceFalsePositives(s) = (clean \o Those(s, noisy \ safe)) \o IF safe = {} THEN <<>> ELSE <<Advisory(Those(s, safe))>>
  BY DEF ReduceFalsePositives
<1>. HIDE DEF noisy, safe, clean
<1>. QED
  BY <1>1, <1>2, <1>3, JoinedAreGood

\* Whatever a tool prints, the findings made of it are rated.
LEMMA FoundIsGood ==
    ASSUME NEW c \in DOMAIN Commands, NEW p \in Plugins, NEW out \in Results[c][p]
    PROVE  Good(Found(p, out))
<1>1. CASE p = "semgrep"
  <2>. DEFINE r == Those(out, {i \in DOMAIN out : out[i].ruleset \in BuildRulesets(profile.languages)})
  <2>1. IsList(r)
    BY <1>1, ResultsAreListed, ThoseAreGood DEF Memory, Monitor
  <2>2. Found(p, out) = SemgrepFindings(r)
    BY <1>1 DEF Found
  <2>. HIDE DEF r
  <2>. DEFINE q == MapSeq(LAMBDA e : Finding(Get(e.id, <<"unknown">>), e.path, e.line, <<Get(e.message, "check_id")>>,
                                           Normalize(Get(e.severity, "warning")), "sast"), r)
  <2>3. q = [i \in DOMAIN r |-> q[i]] /\ \A i \in DOMAIN r : q[i].sev \in INFO .. CRITICAL
    BY NormalizedIsRated DEF MapSeq, Finding
  <2>4. SemgrepFindings(r) = ReduceFalsePositives(q)
    BY DEF SemgrepFindings
  <2>. HIDE DEF q
  <2>. QED
    BY <2>1, <2>2, <2>3, <2>4, RatedListIsGood, ReducedIsGood
<1>2. ASSUME NEW s, IsList(s) PROVE Good(Vulnerabilities(s)) /\ Good(Misconfigurations(s)) /\ Good(Leaks(s))
  <2>1. Good(Vulnerabilities(s))
    <3>. DEFINE q == Vulnerabilities(s)
    <3>1. q = [i \in DOMAIN s |-> q[i]] /\ \A i \in DOMAIN s : q[i].sev \in INFO .. CRITICAL
      BY NormalizedIsRated DEF Vulnerabilities, MapSeq, Finding
    <3>. HIDE DEF q
    <3>2. Good(q)
      BY <1>2, <3>1, RatedListIsGood
    <3>. QED
      BY <3>2 DEF q
  <2>2. Good(Misconfigurations(s))
    <3>. DEFINE q == Misconfigurations(s)
    <3>1. q = [i \in DOMAIN s |-> q[i]] /\ \A i \in DOMAIN s : q[i].sev \in INFO .. CRITICAL
      BY NormalizedIsRated DEF Misconfigurations, MapSeq, Finding
    <3>. HIDE DEF q
    <3>2. Good(q)
      BY <1>2, <3>1, RatedListIsGood
    <3>. QED
      BY <3>2 DEF q
  <2>3. Good(Leaks(s))
    <3>. DEFINE q == Leaks(s)
    <3>1. q = [i \in DOMAIN s |-> q[i]]
      BY DEF Leaks, MapSeq
    <3>2. \A i \in DOMAIN s : q[i].sev \in {CRITICAL, HIGH}
      BY DEF Leaks, MapSeq, Finding
    <3>3. {CRITICAL, HIGH} \subseteq INFO .. CRITICAL
      BY DEF INFO, HIGH, CRITICAL
    <3>. HIDE DEF q
    <3>4. Good(q)
      BY <1>2, <3>1, <3>2, <3>3, RatedListIsGood
    <3>. QED
      BY <3>4 DEF q
  <2>. QED
    BY <2>1, <2>2, <2>3
<1>3. CASE p \in {"trivy-sca", "container-scanner", "iac-config", "gitleaks"}
  <2>1. IsList(out)
    BY <1>3, ResultsAreListed DEF Memory, Monitor
  <2>2. IsList(Those(out, {i \in DOMAIN out : out[i].commit => profile.git}))
    BY <2>1, ThoseAreGood
  <2>3. \/ Found(p, out) = Vulnerabilities(out)
        \/ Found(p, out) = Misconfigurations(out)
        \/ Found(p, out) = Leaks(Those(out, {i \in DOMAIN out : out[i].commit => profile.git}))
    BY <1>3 DEF Found
  <2>. QED
    BY <1>2, <2>1, <2>2, <2>3
<1>4. CASE p = "memory-forensics"
  <2>1. IsList(Once(out.matches)) /\ IsList(Once(out.entropic))
    <3>1. IsList(out.matches) /\ IsList(out.entropic)
      BY <1>4, ResultsAreListed DEF Memory, Monitor
    <3>2. \A s : {i \in DOMAIN s : \A j \in 1 .. i - 1 : s[j] # s[i]} \in SUBSET DOMAIN s
      OBVIOUS
    <3>. QED
      BY <3>1, <3>2, ThoseAreGood DEF Once
  <2>. DEFINE a == MapSeq(LAMBDA m : Finding(<<m.rule>>, <<"memory", profile.image>>, 0, <<m.rule>>, CRITICAL, "memory"), Once(out.matches))
              b == MapSeq(LAMBDA l : Finding(<<"MEM-ENTROPY-001">>, <<"memory", profile.image>>, 0, <<"high entropy">>, HIGH, "memory"),
                          Once(out.entropic))
  <2>2. Found(p, out) = a \o b
    BY <1>4 DEF Found, Secrets
  <2>3. a = [i \in DOMAIN Once(out.matches) |-> a[i]] /\ \A i \in DOMAIN Once(out.matches) : a[i].sev \in INFO .. CRITICAL
    BY DEF MapSeq, Finding, INFO, CRITICAL
  <2>4. b = [i \in DOMAIN Once(out.entropic) |-> b[i]] /\ \A i \in DOMAIN Once(out.entropic) : b[i].sev \in INFO .. CRITICAL
    <3>1. b = [i \in DOMAIN Once(out.entropic) |-> b[i]] /\ \A i \in DOMAIN Once(out.entropic) : b[i].sev = HIGH
      BY DEF MapSeq, Finding
    <3>2. HIGH \in INFO .. CRITICAL
      BY DEF INFO, HIGH, CRITICAL
    <3>. QED
      BY <3>1, <3>2
  <2>. HIDE DEF a, b
  <2>5. Good(a) /\ Good(b)
    BY <2>1, <2>3, <2>4, RatedListIsGood
  <2>. QED
    BY <2>2, <2>5, JoinedAreGood
<1>5. CASE p = "resource-monitor"
  <2>1. ASSUME NEW l, NEW conns PROVE Good(ConnectionLeak(l, conns))
    BY FewAreGood DEF ConnectionLeak, Finding, INFO, MEDIUM, CRITICAL
  <2>2. ASSUME NEW f, NEW g, NEW h, NEW t PROVE Good(<<Finding(f, g, h, t, HIGH, "resource-leak")>>) /\ Good(<<Finding(f, g, h, t, MEDIUM, "resource-leak")>>)
    BY FewAreGood DEF Finding, INFO, MEDIUM, HIGH, CRITICAL
  <2>3. Good(MonitorFindings(profile.image, out))
    <3>. DEFINE a == IF (out.final - out.initial) * 100 <= MemoryGrowthThreshold * out.initial THEN <<>>
                     ELSE <<Finding(<<"RESLEAK-001">>, <<"runtime", profile.image>>, 0, <<"memory">>, HIGH, "resource-leak")>>
    <3>1. Good(a)
      BY <2>2, FewAreGood
    <3>2. MonitorFindings(profile.image, out) = <<>> \/ MonitorFindings(profile.image, out) = a \o ConnectionLeak(profile.image, out.conns)
      BY DEF MonitorFindings
    <3>. HIDE DEF a
    <3>. QED
      BY <2>1, <3>1, <3>2, FewAreGood, JoinedAreGood
  <2>4. Good(UrlFindings(profile.url, out))
    <3>. DEFINE b == IF out.allocs < 5 THEN <<>>
                     ELSE <<Finding(<<"RESLEAK-003">>, <<"runtime", profile.url, "allocate">>, 0, <<"allocation">>, MEDIUM, "resource-leak")>>
    <3>1. Good(b)
      BY <2>2, FewAreGood
    <3>2. UrlFindings(profile.url, out) = ConnectionLeak(profile.url, out.conns) \o b
      BY DEF UrlFindings
    <3>. HIDE DEF b
    <3>. QED
      BY <2>1, <3>1, <3>2, JoinedAreGood
  <2>. QED
    BY <1>5, <2>3, <2>4 DEF Found
<1>. QED
  <2>1. p \in {Registry[i] : i \in 1 .. 7}
    <3>1. DOMAIN Registry = 1 .. 7
      BY DEF Registry
    <3>. QED
      BY <3>1, PluginsOfTheRegistry
  <2>2. \A i \in 1 .. 7 : Registry[i] \in {"semgrep", "trivy-sca", "container-scanner", "iac-config", "gitleaks", "memory-forensics",
                                           "resource-monitor"}
    BY DEF Registry
  <2>. QED
    BY <1>1, <1>3, <1>4, <1>5, <2>1, <2>2

-----------------------------------------------------------------------------

(***************************************************************************)
(* What the consolidation leaves out are the hits in the program's own     *)
(* tools, all of them, and there is an advice that tells how many.         *)
(***************************************************************************)
LEMMA OnlyAdviceIsLost ==
    ASSUME NEW s, IsList(s), \A i \in DOMAIN s : \E x : s[i].title = <<x>>
    PROVE  LET after == ToSet(ReduceFalsePositives(s))
               hits  == {i \in DOMAIN s : s[i] \notin after}
           IN  /\ \A i \in hits : Last(s[i].rule) = Noisy /\ Safe(s[i])
               /\ hits # {} => \E f \in after : f.sev = INFO /\ f.title = <<"consolidated", Cardinality(hits)>>
<1>. DEFINE noisy == {i \in DOMAIN s : Last(s[i].rule) = Noisy}
            safe  == {i \in noisy : Safe(s[i])}
            r     == ReduceFalsePositives(s)
            hits  == {i \in DOMAIN s : s[i] \notin ToSet(r)}
            clean == Those(s, DOMAIN s \ noisy)
            rest  == Those(s, noisy \ safe)
            adv   == Advisory(Those(s, safe))
<1>1. /\ clean \in Seq(ToSet(s)) /\ ToSet(clean) = {s[i] : i \in DOMAIN s \ noisy}
      /\ rest \in Seq(ToSet(s)) /\ ToSet(rest) = {s[i] : i \in noisy \ safe}
      /\ Those(s, noisy) \in Seq(ToSet(s)) /\ ToSet(Those(s, noisy)) = {s[i] : i \in noisy}
      /\ Len(Those(s, safe)) = Cardinality(safe)
  <2>1. DOMAIN s \ noisy \in SUBSET DOMAIN s /\ noisy \in SUBSET DOMAIN s /\ noisy \ safe \in SUBSET DOMAIN s /\ safe \in SUBSET DOMAIN s
    OBVIOUS
  <2>. HIDE DEF noisy, safe
  <2>. QED
    BY <2>1, ThoseTaken DEF IsList
<1>2. adv.sev = INFO /\ adv.title = <<"consolidated", Cardinality(safe)>>
  <2>. HIDE DEF safe
  <2>. QED
    BY <1>1 DEF Advisory, Finding
<1>3. CASE Cardinality(noisy) < ConsolidationThreshold
  <2>1. r = clean \o Those(s, noisy)
    BY <1>3 DEF ReduceFalsePositives
  <2>. HIDE DEF clean, r, noisy
  <2>2. ToSet(r) = ToSet(clean) \cup ToSet(Those(s, noisy))
    BY <1>1, <2>1, JoinedHas
  <2>3. \A i \in DOMAIN s : s[i] \in ToSet(r)
    BY <1>1, <2>2
  <2>4. hits = {}
    BY <2>3
  <2>. QED
    BY <2>4 DEF r
<1>4. CASE ~(Cardinality(noisy) < ConsolidationThreshold)
  <2>. DEFINE end == IF safe = {} THEN <<>> ELSE <<adv>>
  <2>1. r = (clean \o rest) \o end
    BY <1>4 DEF ReduceFalsePositives
  <2>2. ToSet(end) = (IF safe = {} THEN {} ELSE {adv}) /\ end \in Seq({adv})
    <3>. HIDE DEF adv, safe
    <3>1. ToSet(<<>>) = {} /\ ToSet(<<adv>>) = {adv}
      BY DEF ToSet
    <3>2. <<>> \in Seq({adv}) /\ <<adv>> \in Seq({adv})
      OBVIOUS
    <3>3. CASE safe = {}
      BY <3>1, <3>2, <3>3
    <3>4. CASE safe # {}
      BY <3>1, <3>2, <3>4
    <3>. QED
      BY <3>3, <3>4
  <2>3. ToSet(r) = (ToSet(clean) \cup ToSet(rest)) \cup ToSet(end)
    <3>. HIDE DEF clean, rest, end, adv, r
    <3>0. \A a, b \in Seq(ToSet(s)) : a \o b \in Seq(ToSet(s)) /\ ToSet(a \o b) = ToSet(a) \cup ToSet(b)
      BY JoinedHas
    <3>1. clean \o rest \in Seq(ToSet(s)) /\ ToSet(clean \o rest) = ToSet(clean) \cup ToSet(rest)
      BY <1>1, <3>0
    <3>. DEFINE U == ToSet(s) \cup {adv}
    <3>2. \A q : q \in Seq(ToSet(s)) \/ q \in Seq({adv}) => q \in Seq(U)
      OBVIOUS
    <3>3. clean \o rest \in Seq(U) /\ end \in Seq(U)
      BY <2>2, <3>1, <3>2
    <3>. HIDE DEF U
    <3>5. \A a, b \in Seq(U) : ToSet(a \o b) = ToSet(a) \cup ToSet(b)
      BY JoinedHas
    <3>4. ToSet((clean \o rest) \o end) = ToSet(clean \o rest) \cup ToSet(end)
      BY <3>3, <3>5
    <3>. QED
      BY <2>1, <3>1, <3>4
  <2>4. ToSet(r) = {s[i] : i \in DOMAIN s \ safe} \cup IF safe = {} THEN {} ELSE {adv}
    <3>1. {s[i] : i \in DOMAIN s \ noisy} \cup {s[i] : i \in noisy \ safe} = {s[i] : i \in DOMAIN s \ safe}
      OBVIOUS
    <3>. HIDE DEF clean, rest, end, adv, r, noisy, safe
    <3>. QED
      BY <1>1, <2>2, <2>3, <3>1
  <2>5. \A i \in DOMAIN s : s[i] # adv
    <3>1. \A x, n : <<x>> # <<"consolidated", n>>
      OBVIOUS
    <3>. HIDE DEF adv, safe
    <3>. QED
      BY <1>2, <3>1
  <2>6. ASSUME NEW i \in safe, NEW j \in DOMAIN s \ safe PROVE s[i] # s[j]
    BY <2>6
  <2>7. hits = safe
    <3>1. \A i \in safe : i \in DOMAIN s
      OBVIOUS
    <3>. HIDE DEF safe, adv, r
    <3>. QED
      BY <2>4, <2>5, <2>6, <3>1
  <2>8. \A i \in hits : Last(s[i].rule) = Noisy /\ Safe(s[i])
    BY <2>7
  <2>9. hits # {} => \E f \in ToSet(r) : f.sev = INFO /\ f.title = <<"consolidated", Cardinality(hits)>>
    <3>. HIDE DEF safe, adv, r, hits
    <3>. QED
      BY <1>2, <2>4, <2>7
  <2>. QED
    BY <2>8, <2>9
<1>. QED
  BY <1>3, <1>4

LEMMA ReducedToAdvice == command \in DOMAIN Commands => ReductionIsAdvice
<1>. SUFFICES ASSUME command \in DOMAIN Commands, NEW out \in Results[command]["semgrep"]
              PROVE  LET before == MapSeq(LAMBDA r : Finding(r.id[1], r.path, r.line, <<Get(r.message, "check_id")>>,
                                               Normalize(Get(r.severity, "warning")), "sast"), out)
                         after  == ToSet(ReduceFalsePositives(before))
                         hits   == {i \in DOMAIN before : before[i] \notin after}
                     IN  /\ \A i \in hits : Last(before[i].rule) = Noisy /\ Safe(before[i])
                         /\ hits # {} => \E f \in after : f.sev = INFO /\ f.title = <<"consolidated", Cardinality(hits)>>
  BY DEF ReductionIsAdvice
<1>. DEFINE before == MapSeq(LAMBDA r : Finding(r.id[1], r.path, r.line, <<Get(r.message, "check_id")>>,
                                               Normalize(Get(r.severity, "warning")), "sast"), out)
<1>1. "semgrep" \in Plugins
  <2>1. 4 \in DOMAIN Registry /\ Registry[4] = "semgrep"
    BY DEF Registry
  <2>. QED
    BY <2>1, PluginsOfTheRegistry
<1>2. IsList(out)
  BY <1>1, ResultsAreListed DEF Memory, Monitor
<1>3. /\ before = [i \in DOMAIN out |-> before[i]] /\ \A i \in DOMAIN out : before[i].sev \in INFO .. CRITICAL
      /\ \A i \in DOMAIN out : \E x : before[i].title = <<x>>
  BY NormalizedIsRated DEF MapSeq, Finding
<1>. HIDE DEF before
<1>4. IsList(before) /\ DOMAIN before = DOMAIN out
  BY <1>2, <1>3, RatedListIsGood DEF Good
<1>. QED
  BY <1>3, <1>4, OnlyAdviceIsLost DEF before

-----------------------------------------------------------------------------

\* What "full" looks at, one after the other.
Halves == {"source", "runtime"}

\* In a report: rated findings that were told, the worst first, no fingerprint twice.
Fine(s, T) == s \in Seq(T) /\ Falling(s) /\ Distinct(s)

LEMMA CoveredHas == \A t, s : Covered(t, s) <=> \E f \in ToSet(s) : Fingerprint(f) = Fingerprint(t) /\ f.sev >= t.sev
  BY DEF Covered, ToSet

LEMMA JoinedCovers ==
    ASSUME NEW T, NEW a \in Seq(T), NEW b \in Seq(T), NEW t, Covered(t, a) \/ Covered(t, b)
    PROVE  Covered(t, a \o b)
<1>1. ToSet(a \o b) = ToSet(a) \cup ToSet(b)
  BY JoinedHas
<1>. QED
  BY <1>1, CoveredHas

LEMMA FinalIsFine ==
    ASSUME NEW T, Weighed(T), NEW s \in Seq(T)
    PROVE  /\ Fine(SortBySeverity(Deduplicate(s)), T)
           /\ \A t \in T : Covered(t, s) => Covered(t, SortBySeverity(Deduplicate(s)))
<1>. DEFINE d == Deduplicate(s)
<1>1. d \in Seq(T) /\ Distinct(d) /\ \A i \in DOMAIN s : Covered(s[i], d)
  BY Deduplicated
<1>2. Fine(SortBySeverity(d), T) /\ ToSet(SortBySeverity(d)) = ToSet(d)
  <2>. HIDE DEF d
  <2>. QED
    BY <1>1, SortedFalls DEF Fine
<1>3. ASSUME NEW t \in T, Covered(t, s) PROVE Covered(t, SortBySeverity(d))
  <2>. HIDE DEF d
  <2>1. PICK i \in DOMAIN s : Fingerprint(s[i]) = Fingerprint(t) /\ s[i].sev >= t.sev
    BY <1>3 DEF Covered
  <2>2. PICK f \in ToSet(d) : Fingerprint(f) = Fingerprint(s[i]) /\ f.sev >= s[i].sev
    BY <1>1, CoveredHas
  <2>3. f \in T /\ s[i] \in T
    BY <1>1, Listed
  <2>4. f.sev \in Int /\ s[i].sev \in Int /\ t.sev \in Int
    BY <2>3 DEF Weighed, INFO, CRITICAL
  <2>5. f.sev >= t.sev
    BY <2>1, <2>2, <2>4
  <2>. QED
    BY <1>2, <2>1, <2>2, <2>5, CoveredHas
<1>. QED
  BY <1>2, <1>3

(***************************************************************************)
(* The strengthening: at any time, what was told is covered by the         *)
(* findings gathered or by those of a half that ended, and by the report   *)
(* when there is one.                                                      *)
(***************************************************************************)
Gathered ==
    /\ Weighed(told) /\ findings \in Seq(told)
    /\ value = [p \in Plugins |-> value[p]] /\ \A p \in Plugins : Good(value[p])
    /\ IsList(halves) /\ stages \in Seq(Halves) /\ Len(halves) + Len(stages) = Len(Stages(C))
    /\ \A i \in DOMAIN halves : Fine(halves[i].findings, told)
    /\ \A t \in told : Covered(t, findings) \/ \E i \in DOMAIN halves : Covered(t, halves[i].findings)

Phased ==
    /\ phase # "scan" => findings = <<>>
    /\ phase = "half" => stages = <<>>
    /\ phase \in {"parse", "profile", "select", "scan"} => stages # <<>>
    /\ phase \notin {"write", "done"} => report = NoReport
    /\ Reported => Fine(report.findings, told) /\ \A t \in told : Covered(t, report.findings)

LEMMA StagesAreFew == Stages(C) \in Seq(Halves) /\ Len(Stages(C)) \in {1, 2}
<1>1. \A s : <<s>> = Stages(C) => Len(Stages(C)) = 1
  OBVIOUS
<1>2. \A s, t : <<s, t>> = Stages(C) => Len(Stages(C)) = 2
  OBVIOUS
<1>3. ASSUME NEW T, NEW s \in T, NEW t \in T PROVE <<s>> \in Seq(T) /\ <<s, t>> \in Seq(T)
  OBVIOUS
<1>4. \E s, t \in Halves : Stages(C) = <<s>> \/ Stages(C) = <<s, t>>
  <2>1. "source" \in Halves /\ "runtime" \in Halves
    BY DEF Halves
  <2>2. Stages(C) = <<"source", "runtime">> \/ Stages(C) = <<"source">> \/ Stages(C) = <<"runtime">>
    BY DEF Stages
  <2>. QED
    BY <2>1, <2>2
<1>. QED
  BY <1>1, <1>2, <1>3, <1>4

LEMMA FirstNothing == EngineInit => Gathered /\ Phased
<1>. SUFFICES ASSUME EngineInit PROVE Gathered /\ Phased
  OBVIOUS
<1>. USE DEF EngineInit
<1>1. stages = Stages(C) /\ stages \in Seq(Halves) /\ Len(stages) \in {1, 2}
  BY StagesAreFew DEF C
<1>2. IsList(halves) /\ Len(halves) = 0 /\ DOMAIN halves = {}
  BY FewAreGood DEF Good
<1>3. \A p \in Plugins : Good(value[p])
  BY FewAreGood
<1>4. Gathered
  <2>1. Len(halves) + Len(stages) = Len(Stages(C))
    BY <1>1, <1>2
  <2>2. Weighed(told) /\ findings \in Seq(told)
    BY DEF Weighed
  <2>. QED
    BY <1>1, <1>2, <1>3, <2>1, <2>2 DEF Gathered
<1>5. Phased
  BY <1>1 DEF Phased, Reported
<1>. QED
  BY <1>4, <1>5

LEMMA GatheredIsKept == command \in DOMAIN Commands /\ Gathered /\ Phased /\ [EngineNext]_vars => Gathered' /\ Phased'
<1>. SUFFICES ASSUME command \in DOMAIN Commands, Gathered, Phased, [EngineNext]_vars PROVE Gathered' /\ Phased'
  OBVIOUS
<1>1. C' = C /\ command' = command
  BY CommandStays
<1>2. CASE ParseArgs \/ ProfileStage \/ TakeWork \/ WriteAndExit \/ UNCHANGED vars
  <2>1. UNCHANGED <<stages, value, findings, halves, report, told>>
    BY <1>2 DEF ParseArgs, ProfileStage, TakeWork, WriteAndExit, vars, engineVars
  <2>2. Gathered'
    BY <1>1, <2>1 DEF Gathered
  <2>3. \/ phase' = phase
        \/ phase \in {"parse", "profile"} /\ phase' \in {"profile", "select", "done"}
        \/ phase = "write" /\ phase' = "done"
    BY <1>2 DEF ParseArgs, ProfileStage, TakeWork, WriteAndExit, Exit, vars, engineVars
  <2>4. Phased'
    BY <2>1, <2>3 DEF Phased, Reported
  <2>. QED
    BY <2>2, <2>4
<1>3. CASE RunEngine
  <2>1. /\ UNCHANGED <<stages, value, halves, report, told>> /\ findings' = <<>>
        /\ phase = "select" /\ phase' \in {"scan", "done"}
    BY <1>3 DEF RunEngine, Exit
  <2>2. findings = <<>> /\ report = NoReport
    BY <2>1 DEF Phased
  <2>3. Gathered'
    BY <1>1, <2>1, <2>2 DEF Gathered
  <2>4. Phased'
    BY <2>1, <2>2 DEF Phased, Reported
  <2>. QED
    BY <2>3, <2>4
<1>4. ASSUME NEW p \in Plugins, ScannerStep(p) PROVE Gathered' /\ Phased'
  <2>1. UNCHANGED <<stages, phase, findings, halves, report, told>>
    BY <1>4 DEF ScannerStep
  <2>2. value' = value \/ \E out \in Results[command][p] : value' = [value EXCEPT ![p] = Found(p, out)]
    BY <1>4 DEF ScannerStep
  <2>3. value' = [q \in Plugins |-> value'[q]] /\ \A q \in Plugins : Good(value'[q])
    <3>1. \A out \in Results[command][p] : Good(Found(p, out))
      BY FoundIsGood
    <3>. QED
      BY <2>2, <3>1 DEF Gathered
  <2>4. Gathered'
    BY <1>1, <2>1, <2>3 DEF Gathered
  <2>5. Phased'
    BY <2>1 DEF Phased, Reported
  <2>. QED
    BY <2>4, <2>5
<1>5. ASSUME NEW p \in Plugins, Collect(p) PROVE Gathered' /\ Phased'
  <2>1. UNCHANGED <<stages, phase, halves, report>> /\ phase = "scan" /\ value' = [value EXCEPT ![p] = <<>>]
    BY <1>5 DEF Collect
  <2>2. \/ findings' = findings \o value[p] /\ told' = told \cup ToSet(value[p])
        \/ findings' = findings /\ told' = told
    BY <1>5 DEF Collect
  <2>3. IsList(value[p]) /\ Weighed(ToSet(value[p]))
    BY DEF Gathered, Good
  <2>4. \A s : s \in Seq(told) => s \in Seq(told')
    <3>1. told \subseteq told'
      BY <2>2
    <3>. QED
      BY <3>1
  <2>5. Weighed(told')
    BY <2>2, <2>3 DEF Gathered, Weighed
  <2>6. findings' \in Seq(told') /\ \A t : Covered(t, findings) => Covered(t, findings')
    <3>1. CASE findings' = findings \o value[p] /\ told' = told \cup ToSet(value[p])
      <4>1. findings \in Seq(told') /\ value[p] \in Seq(told')
        <5>1. \A s \in Seq(ToSet(value[p])) : s \in Seq(told')
          BY <3>1
        <5>. QED
          BY <2>3, <2>4, <5>1 DEF Gathered, IsList
      <4>. QED
        BY <3>1, <4>1, JoinedCovers
    <3>2. CASE findings' = findings /\ told' = told
      BY <3>2 DEF Gathered
    <3>. QED
      BY <2>2, <3>1, <3>2
  <2>7. ASSUME NEW t \in told' \ told PROVE Covered(t, findings')
    <3>1. findings' = findings \o value[p] /\ told' = told \cup ToSet(value[p])
      BY <2>2, <2>7
    <3>2. t \in ToSet(value[p]) /\ t.sev \in Int
      BY <2>3, <2>7, <3>1 DEF Weighed, INFO, CRITICAL
    <3>3. Covered(t, value[p])
      <4>1. t.sev >= t.sev
        BY <3>2
      <4>. QED
        BY <3>2, <4>1, CoveredHas
    <3>4. findings \in Seq(told') /\ value[p] \in Seq(told')
      <4>1. \A s \in Seq(ToSet(value[p])) : s \in Seq(told')
        BY <3>1
      <4>. QED
        BY <2>3, <2>4, <4>1 DEF Gathered, IsList
    <3>. QED
      BY <3>1, <3>3, <3>4, JoinedCovers
  <2>8. \A i \in DOMAIN halves : Fine(halves[i].findings, told')
    BY <2>4 DEF Gathered, Fine
  <2>9. value' = [q \in Plugins |-> value'[q]] /\ \A q \in Plugins : Good(value'[q])
    BY <2>1, FewAreGood DEF Gathered
  <2>10. \A t \in told' : Covered(t, findings') \/ \E i \in DOMAIN halves : Covered(t, halves[i].findings)
    BY <2>6, <2>7 DEF Gathered
  <2>11. Gathered'
    BY <1>1, <2>1, <2>5, <2>6, <2>8, <2>9, <2>10 DEF Gathered
  <2>12. Phased'
    BY <2>1 DEF Phased, Reported
  <2>. QED
    BY <2>11, <2>12
<1>6. CASE EngineEnds
  <2>. DEFINE end == SortBySeverity(Deduplicate(findings))
              half == [findings |-> end, errors |-> errors, execution |-> status]
  <2>1. /\ halves' = Append(halves, half) /\ stages' = Tail(stages) /\ phase = "scan"
        /\ phase' = (IF stages' = <<>> THEN "half" ELSE "profile")
        /\ findings' = <<>> /\ UNCHANGED <<value, report, told>>
    BY <1>6 DEF EngineEnds
  <2>2. Fine(end, told) /\ \A t \in told : Covered(t, findings) => Covered(t, end)
    BY FinalIsFine DEF Gathered
  <2>3. half.findings = end
    OBVIOUS
  <2>. HIDE DEF end, half
  <2>4. stages # <<>> /\ report = NoReport
    BY <2>1 DEF Phased
  <2>5. PICK n \in Nat : n = Len(halves)
    BY DEF Gathered, IsList
  <2>6. /\ DOMAIN halves = 1 .. n /\ DOMAIN halves' = 1 .. n + 1 /\ Len(halves') = n + 1
        /\ halves'[n + 1] = half /\ \A i \in 1 .. n : halves'[i] = halves[i]
        /\ IsList(halves')
    <3>1. halves \in Seq(ToSet(halves))
      BY DEF Gathered, IsList
    <3>. DEFINE U == ToSet(halves) \cup {half}
    <3>2. halves \in Seq(U) /\ half \in U
      <4>1. \A s \in Seq(ToSet(halves)) : s \in Seq(U)
        OBVIOUS
      <4>. QED
        BY <3>1, <4>1
    <3>. HIDE DEF U
    <3>3. halves' \in Seq(U) /\ DOMAIN halves = 1 .. n /\ DOMAIN halves' = 1 .. n + 1 /\ Len(halves') = n + 1
      BY <2>1, <2>5, <3>2
    <3>4. halves'[n + 1] = half /\ \A i \in 1 .. n : halves'[i] = halves[i]
      BY <2>1, <2>5, <3>2
    <3>5. IsList(halves')
      BY <3>3, Listed DEF IsList
    <3>. QED
      BY <3>3, <3>4, <3>5
  <2>7. stages' \in Seq(Halves) /\ Len(halves') + Len(stages') = Len(Stages(C))
    <3>1. PICK m \in Nat : m = Len(stages)
      BY DEF Gathered
    <3>2. m # 0 /\ stages' \in Seq(Halves) /\ Len(stages') = m - 1
      BY <2>1, <2>4, <3>1 DEF Gathered
    <3>3. n + m = Len(Stages(C))
      BY <2>5, <3>1 DEF Gathered
    <3>4. (n + 1) + (m - 1) = n + m
      OBVIOUS
    <3>. QED
      BY <2>6, <3>2, <3>3, <3>4
  <2>8. \A i \in DOMAIN halves' : Fine(halves'[i].findings, told)
    <3>1. \A i \in 1 .. n + 1 : i = n + 1 \/ i \in 1 .. n
      OBVIOUS
    <3>. QED
      BY <2>2, <2>3, <2>6, <3>1 DEF Gathered
  <2>9. \A t \in told : \E i \in DOMAIN halves' : Covered(t, halves'[i].findings)
    <3>1. n + 1 \in 1 .. n + 1 /\ \A i \in 1 .. n : i \in 1 .. n + 1
      OBVIOUS
    <3>. QED
      BY <2>2, <2>3, <2>6, <3>1 DEF Gathered
  <2>10. Gathered'
    <3>1. <<>> \in Seq(told)
      OBVIOUS
    <3>. QED
      BY <1>1, <2>1, <2>6, <2>7, <2>8, <2>9, <3>1 DEF Gathered
  <2>11. Phased'
    BY <2>1, <2>4 DEF Phased, Reported
  <2>. QED
    BY <2>10, <2>11
<1>7. CASE MakeReport
  <2>1. /\ phase = "half" /\ phase' = "write" /\ report' = MergeHalves
        /\ UNCHANGED <<stages, value, findings, halves, told>>
    BY <1>7 DEF MakeReport
  <2>2. Gathered'
    BY <1>1, <2>1 DEF Gathered
  <2>3. findings = <<>> /\ stages = <<>>
    BY <2>1 DEF Phased
  <2>4. Len(halves) \in {1, 2} /\ DOMAIN halves = 1 .. Len(halves)
    <3>1. PICK n \in Nat : n = Len(halves)
      BY DEF Gathered, IsList
    <3>2. Len(stages) = 0 /\ n + 0 = Len(Stages(C))
      BY <2>3, <3>1 DEF Gathered
    <3>3. DOMAIN halves = 1 .. n
      BY <3>1 DEF Gathered, IsList
    <3>. QED
      BY <3>1, <3>2, <3>3, StagesAreFew
  <2>5. \A t \in told : \E i \in DOMAIN halves : Covered(t, halves[i].findings)
    <3>1. \A t : ~Covered(t, <<>>)
      BY DEF Covered
    <3>. QED
      BY <2>3, <3>1 DEF Gathered
  <2>6. Fine(MergeHalves.findings, told) /\ \A t \in told : Covered(t, MergeHalves.findings)
    <3>1. CASE Len(halves) = 1
      <4>1. MergeHalves = halves[1] /\ DOMAIN halves = {1}
        BY <2>4, <3>1 DEF MergeHalves
      <4>. QED
        BY <2>5, <4>1 DEF Gathered
    <3>2. CASE Len(halves) = 2
      <4>. DEFINE both == halves[1].findings \o halves[2].findings
      <4>1. MergeHalves.findings = SortBySeverity(Deduplicate(both)) /\ DOMAIN halves = {1, 2}
        BY <2>4, <3>2 DEF MergeHalves
      <4>2. halves[1].findings \in Seq(told) /\ halves[2].findings \in Seq(told)
        BY <4>1 DEF Gathered, Fine
      <4>3. both \in Seq(told) /\ \A t \in told : Covered(t, both)
        BY <2>5, <4>1, <4>2, JoinedCovers
      <4>. HIDE DEF both
      <4>. QED
        BY <4>1, <4>3, FinalIsFine DEF Gathered
    <3>. QED
      BY <2>4, <3>1, <3>2
  <2>7. Phased'
    BY <2>1, <2>3, <2>6 DEF Phased, Reported
  <2>. QED
    BY <2>2, <2>7
<1>. QED
  BY <1>2, <1>3, <1>4, <1>5, <1>6, <1>7 DEF EngineNext, MainSteps

\* A report that covers what was told, and tells each once, tells the worst of each.
LEMMA GatheredIsReported == Gathered /\ Phased => WorstIsKept /\ WorstFirst
<1>. SUFFICES ASSUME Gathered, Phased, Reported
              PROVE  /\ {<<Fingerprint(f), f.sev>> : f \in ToSet(report.findings)}
                          = {<<Fingerprint(f), f.sev>> : f \in {g \in told : \A h \in told : Fingerprint(h) = Fingerprint(g) => h.sev <= g.sev}}
                     /\ Distinct(report.findings) /\ Falling(report.findings)
  BY DEF WorstIsKept, WorstFirst, Distinct, Falling
<1>. DEFINE s == report.findings
            Worst == {g \in told : \A h \in told : Fingerprint(h) = Fingerprint(g) => h.sev <= g.sev}
<1>1. Fine(s, told) /\ \A t \in told : Covered(t, s)
  BY DEF Phased
<1>. HIDE DEF s
<1>2. ToSet(s) \subseteq told /\ \A t \in told : t.sev \in Int
  <2>1. ToSet(s) \subseteq told
    BY <1>1, Listed DEF Fine
  <2>2. \A t \in told : t.sev \in Int
    BY DEF Gathered, Weighed, INFO, CRITICAL
  <2>. QED
    BY <2>1, <2>2
<1>3. \A f, g \in ToSet(s) : Fingerprint(f) = Fingerprint(g) => f = g
  <2>1. \A i, j \in DOMAIN s : Fingerprint(s[i]) = Fingerprint(s[j]) => i = j
    BY <1>1 DEF Fine, Distinct
  <2>2. \A f \in ToSet(s) : \E i \in DOMAIN s : f = s[i]
    BY DEF ToSet
  <2>. QED
    BY <2>1, <2>2, Zenon
<1>4. \A t \in told : \E f \in ToSet(s) : Fingerprint(f) = Fingerprint(t) /\ f.sev >= t.sev
  BY <1>1, CoveredHas
<1>5. ASSUME NEW f \in ToSet(s) PROVE f \in Worst
  <2>. SUFFICES ASSUME NEW h \in told, Fingerprint(h) = Fingerprint(f) PROVE h.sev <= f.sev
    BY <1>2
  <2>1. PICK g \in ToSet(s) : Fingerprint(g) = Fingerprint(h) /\ g.sev >= h.sev
    BY <1>4
  <2>2. g = f
    BY <1>3, <2>1
  <2>. QED
    BY <1>2, <2>1, <2>2
<1>6. ASSUME NEW g \in Worst PROVE \E f \in ToSet(s) : Fingerprint(f) = Fingerprint(g) /\ f.sev = g.sev
  <2>1. PICK f \in ToSet(s) : Fingerprint(f) = Fingerprint(g) /\ f.sev >= g.sev
    BY <1>4
  <2>2. f.sev <= g.sev /\ f.sev \in Int /\ g.sev \in Int
    BY <1>2, <2>1
  <2>. QED
    BY <2>1, <2>2
<1>7. {<<Fingerprint(f), f.sev>> : f \in ToSet(s)} = {<<Fingerprint(f), f.sev>> : f \in Worst}
  <2>. HIDE DEF Worst
  <2>. QED
    BY <1>5, <1>6
<1>. QED
  BY <1>1, <1>7 DEF Fine, s

(***************************************************************************)
(* Whatever the tools print and in whatever order the scanners end, the    *)
(* report has every fingerprint once, as bad as any scanner told it, the   *)
(* worst first; and consolidation leaves out what it should, and counts    *)
(* it (models.py:117-127, semgrep.py:152-221, cli.py:217-227).             *)
(***************************************************************************)
THEOREM FindingsAreKept == EngineSpec => []FindingsSurvive
<1>. DEFINE Inv == command \in DOMAIN Commands /\ Gathered /\ Phased
<1>1. EngineInit => Inv
  BY Given, FirstNothing
<1>2. Inv /\ [EngineNext]_vars => Inv'
  <2>. SUFFICES ASSUME Inv, [EngineNext]_vars PROVE Inv'
    OBVIOUS
  <2>1. (command \in DOMAIN Commands)'
    BY CommandStays
  <2>. QED
    BY <2>1, GatheredIsKept
<1>3. Inv => FindingsSurvive
  BY ReducedToAdvice, GatheredIsReported DEF FindingsSurvive
<1>. QED
  BY <1>1, <1>2, <1>3, PTL DEF EngineSpec

-----------------------------------------------------------------------------

(***************************************************************************)
(* Sums as sizes: the members of Tickets(f) are numbered from 1 for every  *)
(* element of f's domain.                                                  *)
(***************************************************************************)
Tickets(f) == UNION {{x} \X (1 .. f[x]) : x \in DOMAIN f}

LEMMA TicketsAre == \A f, t : t \in Tickets(f) <=> \E x \in DOMAIN f : \E k \in 1 .. f[x] : t = <<x, k>>
  BY DEF Tickets

LEMMA TotalIs == \A f : Total(f) = Cardinality(Tickets(f))
  BY DEF Total, Tickets

LEMMA TicketsOfOne == \A x : \A n \in Nat : IsFiniteSet({x} \X (1 .. n)) /\ Cardinality({x} \X (1 .. n)) = n
<1>. SUFFICES ASSUME NEW x, NEW n \in Nat PROVE IsFiniteSet({x} \X (1 .. n)) /\ Cardinality({x} \X (1 .. n)) = n
  OBVIOUS
<1>1. IsFiniteSet({x}) /\ Cardinality({x}) = 1
  BY FS_Singleton
<1>2. IsFiniteSet(1 .. n) /\ Cardinality(1 .. n) = n
  BY UptoHas
<1>. DEFINE S == {x}
            T == 1 .. n
<1>. HIDE DEF S, T
<1>3. IsFiniteSet(S) /\ IsFiniteSet(T) /\ Cardinality(S) = 1 /\ Cardinality(T) = n
  BY <1>1, <1>2 DEF S, T
<1>4. IsFiniteSet(S \X T) /\ Cardinality(S \X T) = Cardinality(S) * Cardinality(T)
  BY <1>3, FS_Product
<1>5. \A a, b : a = 1 /\ b = n => a * b = n
  OBVIOUS
<1>. QED
  BY <1>3, <1>4, <1>5 DEF S, T

\* The counts of a list by severity add up to its length.
LEMMA CountsAddUp ==
    ASSUME NEW T, Weighed(T), NEW s \in Seq(T)
    PROVE  Len(s) = Total(SeverityCounts(s))
<1>. DEFINE Of(v) == {i \in DOMAIN s : s[i].sev = v}
            U == Tickets(SeverityCounts(s))
            f == [i \in DOMAIN s |-> <<s[i].sev, Rank(Of(s[i].sev), i)>>]
<1>1. PICK n \in Nat : n = Len(s)
  OBVIOUS
<1>2. DOMAIN s = 1 .. n /\ IsFiniteSet(DOMAIN s) /\ Cardinality(DOMAIN s) = n /\ DOMAIN s \in SUBSET Nat
  <2>1. DOMAIN s = 1 .. n
    BY <1>1
  <2>. QED
    BY <2>1, UptoHas
<1>3. \A v : Of(v) \in SUBSET DOMAIN s /\ Of(v) \in SUBSET Nat /\ IsFiniteSet(Of(v))
  BY <1>2, FS_Subset
<1>4. \A v : Len(Rated(s, v)) = Cardinality(Of(v)) /\ Cardinality(Of(v)) \in Nat
  BY <1>3, ThoseTaken DEF Rated
<1>5. DOMAIN SeverityCounts(s) = INFO .. CRITICAL /\ \A v \in INFO .. CRITICAL : SeverityCounts(s)[v] = Cardinality(Of(v))
  BY <1>4 DEF SeverityCounts
<1>6. \A i \in DOMAIN s : s[i].sev \in INFO .. CRITICAL
  BY Listed DEF Weighed
<1>7. \A i \in DOMAIN s : i \in Of(s[i].sev) /\ Rank(Of(s[i].sev), i) \in 1 .. Cardinality(Of(s[i].sev))
  <2>1. \A i \in DOMAIN s : i \in Of(s[i].sev)
    OBVIOUS
  <2>. HIDE DEF Of
  <2>2. \A v : \A i \in Of(v) : Rank(Of(v), i) \in 1 .. Cardinality(Of(v))
    BY <1>3, Ranks
  <2>. QED
    BY <2>1, <2>2
<1>8. f \in [DOMAIN s -> U]
  <2>1. \A i \in DOMAIN s : <<s[i].sev, Rank(Of(s[i].sev), i)>> \in U
    <3>. HIDE DEF Of, U, f
    <3>1. \A t : t \in U <=> \E x \in INFO .. CRITICAL : \E k \in 1 .. Cardinality(Of(x)) : t = <<x, k>>
      <4>1. \A t : t \in U <=> \E x \in DOMAIN SeverityCounts(s) : \E k \in 1 .. SeverityCounts(s)[x] : t = <<x, k>>
        BY TicketsAre DEF U
      <4>. QED
        BY <1>5, <4>1
    <3>. QED
      BY <1>6, <1>7, <3>1
  <2>. HIDE DEF U, Of
  <2>. QED
    BY <2>1
<1>9. \A i, j \in DOMAIN s : f[i] = f[j] => i = j
  <2>. SUFFICES ASSUME NEW i \in DOMAIN s, NEW j \in DOMAIN s, f[i] = f[j] PROVE i = j
    OBVIOUS
  <2>1. s[i].sev = s[j].sev /\ Rank(Of(s[i].sev), i) = Rank(Of(s[j].sev), j)
    <3>. HIDE DEF Of
    <3>. QED
      OBVIOUS
  <2>2. i \in Of(s[i].sev) /\ j \in Of(s[i].sev)
    BY <2>1
  <2>. HIDE DEF Of, f
  <2>. QED
    BY <1>3, <2>1, <2>2, Ranks
<1>10. \A t \in U : \E i \in DOMAIN s : f[i] = t
  <2>. SUFFICES ASSUME NEW t \in U PROVE \E i \in DOMAIN s : f[i] = t
    OBVIOUS
  <2>1. PICK v \in INFO .. CRITICAL : \E k \in 1 .. Cardinality(Of(v)) : t = <<v, k>>
    <3>1. PICK v \in DOMAIN SeverityCounts(s) : \E k \in 1 .. SeverityCounts(s)[v] : t = <<v, k>>
      BY TicketsAre
    <3>. HIDE DEF Of, U, f
    <3>. QED
      BY <1>5, <3>1
  <2>2. PICK k \in 1 .. Cardinality(Of(v)) : t = <<v, k>>
    BY <2>1
  <2>. DEFINE i == Nth(Of(v), k)
  <2>3. i \in Of(v) /\ Rank(Of(v), i) = k
    <3>. HIDE DEF Of, U, f
    <3>. QED
      BY <1>3, Ranks
  <2>4. i \in DOMAIN s /\ s[i].sev = v
    BY <2>3
  <2>5. f[i] = <<v, k>>
    <3>. HIDE DEF Of, U, i
    <3>. QED
      BY <2>3, <2>4
  <2>. QED
    BY <2>2, <2>4, <2>5
<1>. HIDE DEF f, U, Of
<1>11. f \in Surjection(DOMAIN s, U) /\ f \in Injection(DOMAIN s, U)
  BY <1>8, <1>9, <1>10 DEF Surjection, Injection, IsInjective
<1>12. Cardinality(U) = Cardinality(DOMAIN s)
  BY <1>2, <1>11, FS_Surjection
<1>. QED
  BY <1>1, <1>2, <1>12, TotalIs DEF U

LEMMA DistinctLength ==
    ASSUME NEW T, NEW s \in Seq(T), Distinct(s)
    PROVE  IsFiniteSet(ToSet(s)) /\ Cardinality(ToSet(s)) = Len(s)
<1>1. PICK n \in Nat : n = Len(s)
  OBVIOUS
<1>2. DOMAIN s = 1 .. n /\ IsFiniteSet(1 .. n) /\ Cardinality(1 .. n) = n
  BY <1>1, UptoHas
<1>. DEFINE f == [i \in 1 .. n |-> s[i]]
<1>3. f \in Surjection(1 .. n, ToSet(s))
  BY <1>2 DEF Surjection, ToSet
<1>4. f \in Injection(1 .. n, ToSet(s))
  <2>1. f \in [1 .. n -> ToSet(s)]
    BY <1>2 DEF ToSet
  <2>2. \A i, j \in 1 .. n : f[i] = f[j] => i = j
    BY <1>2 DEF Distinct
  <2>. QED
    BY <2>1, <2>2 DEF Injection, IsInjective
<1>. HIDE DEF f
<1>. QED
  BY <1>1, <1>2, <1>3, <1>4, FS_Surjection

LEMMA FinalIsShorter ==
    ASSUME NEW T, Weighed(T), NEW s \in Seq(T)
    PROVE  Len(SortBySeverity(Deduplicate(s))) \in Nat /\ Len(SortBySeverity(Deduplicate(s))) <= Len(s)
<1>. DEFINE d == Deduplicate(s)
<1>1. d \in Seq(T) /\ Distinct(d)
  BY Deduplicated
<1>2. SortBySeverity(d) \in Seq(T) /\ Distinct(SortBySeverity(d)) /\ ToSet(SortBySeverity(d)) = ToSet(d)
  <2>. HIDE DEF d
  <2>. QED
    BY <1>1, SortedFalls
<1>3. Len(SortBySeverity(d)) = Len(d)
  <2>. HIDE DEF d
  <2>. QED
    BY <1>1, <1>2, DistinctLength
<1>4. Len(d) = Cardinality(Firsts(s)) /\ Cardinality(Firsts(s)) \in Nat
  <2>. DEFINE w == [i \in DOMAIN s |-> s[FirstWorst(s, i)]]
  <2>1. \A i \in DOMAIN s : w[i] \in T
    <3>1. \A i \in DOMAIN s : FirstWorst(s, i) \in DOMAIN s
      BY FirstWorstIs DEF Same
    <3>. QED
      BY <3>1, Listed
  <2>2. w \in Seq(T) /\ DOMAIN w = DOMAIN s
    <3>1. PICK n \in Nat : n = Len(s)
      OBVIOUS
    <3>2. DOMAIN s = 1 .. n
      BY <3>1
    <3>3. w \in [1 .. n -> T]
      BY <2>1, <3>2
    <3>4. \A g \in [1 .. n -> T] : g \in Seq(T)
      OBVIOUS
    <3>. QED
      BY <3>3, <3>4
  <2>3. d = Those(w, Firsts(s)) /\ Firsts(s) \in SUBSET DOMAIN w
    BY DEF Deduplicate, Firsts
  <2>. HIDE DEF w, d
  <2>. QED
    BY <2>2, <2>3, ThoseTaken
<1>5. Cardinality(Firsts(s)) <= Len(s)
  <2>1. PICK n \in Nat : n = Len(s)
    OBVIOUS
  <2>2. IsFiniteSet(1 .. n) /\ Cardinality(1 .. n) = n /\ DOMAIN s = 1 .. n
    BY <2>1, UptoHas
  <2>3. Firsts(s) \in SUBSET (1 .. n)
    BY <2>2 DEF Firsts
  <2>. QED
    BY <2>1, <2>2, <2>3, FS_Subset
<1>. QED
  BY <1>3, <1>4, <1>5

-----------------------------------------------------------------------------

\* A profile of a half is of the scanners of that half.
LEMMA ProfilesOfTheHalf ==
    ASSUME NEW stage \in Halves, NEW prof \in StageProfile(C, C.world, stage)
    PROVE  prof.mode = stage
<1>1. SourceProfile(C.world.dir).mode = "source" /\ \A i, u, n : RuntimeProfile(i, u, n).mode = "runtime"
  BY DEF SourceProfile, RuntimeProfile
<1>2. ASSUME NEW w, NEW target, NEW image, NEW pid, NEW url, NEW q \in ProfileTarget(w, target, image, pid, url)
      PROVE  \/ q = SourceProfile(w.dir) /\ target # None
             \/ /\ \E i, u, n : q = RuntimeProfile(i, u, n)
                /\ image # None \/ pid # None \/ url # None
  <2>. DEFINE given == {b \in {<<"target", target>>, <<"image", image>>, <<"pid", pid>>, <<"url", url>>} : b[2] # None}
              args  == {a[1] : a \in given}
  <2>1. ProfileTarget(w, target, image, pid, url) =
          CASE args = {"target"} -> IF w.dir.exists THEN {SourceProfile(w.dir)} ELSE {}
            [] args \in {{"image"}, {"image", "url"}} -> {RuntimeProfile(image, url, ports) : ports \in {w.ports, {}}}
            [] args = {"url"} -> {RuntimeProfile(None, url, {PortFromUrl(w.address)})}
            [] args = {"pid"} -> {RuntimeProfile(None, None, {})}
            [] OTHER -> {}
    BY DEF ProfileTarget
  <2>2. /\ "target" \in args => target # None
        /\ "image" \in args => image # None
        /\ "pid" \in args => pid # None
        /\ "url" \in args => url # None
    OBVIOUS
  <2>. HIDE DEF given, args
  <2>3. \/ args = {"target"} /\ q = SourceProfile(w.dir)
        \/ args \in {{"image"}, {"image", "url"}, {"url"}, {"pid"}} /\ \E i, u, n : q = RuntimeProfile(i, u, n)
    BY <2>1
  <2>. QED
    BY <2>2, <2>3
<1>3. CASE stage = "source"
  <2>1. prof \in ProfileTarget(C.world, C.target, None, None, None)
    BY <1>3 DEF StageProfile
  <2>. QED
    BY <1>1, <1>2, <1>3, <2>1
<1>4. CASE stage = "runtime"
  <2>1. prof \in ProfileTarget(C.world, None, C.image, IF C.cmd = "full" THEN None ELSE C.pid, C.url)
    BY <1>4 DEF StageProfile
  <2>. QED
    BY <1>1, <1>2, <1>4, <2>1
<1>. QED
  BY <1>3, <1>4 DEF Halves

Counts(e) == [p \in PluginsThat(e, "success") |-> e[p].count]

\* As many findings as were counted, or less.
Enough(fs, e) == IsFiniteSet(Tickets(Counts(e))) /\ Len(fs) \in Nat /\ Len(fs) <= Cardinality(Tickets(Counts(e)))

LEMMA CountedAre ==
    \A e, t : t \in Tickets(Counts(e)) <=> \E p \in PluginsThat(e, "success") : \E k \in 1 .. e[p].count : t = <<p, k>>
  BY TicketsAre DEF Counts

NoPlugin == "none applicable"

LEMMA NoPluginIsNone == NoPlugin \notin Plugins
<1>1. DOMAIN Registry = 1 .. 7 /\ \A i \in 1 .. 7 : Registry[i] # NoPlugin
  BY DEF Registry, NoPlugin
<1>. QED
  BY <1>1, PluginsOfTheRegistry

(***************************************************************************)
(* The report r tells of every scanner what became of it: those it does    *)
(* not skip were collected, and are of this mode if a mode is given.       *)
(***************************************************************************)
Tells(r) ==
    /\ DOMAIN r.execution = Plugins
    /\ \A p \in Plugins : r.execution[p].status \in {"success", "failed", "skipped"}
    /\ r.errors \ {NoPlugin} = PluginsThat(r.execution, "failed")
    /\ Enough(r.findings, r.execution)

TellsOf(r, mode) ==
    Tells(r) /\ \A p \in Plugins : r.execution[p].status # "skipped" => Mode(p) = mode /\ at[p] = "collected"

\* Of a scanner at work: it was selected, and it is not told of before it is collected.
Running ==
    /\ status = [p \in Plugins |-> status[p]] /\ queue \subseteq Selected
    /\ \A p \in Plugins :
          /\ p \notin Selected => status[p] = Skipped
          /\ p \in Selected /\ at[p] = "collected" => status[p].status \in {"success", "failed"}
          /\ p \in Selected /\ at[p] # "collected" => status[p].status = "running"
    /\ errors \ {NoPlugin} = PluginsThat(status, "failed")
    /\ Enough(findings, status)

(***************************************************************************)
(* The strengthening: the halves that ended told of their scanners, no     *)
(* scanner belongs to two, and what was collected is told of in one.       *)
(***************************************************************************)
Ordered ==
    /\ \A k \in DOMAIN stages : stages[k] = Stages(C)[Len(halves) + k]
    /\ phase \in {"select", "scan"} => profile.mode = Head(stages)

Executed ==
    /\ \A i \in DOMAIN halves : TellsOf(halves[i], Stages(C)[i])
    /\ \A p \in Plugins :
          /\ at[p] \notin {"idle", "collected"} => phase = "scan" /\ p \in Selected
          /\ at[p] = "collected" => \/ \E i \in DOMAIN halves : halves[i].execution[p].status # "skipped"
                                    \/ phase = "scan" /\ p \in Selected
    /\ phase = "scan" => Running
    /\ Reported => Tells(report) /\ \A p \in Plugins : report.execution[p].status = "skipped" <=> at[p] # "collected"

Closed ==
    /\ phase = "write" => report # NoReport
    /\ phase = "done" => IF report = NoReport THEN code = 2 ELSE code = ExitCode(report.findings, C.failOn)

LEMMA StagesDiffer == \A i, j \in DOMAIN Stages(C) : Stages(C)[i] = Stages(C)[j] => i = j
  BY DEF Stages

LEMMA PlaceOfStages ==
    Gathered /\ IsList(stages) =>
        /\ DOMAIN halves = 1 .. Len(halves) /\ Len(halves) \in Nat
        /\ DOMAIN stages = 1 .. Len(stages) /\ Len(stages) \in Nat
        /\ DOMAIN Stages(C) = 1 .. Len(halves) + Len(stages)
<1>. SUFFICES ASSUME Gathered, IsList(stages)
              PROVE  /\ DOMAIN halves = 1 .. Len(halves) /\ Len(halves) \in Nat
                     /\ DOMAIN stages = 1 .. Len(stages) /\ Len(stages) \in Nat
                     /\ DOMAIN Stages(C) = 1 .. Len(halves) + Len(stages)
  OBVIOUS
<1>1. DOMAIN halves = 1 .. Len(halves) /\ Len(halves) \in Nat
  BY DEF Gathered, IsList
<1>2. DOMAIN stages = 1 .. Len(stages) /\ Len(stages) \in Nat
  BY DEF Gathered, IsList
<1>3. DOMAIN Stages(C) = 1 .. Len(Stages(C))
  BY StagesAreFew
<1>. QED
  BY <1>1, <1>2, <1>3 DEF Gathered

\* The mode of the half that runs is that of no half before it.
LEMMA HalvesDiffer ==
    Gathered /\ Phased /\ Ordered /\ phase \in {"select", "scan"} =>
        /\ profile.mode = Stages(C)[Len(halves) + 1]
        /\ \A i \in DOMAIN halves : Stages(C)[i] # profile.mode
<1>. SUFFICES ASSUME Gathered, Phased, Ordered, phase \in {"select", "scan"}
              PROVE  /\ profile.mode = Stages(C)[Len(halves) + 1]
                     /\ \A i \in DOMAIN halves : Stages(C)[i] # profile.mode
  OBVIOUS
<1>0. IsList(stages)
  BY Listed DEF Gathered, IsList
<1>1. stages # <<>>
  BY DEF Phased
<1>2. PICK m \in Nat, n \in Nat : n = Len(halves) /\ m = Len(stages)
  BY <1>0, PlaceOfStages
<1>3. DOMAIN halves = 1 .. n /\ DOMAIN stages = 1 .. m /\ DOMAIN Stages(C) = 1 .. n + m
  BY <1>0, <1>2, PlaceOfStages
<1>4. m # 0
  BY <1>1, <1>2 DEF Gathered
<1>5. profile.mode = stages[1] /\ stages[1] = Stages(C)[n + 1]
  <2>1. ASSUME NEW T, NEW s \in Seq(T), s # <<>> PROVE Head(s) = s[1]
    BY <2>1
  <2>2. Head(stages) = stages[1]
    BY <1>1, <2>1 DEF Gathered
  <2>3. 1 \in 1 .. m
    BY <1>4
  <2>. QED
    BY <1>2, <1>3, <2>2, <2>3 DEF Ordered
<1>6. n + 1 \in 1 .. n + m /\ \A i \in 1 .. n : i \in 1 .. n + m /\ i # n + 1
  BY <1>4
<1>. QED
  BY <1>2, <1>3, <1>5, <1>6, StagesDiffer

LEMMA StagesListed == Gathered => IsList(stages)
  BY Listed DEF Gathered, IsList

LEMMA OrderedIsKept == Gathered /\ Phased /\ Ordered /\ [EngineNext]_vars => Ordered'
<1>. SUFFICES ASSUME Gathered, Phased, Ordered, [EngineNext]_vars PROVE Ordered'
  OBVIOUS
<1>1. C' = C
  BY CommandStays
<1>2. CASE ParseArgs \/ RunEngine \/ TakeWork \/ MakeReport \/ WriteAndExit \/ UNCHANGED vars
  <2>1. /\ UNCHANGED <<stages, halves, profile>>
        /\ phase' \in {"select", "scan"} => phase \in {"select", "scan"}
    BY <1>2 DEF ParseArgs, RunEngine, TakeWork, MakeReport, WriteAndExit, Exit, vars, engineVars
  <2>. QED
    BY <1>1, <2>1 DEF Ordered
<1>3. CASE \E p \in Plugins : ScannerStep(p) \/ Collect(p)
  <2>1. UNCHANGED <<stages, halves, profile, phase>>
    BY <1>3 DEF ScannerStep, Collect
  <2>. QED
    BY <1>1, <2>1 DEF Ordered
<1>4. CASE ProfileStage
  <2>1. UNCHANGED <<stages, halves>> /\ phase = "profile"
    BY <1>4 DEF ProfileStage
  <2>2. phase' \in {"select", "scan"} => profile' \in StageProfile(C, C.world, Head(stages))
    BY <1>4 DEF ProfileStage, Exit
  <2>3. Head(stages) \in Halves
    <3>1. ASSUME NEW T, NEW s \in Seq(T), s # <<>> PROVE Head(s) \in T
      BY <3>1
    <3>. QED
      BY <2>1, <3>1 DEF Gathered, Phased
  <2>4. phase' \in {"select", "scan"} => profile'.mode = Head(stages)
    BY <2>2, <2>3, ProfilesOfTheHalf
  <2>. QED
    BY <1>1, <2>1, <2>4 DEF Ordered
<1>5. CASE EngineEnds
  <2>1. /\ Len(halves') = Len(halves) + 1 /\ stages' = Tail(stages) /\ phase = "scan"
        /\ phase' \in {"half", "profile"}
    <3>1. ASSUME NEW T, NEW s \in Seq(T), NEW x PROVE Len(Append(s, x)) = Len(s) + 1
      OBVIOUS
    <3>2. \E x : halves' = Append(halves, x)
      BY <1>5 DEF EngineEnds
    <3>. QED
      BY <1>5, <3>1, <3>2 DEF EngineEnds, Gathered, IsList
  <2>2. PICK m \in Nat, n \in Nat : n = Len(halves) /\ m = Len(stages)
    BY PlaceOfStages, StagesListed
  <2>3. stages # <<>>
    BY <2>1 DEF Phased
  <2>4. m # 0 /\ DOMAIN stages = 1 .. m /\ DOMAIN Tail(stages) = 1 .. m - 1 /\ \A k \in 1 .. m - 1 : Tail(stages)[k] = stages[k + 1]
    BY <2>2, <2>3 DEF Gathered
  <2>5. \A k \in 1 .. m - 1 : k + 1 \in 1 .. m /\ n + (k + 1) = (n + 1) + k
    OBVIOUS
  <2>6. \A k \in 1 .. m - 1 : Tail(stages)[k] = Stages(C)[(n + 1) + k]
    BY <2>2, <2>4, <2>5 DEF Ordered
  <2>. QED
    BY <1>1, <2>1, <2>2, <2>4, <2>6 DEF Ordered
<1>. QED
  BY <1>2, <1>3, <1>4, <1>5 DEF EngineNext, MainSteps

\* Of the places a scanner may be at, a step of its own leads neither from nor to the last.
LEMMA StepsBetween ==
    ASSUME NEW p \in Plugins, RunTypeOK, ScannerStep(p)
    PROVE  at[p] \notin {"idle", "collected"} /\ \E place \in Places \ {"idle", "collected"} : Go(p, place)
  BY DEF ScannerStep, FindingStep, QuietStep, ToolAnswers, ToolIsOdd, ToolFails, Dump, Measure, CheckUrl, CreateNetwork,
         RunSandboxed, WaitForContainer, StopContainer, RemoveNetwork, StartService, AskPort, Unstart,
         WaitForHealth, AfterStop, Places

LEMMA RunningBegins ==
    Gathered /\ Phased /\ Ordered /\ Executed /\ RunEngine /\ phase' = "scan" => Running'
<1>. SUFFICES ASSUME Gathered, Phased, Ordered, Executed, RunEngine, phase' = "scan" PROVE Running'
  OBVIOUS
<1>1. /\ status' = [p \in Plugins |-> IF p \in Selected THEN [status |-> "running", count |-> 0] ELSE Skipped]
      /\ queue' = Selected /\ errors' \in {{NoPlugin}, {}} /\ findings' = <<>> /\ UNCHANGED <<at, profile, command>>
      /\ phase = "select"
  BY DEF RunEngine, Exit, NoPlugin, runVars
<1>2. Selected' = Selected
  BY <1>1 DEF Selected, C
<1>0. \A i \in DOMAIN halves : Stages(C)[i] # profile.mode
  BY <1>1, HalvesDiffer
<1>3. \A p \in Selected : p \in Plugins /\ at[p] # "collected"
  <2>. SUFFICES ASSUME NEW p \in Selected, at[p] = "collected" PROVE FALSE
    BY SelectedAreRegistered
  <2>1. p \in Plugins /\ Mode(p) = profile.mode
    BY SelectedAreRegistered DEF Selected, SelectPlugins
  <2>2. PICK i \in DOMAIN halves : halves[i].execution[p].status # "skipped"
    BY <1>1, <2>1 DEF Executed
  <2>3. Mode(p) = Stages(C)[i]
    BY <2>1, <2>2 DEF Executed, TellsOf
  <2>. QED
    BY <1>0, <2>1, <2>3
<1>4. PluginsThat(status', "failed") = {} /\ PluginsThat(status', "success") = {}
  BY <1>1 DEF PluginsThat, Skipped
<1>5. Enough(findings, status)'
  <2>1. Tickets(Counts(status')) = {}
    BY <1>4, CountedAre
  <2>2. Len(findings') = 0
    BY <1>1
  <2>3. IsFiniteSet({}) /\ Cardinality({}) = 0
    BY FS_EmptySet
  <2>. QED
    BY <2>1, <2>2, <2>3 DEF Enough
<1>6. status' = [p \in Plugins |-> status'[p]]
  BY <1>1
<1>7. \A p \in Plugins : /\ p \notin Selected => status'[p] = Skipped
                         /\ p \in Selected => status'[p].status = "running"
  BY <1>1
<1>. QED
  BY <1>1, <1>2, <1>3, <1>4, <1>5, <1>6, <1>7 DEF Running

\* What a scanner does between its first place and its last changes nothing that is told of it.
LEMMA ExecutedBetween ==
    ASSUME Executed, phase = "scan", UNCHANGED <<command, phase, profile, status, findings, errors, halves, report>>,
           queue' \subseteq queue,
           \A p \in Plugins : \/ at'[p] = at[p]
                              \/ p \in Selected /\ at[p] # "collected" /\ at'[p] # "collected"
    PROVE  Executed'
<1>1. C' = C /\ Selected' = Selected
  BY DEF C, Selected
<1>2. \A p \in Plugins : at'[p] = "collected" <=> at[p] = "collected"
  OBVIOUS
<1>3. \A i \in DOMAIN halves' : TellsOf(halves[i], Stages(C)[i])'
  <2>. SUFFICES ASSUME NEW i \in DOMAIN halves PROVE TellsOf(halves[i], Stages(C)[i])'
    OBVIOUS
  <2>1. TellsOf(halves[i], Stages(C)[i])
    BY DEF Executed
  <2>. QED
    BY <1>1, <1>2, <2>1 DEF TellsOf, Tells
<1>4. Running'
  BY <1>1, <1>2 DEF Executed, Running
<1>5. \A p \in Plugins :
          /\ at'[p] \notin {"idle", "collected"} => p \in Selected'
          /\ at'[p] = "collected" => \/ \E i \in DOMAIN halves' : halves'[i].execution[p].status # "skipped"
                                     \/ p \in Selected'
  BY <1>1, <1>2 DEF Executed
<1>6. ~Reported'
  BY DEF Reported
<1>. QED
  BY <1>3, <1>4, <1>5, <1>6 DEF Executed

\* No scanner is at work before and after the engine runs.
LEMMA ExecutedOutside ==
    ASSUME Executed, phase # "scan", phase' # "scan", UNCHANGED <<command, at, halves, report>>, Reported' => Reported
    PROVE  Executed'
<1>1. C' = C
  BY DEF C
<1>2. \A i \in DOMAIN halves' : TellsOf(halves[i], Stages(C)[i])'
  BY <1>1 DEF Executed, TellsOf, Tells
<1>3. \A p \in Plugins :
          /\ at'[p] \in {"idle", "collected"}
          /\ at'[p] = "collected" => \E i \in DOMAIN halves' : halves'[i].execution[p].status # "skipped"
  BY DEF Executed
<1>4. Reported' => Tells(report)' /\ \A p \in Plugins : report'.execution[p].status = "skipped" <=> at'[p] # "collected"
  BY DEF Executed, Tells
<1>. QED
  BY <1>2, <1>3, <1>4 DEF Executed

\* A scanner that succeeds adds its findings to those that were counted.
LEMMA TicketsGrow ==
    ASSUME NEW e, NEW p \in DOMAIN e, e[p].status # "success", IsFiniteSet(Tickets(Counts(e))),
           NEW g, DOMAIN g = DOMAIN e, NEW n \in Nat, g[p] = [status |-> "success", count |-> n],
           \A q \in DOMAIN e \ {p} : g[q] = e[q]
    PROVE  /\ IsFiniteSet(Tickets(Counts(g)))
           /\ Cardinality(Tickets(Counts(g))) = Cardinality(Tickets(Counts(e))) + n
<1>1. g[p].status = "success" /\ g[p].count = n
  OBVIOUS
<1>2. PluginsThat(g, "success") = PluginsThat(e, "success") \cup {p} /\ p \notin PluginsThat(e, "success")
  BY <1>1 DEF PluginsThat
<1>. DEFINE new == {p} \X (1 .. n)
<1>3. \A t : t \in new <=> \E k \in 1 .. n : t = <<p, k>>
  OBVIOUS
<1>4. IsFiniteSet(new) /\ Cardinality(new) = n
  BY TicketsOfOne
<1>. HIDE DEF new
<1>5. \A t : t \in Tickets(Counts(g)) <=> t \in Tickets(Counts(e)) \/ t \in new
  <2>1. \A q \in PluginsThat(e, "success") : g[q].count = e[q].count
    BY <1>1, <1>2 DEF PluginsThat
  <2>2. \A t : (\E q \in PluginsThat(g, "success") : \E k \in 1 .. g[q].count : t = <<q, k>>)
                 <=> \/ \E q \in PluginsThat(e, "success") : \E k \in 1 .. e[q].count : t = <<q, k>>
                     \/ \E k \in 1 .. n : t = <<p, k>>
    BY <1>1, <1>2, <2>1
  <2>3. /\ \A t : t \in Tickets(Counts(g)) <=> \E q \in PluginsThat(g, "success") : \E k \in 1 .. g[q].count : t = <<q, k>>
        /\ \A t : t \in Tickets(Counts(e)) <=> \E q \in PluginsThat(e, "success") : \E k \in 1 .. e[q].count : t = <<q, k>>
    BY CountedAre
  <2>. QED
    BY <1>3, <2>2, <2>3
<1>6. Tickets(Counts(e)) \cap new = {}
  <2>. SUFFICES ASSUME NEW t, t \in Tickets(Counts(e)), t \in new PROVE FALSE
    OBVIOUS
  <2>1. PICK q \in PluginsThat(e, "success") : \E k \in 1 .. e[q].count : t = <<q, k>>
    BY CountedAre
  <2>2. t[1] = q /\ t[1] = p
    BY <1>3, <2>1
  <2>. QED
    BY <1>2, <2>2
<1>7. Tickets(Counts(g)) = Tickets(Counts(e)) \cup new
  BY <1>5
<1>8. /\ IsFiniteSet(Tickets(Counts(g)))
      /\ Cardinality(Tickets(Counts(g))) = Cardinality(Tickets(Counts(e))) + n - Cardinality({})
  <2>1. ASSUME NEW A, NEW B, IsFiniteSet(A), IsFiniteSet(B), A \cap B = {}
        PROVE  IsFiniteSet(A \cup B) /\ Cardinality(A \cup B) = Cardinality(A) + Cardinality(B) - Cardinality({})
    BY <2>1, FS_Union
  <2>. QED
    BY <1>4, <1>6, <1>7, <2>1
<1>9. Cardinality(Tickets(Counts(e))) \in Nat /\ Cardinality({}) = 0
  BY FS_CardinalityType, FS_EmptySet
<1>. QED
  BY <1>8, <1>9

LEMMA ExecutedCollects ==
    ASSUME RunTypeOK, Gathered, Phased, Executed, NEW p \in Plugins, Collect(p)
    PROVE  Executed'
<1>1. /\ UNCHANGED <<command, phase, profile, queue, halves, report>> /\ phase = "scan"
      /\ at' = [at EXCEPT ![p] = "collected"] /\ at[p] \in {"returned", "raised"}
  BY DEF Collect, Collected, Go
<1>2. C' = C /\ Selected' = Selected
  BY <1>1 DEF C, Selected
<1>3. Running /\ p \in Selected /\ status[p].status = "running"
  BY <1>1 DEF Executed, Running
<1>4. \A q \in Plugins : at'[q] = IF q = p THEN "collected" ELSE at[q]
  BY <1>1 DEF RunTypeOK
<1>5. \A i \in DOMAIN halves' : TellsOf(halves[i], Stages(C)[i])'
  <2>. SUFFICES ASSUME NEW i \in DOMAIN halves PROVE TellsOf(halves[i], Stages(C)[i])'
    BY <1>1
  <2>1. TellsOf(halves[i], Stages(C)[i])
    BY DEF Executed
  <2>. QED
    BY <1>1, <1>2, <1>4, <2>1 DEF TellsOf, Tells
<1>6. \E s \in {"success", "failed"}, n \in Nat :
          /\ status' = [status EXCEPT ![p] = [status |-> s, count |-> n]]
          /\ s = "success" => n = Len(value[p]) /\ findings' = findings \o value[p] /\ errors' = errors
          /\ s = "failed" => findings' = findings /\ errors' = errors \cup {p}
  <2>1. Len(value[p]) \in Nat
    BY DEF Gathered, Good, IsList
  <2>. QED
    BY <2>1 DEF Collect
<1>7. PICK s \in {"success", "failed"}, n \in Nat :
          /\ status' = [status EXCEPT ![p] = [status |-> s, count |-> n]]
          /\ s = "success" => n = Len(value[p]) /\ findings' = findings \o value[p] /\ errors' = errors
          /\ s = "failed" => findings' = findings /\ errors' = errors \cup {p}
  BY <1>6
<1>8. /\ DOMAIN status = Plugins /\ DOMAIN status' = Plugins
      /\ \A q \in Plugins \ {p} : status'[q] = status[q]
      /\ status'[p] = [status |-> s, count |-> n]
      /\ status' = [q \in Plugins |-> status'[q]]
  BY <1>3, <1>7 DEF Running
<1>9. errors' \ {NoPlugin} = PluginsThat(status', "failed")
  <2>1. errors \ {NoPlugin} = PluginsThat(status, "failed") /\ p # NoPlugin
    BY <1>3, NoPluginIsNone DEF Running
  <2>2. s = "success" => PluginsThat(status', "failed") = PluginsThat(status, "failed")
    BY <1>3, <1>8 DEF PluginsThat
  <2>3. s = "failed" => PluginsThat(status', "failed") = PluginsThat(status, "failed") \cup {p}
    BY <1>8 DEF PluginsThat
  <2>. QED
    BY <1>7, <2>1, <2>2, <2>3
<1>10. Enough(findings', status')
  <2>1. CASE s = "success"
    <3>1. PICK l \in Nat : l = Len(findings)
      BY DEF Gathered
    <3>2. Len(findings') = l + n
      <4>1. \A T, U : \A a \in Seq(T), b \in Seq(U) : Len(a \o b) = Len(a) + Len(b)
        OBVIOUS
      <4>2. \E T, U : findings \in Seq(T) /\ value[p] \in Seq(U)
        BY DEF Gathered, Good, IsList
      <4>3. Len(findings \o value[p]) = Len(findings) + Len(value[p])
        BY <4>1, <4>2
      <4>. QED
        BY <1>7, <2>1, <3>1, <4>3
    <3>3. IsFiniteSet(Tickets(Counts(status))) /\ l <= Cardinality(Tickets(Counts(status)))
      BY <1>3, <3>1 DEF Running, Enough
    <3>4. /\ IsFiniteSet(Tickets(Counts(status')))
          /\ Cardinality(Tickets(Counts(status'))) = Cardinality(Tickets(Counts(status))) + n
      <4>1. p \in DOMAIN status /\ status[p].status # "success" /\ DOMAIN status' = DOMAIN status
        BY <1>3, <1>8
      <4>2. status'[p] = [status |-> "success", count |-> n] /\ \A q \in DOMAIN status \ {p} : status'[q] = status[q]
        BY <1>8, <2>1
      <4>. QED
        BY <3>3, <4>1, <4>2, TicketsGrow
    <3>5. Cardinality(Tickets(Counts(status))) \in Nat
      BY <3>3, FS_CardinalityType
    <3>. QED
      BY <3>2, <3>3, <3>4, <3>5 DEF Enough
  <2>2. CASE s = "failed"
    <3>1. PluginsThat(status', "success") = PluginsThat(status, "success")
      BY <1>3, <1>8, <2>2 DEF PluginsThat
    <3>2. \A q \in PluginsThat(status, "success") : status'[q] = status[q]
      BY <1>3, <1>8 DEF PluginsThat
    <3>3. Counts(status') = Counts(status)
      BY <3>1, <3>2 DEF Counts
    <3>. QED
      BY <1>3, <1>7, <2>2, <3>3 DEF Running, Enough
  <2>. QED
    BY <2>1, <2>2
<1>11. Running'
  <2>1. queue' \subseteq Selected'
    BY <1>1, <1>2, <1>3 DEF Running
  <2>2. ASSUME NEW q \in Plugins
        PROVE  /\ q \notin Selected => status'[q] = Skipped
               /\ q \in Selected /\ at'[q] = "collected" => status'[q].status \in {"success", "failed"}
               /\ q \in Selected /\ at'[q] # "collected" => status'[q].status = "running"
    BY <1>3, <1>4, <1>8 DEF Running
  <2>. QED
    BY <1>2, <1>8, <1>9, <1>10, <2>1, <2>2 DEF Running
<1>12. \A q \in Plugins :
          /\ at'[q] \notin {"idle", "collected"} => q \in Selected'
          /\ at'[q] = "collected" => \/ \E i \in DOMAIN halves' : halves'[i].execution[q].status # "skipped"
                                     \/ q \in Selected'
  BY <1>1, <1>2, <1>3, <1>4 DEF Executed
<1>13. ~Reported'
  BY <1>1 DEF Reported
<1>. QED
  BY <1>1, <1>5, <1>11, <1>12, <1>13 DEF Executed

\* The half that ends tells of the scanners of its mode.
LEMMA HalfTells ==
    ASSUME Gathered, Phased, Ordered, Executed, EngineEnds, NEW half, half.findings = SortBySeverity(Deduplicate(findings)),
           half.errors = errors, half.execution = status
    PROVE  /\ TellsOf(half, Stages(C)[Len(halves) + 1])
           /\ \A p \in Selected : half.execution[p].status # "skipped"
<1>1. Running /\ phase = "scan" /\ \A p \in Selected : at[p] = "collected"
  BY DEF EngineEnds, Executed
<1>2. profile.mode = Stages(C)[Len(halves) + 1]
  BY <1>1, HalvesDiffer
<1>3. DOMAIN status = Plugins
  BY <1>1 DEF Running
<1>4. \A p \in Plugins : /\ p \in Selected => status[p].status \in {"success", "failed"}
                         /\ p \notin Selected => status[p].status = "skipped"
  BY <1>1 DEF Running, Skipped
<1>5. \A p \in Selected : p \in Plugins /\ Mode(p) = profile.mode
  BY SelectedAreRegistered DEF Selected, SelectPlugins
<1>6. Enough(half.findings, status)
  <2>1. Enough(findings, status)
    BY <1>1 DEF Running
  <2>2. /\ Len(SortBySeverity(Deduplicate(findings))) \in Nat
        /\ Len(SortBySeverity(Deduplicate(findings))) <= Len(findings)
    BY FinalIsShorter DEF Gathered
  <2>3. PICK l \in Nat : l = Len(findings)
    BY <2>1 DEF Enough
  <2>4. PICK m \in Nat : m = Len(SortBySeverity(Deduplicate(findings)))
    BY <2>2
  <2>5. PICK c \in Nat : c = Cardinality(Tickets(Counts(status)))
    BY <2>1, FS_CardinalityType DEF Enough
  <2>6. m <= l /\ l <= c
    BY <2>1, <2>2, <2>3, <2>4, <2>5 DEF Enough
  <2>7. m <= c
    BY <2>6
  <2>. QED
    BY <2>1, <2>4, <2>5, <2>7 DEF Enough
<1>7. Tells(half)
  BY <1>1, <1>3, <1>4, <1>6 DEF Tells, Running
<1>. QED
  BY <1>1, <1>2, <1>4, <1>5, <1>7, SelectedAreRegistered DEF TellsOf

LEMMA ExecutedEnds ==
    ASSUME Gathered, Phased, Ordered, Executed, EngineEnds
    PROVE  Executed'
<1>. DEFINE half == [findings |-> SortBySeverity(Deduplicate(findings)), errors |-> errors, execution |-> status]
<1>1. /\ halves' = Append(halves, half) /\ phase = "scan" /\ phase' \in {"half", "profile"}
      /\ UNCHANGED <<command, at>> /\ \A p \in Selected : at[p] = "collected"
  BY DEF EngineEnds, runVars
<1>2. TellsOf(half, Stages(C)[Len(halves) + 1]) /\ \A p \in Selected : half.execution[p].status # "skipped"
  BY HalfTells
<1>. HIDE DEF half
<1>3. PICK n \in Nat : n = Len(halves)
  BY DEF Gathered, IsList
<1>4. DOMAIN halves = 1 .. n /\ DOMAIN halves' = 1 .. n + 1 /\ halves'[n + 1] = half /\ \A i \in 1 .. n : halves'[i] = halves[i]
  <2>1. ASSUME NEW T, NEW s \in Seq(T), NEW l \in Nat, l = Len(s), NEW x
        PROVE  /\ DOMAIN s = 1 .. l /\ DOMAIN Append(s, x) = 1 .. l + 1
               /\ Append(s, x)[l + 1] = x /\ \A i \in 1 .. l : Append(s, x)[i] = s[i]
    BY <2>1
  <2>. QED
    BY <1>1, <1>3, <2>1 DEF Gathered, IsList
<1>5. C' = C
  BY <1>1 DEF C
<1>6. \A i \in DOMAIN halves' : TellsOf(halves[i], Stages(C)[i])'
  <2>1. \A i \in 1 .. n + 1 : i = n + 1 \/ i \in 1 .. n
    OBVIOUS
  <2>2. \A i \in 1 .. n + 1 : TellsOf(halves'[i], Stages(C)[i])
    BY <1>2, <1>3, <1>4, <2>1 DEF Executed
  <2>. QED
    BY <1>1, <1>4, <1>5, <2>2 DEF TellsOf, Tells
<1>7. \A p \in Plugins :
          /\ at'[p] \in {"idle", "collected"}
          /\ at'[p] = "collected" => \E i \in DOMAIN halves' : halves'[i].execution[p].status # "skipped"
  <2>. SUFFICES ASSUME NEW p \in Plugins
                PROVE  /\ at[p] \in {"idle", "collected"}
                       /\ at[p] = "collected" => \E i \in 1 .. n + 1 : halves'[i].execution[p].status # "skipped"
    BY <1>1, <1>4
  <2>1. at[p] \in {"idle", "collected"}
    BY <1>1 DEF Executed
  <2>2. n + 1 \in 1 .. n + 1 /\ \A i \in 1 .. n : i \in 1 .. n + 1
    OBVIOUS
  <2>. QED
    BY <1>2, <1>4, <2>1, <2>2 DEF Executed
<1>8. phase' # "scan" /\ ~Reported'
  BY <1>1 DEF Reported
<1>. QED
  BY <1>6, <1>7, <1>8 DEF Executed

\* No scanner is told of by two reports: what they counted, and who failed, is joined.
LEMMA ExecutionsJoin ==
    ASSUME NEW a, NEW b, DOMAIN a = Plugins, DOMAIN b = Plugins,
           IsFiniteSet(Tickets(Counts(a))), IsFiniteSet(Tickets(Counts(b))),
           \A p \in Plugins : a[p].status = "skipped" \/ b[p].status = "skipped"
    PROVE  /\ PluginsThat(MergeExecution(a, b), "failed") = PluginsThat(a, "failed") \cup PluginsThat(b, "failed")
           /\ IsFiniteSet(Tickets(Counts(MergeExecution(a, b))))
           /\ Cardinality(Tickets(Counts(MergeExecution(a, b))))
                = Cardinality(Tickets(Counts(a))) + Cardinality(Tickets(Counts(b)))
<1>1. PICK e : e = MergeExecution(a, b)
  OBVIOUS
<1>2. DOMAIN e = Plugins /\ \A p \in Plugins : e[p] = IF a[p].status = "skipped" THEN b[p] ELSE a[p]
  BY <1>1 DEF MergeExecution
<1>3. /\ PluginsThat(e, "failed") = PluginsThat(a, "failed") \cup PluginsThat(b, "failed")
      /\ PluginsThat(e, "success") = PluginsThat(a, "success") \cup PluginsThat(b, "success")
      /\ PluginsThat(a, "success") \cap PluginsThat(b, "success") = {}
      /\ \A p \in PluginsThat(a, "success") : e[p] = a[p]
      /\ \A p \in PluginsThat(b, "success") : e[p] = b[p]
  BY <1>2 DEF PluginsThat
<1>4. /\ \A t : t \in Tickets(Counts(e)) <=> \E p \in PluginsThat(e, "success") : \E k \in 1 .. e[p].count : t = <<p, k>>
      /\ \A t : t \in Tickets(Counts(a)) <=> \E p \in PluginsThat(a, "success") : \E k \in 1 .. a[p].count : t = <<p, k>>
      /\ \A t : t \in Tickets(Counts(b)) <=> \E p \in PluginsThat(b, "success") : \E k \in 1 .. b[p].count : t = <<p, k>>
  BY CountedAre
<1>5. Tickets(Counts(e)) = Tickets(Counts(a)) \cup Tickets(Counts(b))
  <2>1. ASSUME NEW t, t \in Tickets(Counts(e)) PROVE t \in Tickets(Counts(a)) \/ t \in Tickets(Counts(b))
    <3>1. PICK p \in PluginsThat(e, "success") : \E k \in 1 .. e[p].count : t = <<p, k>>
      BY <1>4, <2>1
    <3>. QED
      BY <1>3, <1>4, <3>1
  <2>2. ASSUME NEW t, t \in Tickets(Counts(a)) PROVE t \in Tickets(Counts(e))
    <3>1. PICK p \in PluginsThat(a, "success") : \E k \in 1 .. a[p].count : t = <<p, k>>
      BY <1>4, <2>2
    <3>. QED
      BY <1>3, <1>4, <3>1
  <2>3. ASSUME NEW t, t \in Tickets(Counts(b)) PROVE t \in Tickets(Counts(e))
    <3>1. PICK p \in PluginsThat(b, "success") : \E k \in 1 .. b[p].count : t = <<p, k>>
      BY <1>4, <2>3
    <3>. QED
      BY <1>3, <1>4, <3>1
  <2>. QED
    BY <2>1, <2>2, <2>3
<1>6. Tickets(Counts(a)) \cap Tickets(Counts(b)) = {}
  <2>. SUFFICES ASSUME NEW t, t \in Tickets(Counts(a)), t \in Tickets(Counts(b)) PROVE FALSE
    OBVIOUS
  <2>1. PICK p \in PluginsThat(a, "success") : \E k \in 1 .. a[p].count : t = <<p, k>>
    BY <1>4
  <2>2. PICK q \in PluginsThat(b, "success") : \E k \in 1 .. b[q].count : t = <<q, k>>
    BY <1>4
  <2>3. t[1] = p /\ t[1] = q
    BY <2>1, <2>2
  <2>. QED
    BY <1>3, <2>3
<1>7. /\ IsFiniteSet(Tickets(Counts(e)))
      /\ Cardinality(Tickets(Counts(e))) = Cardinality(Tickets(Counts(a))) + Cardinality(Tickets(Counts(b)))
  <2>1. ASSUME NEW A, NEW B, IsFiniteSet(A), IsFiniteSet(B), A \cap B = {}
        PROVE  IsFiniteSet(A \cup B) /\ Cardinality(A \cup B) = Cardinality(A) + Cardinality(B)
    <3>1. Cardinality(A) \in Nat /\ Cardinality(B) \in Nat /\ Cardinality({}) = 0
      BY <2>1, FS_CardinalityType, FS_EmptySet
    <3>2. IsFiniteSet(A \cup B) /\ Cardinality(A \cup B) = Cardinality(A) + Cardinality(B) - Cardinality({})
      BY <2>1, FS_Union
    <3>. QED
      BY <3>1, <3>2
  <2>. QED
    BY <1>5, <1>6, <2>1
<1>. QED
  BY <1>1, <1>3, <1>7

LEMMA MergedTells ==
    ASSUME Gathered, Phased, Executed, phase = "half"
    PROVE  /\ Tells(MergeHalves)
           /\ \A p \in Plugins : MergeHalves.execution[p].status = "skipped" <=> at[p] # "collected"
<1>1. DOMAIN halves = 1 .. Len(halves) /\ Len(halves) = Len(Stages(C))
  <2>1. PICK n \in Nat : n = Len(halves)
    BY DEF Gathered, IsList
  <2>2. Len(stages) = 0
    BY DEF Phased
  <2>. QED
    BY <2>1, <2>2 DEF Gathered, IsList
<1>2. \A p \in Plugins : at[p] = "collected" <=> \E i \in DOMAIN halves : halves[i].execution[p].status # "skipped"
  BY DEF Executed, TellsOf
<1>3. CASE Len(halves) = 1
  <2>1. MergeHalves = halves[1] /\ DOMAIN halves = {1}
    BY <1>1, <1>3 DEF MergeHalves
  <2>2. Tells(halves[1])
    BY <2>1 DEF Executed, TellsOf
  <2>. QED
    BY <1>2, <2>1, <2>2
<1>4. CASE Len(halves) = 2
  <2>1. DOMAIN halves = {1, 2}
    BY <1>1, <1>4
  <2>2. PICK a, b : a = halves[1] /\ b = halves[2]
    OBVIOUS
  <2>3. Tells(a) /\ Tells(b)
    BY <2>1, <2>2 DEF Executed, TellsOf
  <2>4. \A p \in Plugins : a.execution[p].status = "skipped" \/ b.execution[p].status = "skipped"
    <3>1. Stages(C)[1] # Stages(C)[2]
      <4>1. Len(Stages(C)) = 2
        BY <1>1, <1>4
      <4>2. DOMAIN Stages(C) = 1 .. 2
        <5>1. ASSUME NEW T, NEW s \in Seq(T), Len(s) = 2 PROVE DOMAIN s = 1 .. 2
          BY <5>1
        <5>. QED
          BY <4>1, <5>1, StagesAreFew
      <4>. QED
        BY <4>2, StagesDiffer
    <3>. QED
      BY <2>1, <2>2, <3>1 DEF Executed, TellsOf
  <2>. DEFINE e    == MergeExecution(a.execution, b.execution)
              both == a.findings \o b.findings
  <2>5. /\ MergeHalves.findings = SortBySeverity(Deduplicate(both))
        /\ MergeHalves.errors = a.errors \cup b.errors
        /\ MergeHalves.execution = e
    BY <1>4, <2>2 DEF MergeHalves
  <2>6. /\ PluginsThat(e, "failed") = PluginsThat(a.execution, "failed") \cup PluginsThat(b.execution, "failed")
        /\ IsFiniteSet(Tickets(Counts(e)))
        /\ Cardinality(Tickets(Counts(e)))
             = Cardinality(Tickets(Counts(a.execution))) + Cardinality(Tickets(Counts(b.execution)))
    BY <2>3, <2>4, ExecutionsJoin DEF Tells, Enough
  <2>7. /\ DOMAIN e = Plugins
        /\ \A p \in Plugins : e[p] = IF a.execution[p].status = "skipped" THEN b.execution[p] ELSE a.execution[p]
    BY DEF MergeExecution
  <2>8. a.findings \in Seq(told) /\ b.findings \in Seq(told)
    BY <2>1, <2>2 DEF Gathered, Fine
  <2>9. /\ both \in Seq(told) /\ Len(both) = Len(a.findings) + Len(b.findings)
        /\ Len(SortBySeverity(Deduplicate(both))) \in Nat /\ Len(SortBySeverity(Deduplicate(both))) <= Len(both)
    <3>1. both \in Seq(told) /\ Len(both) = Len(a.findings) + Len(b.findings)
      BY <2>8
    <3>. HIDE DEF both
    <3>. QED
      BY <3>1, FinalIsShorter DEF Gathered
  <2>. HIDE DEF e, both
  <2>10. Enough(MergeHalves.findings, e)
    <3>1. PICK l \in Nat, m \in Nat, k \in Nat :
              l = Len(a.findings) /\ m = Len(b.findings) /\ k = Len(SortBySeverity(Deduplicate(both)))
      BY <2>3, <2>9 DEF Tells, Enough
    <3>2. k <= l + m
      BY <2>9, <3>1
    <3>3. PICK c \in Nat, d \in Nat :
              c = Cardinality(Tickets(Counts(a.execution))) /\ d = Cardinality(Tickets(Counts(b.execution)))
      BY <2>3, FS_CardinalityType DEF Tells, Enough
    <3>4. l <= c /\ m <= d
      BY <2>3, <3>1, <3>3 DEF Tells, Enough
    <3>5. k <= c + d
      BY <3>2, <3>4
    <3>. QED
      BY <2>5, <2>6, <3>1, <3>3, <3>5 DEF Enough
  <2>11. Tells(MergeHalves)
    BY <2>3, <2>5, <2>6, <2>7, <2>10 DEF Tells
  <2>12. \A p \in Plugins : e[p].status = "skipped" <=> at[p] # "collected"
    BY <1>2, <2>1, <2>2, <2>4, <2>7
  <2>. QED
    BY <2>5, <2>11, <2>12
<1>. QED
  BY <1>1, <1>3, <1>4, StagesAreFew

LEMMA ExecutedMerges ==
    ASSUME Gathered, Phased, Executed, MakeReport
    PROVE  Executed'
<1>1. /\ phase = "half" /\ phase' = "write" /\ report' = MergeHalves
      /\ UNCHANGED <<command, halves, at>>
  BY DEF MakeReport, runVars
<1>2. C' = C
  BY <1>1 DEF C
<1>3. \A i \in DOMAIN halves' : TellsOf(halves[i], Stages(C)[i])'
  BY <1>1, <1>2 DEF Executed, TellsOf, Tells
<1>4. \A p \in Plugins :
          /\ at'[p] \in {"idle", "collected"}
          /\ at'[p] = "collected" => \E i \in DOMAIN halves' : halves'[i].execution[p].status # "skipped"
  BY <1>1 DEF Executed
<1>5. Tells(report)' /\ \A p \in Plugins : report'.execution[p].status = "skipped" <=> at'[p] # "collected"
  BY <1>1, MergedTells DEF Tells
<1>. QED
  BY <1>1, <1>3, <1>4, <1>5 DEF Executed

LEMMA ExecutedIsKept ==
    RunTypeOK /\ Gathered /\ Phased /\ Ordered /\ Executed /\ [EngineNext]_vars => Executed'
<1>. SUFFICES ASSUME RunTypeOK, Gathered, Phased, Ordered, Executed, [EngineNext]_vars PROVE Executed'
  OBVIOUS
<1>1. CASE ParseArgs \/ ProfileStage \/ WriteAndExit
  <2>1. /\ UNCHANGED <<command, at, halves, report>>
        /\ phase # "scan" /\ phase' # "scan"
        /\ phase \in {"parse", "profile", "write"}
    BY <1>1 DEF ParseArgs, ProfileStage, WriteAndExit, Exit, runVars
  <2>2. Reported' => Reported
    BY <2>1 DEF Reported, Phased
  <2>. QED
    BY <2>1, <2>2, ExecutedOutside
<1>2. CASE RunEngine
  <2>1. /\ UNCHANGED <<command, at, halves, report>> /\ phase = "select" /\ phase' \in {"scan", "done"}
        /\ report = NoReport
    BY <1>2 DEF RunEngine, Exit, runVars, Phased
  <2>2. CASE phase' = "done"
    BY <2>1, <2>2, ExecutedOutside DEF Reported
  <2>3. CASE phase' = "scan"
    <3>1. C' = C
      BY <2>1 DEF C
    <3>2. Running'
      BY <1>2, <2>3, RunningBegins
    <3>3. \A i \in DOMAIN halves' : TellsOf(halves[i], Stages(C)[i])'
      BY <2>1, <3>1 DEF Executed, TellsOf, Tells
    <3>4. \A p \in Plugins :
              /\ at'[p] \in {"idle", "collected"}
              /\ at'[p] = "collected" => \E i \in DOMAIN halves' : halves'[i].execution[p].status # "skipped"
      BY <2>1 DEF Executed
    <3>. QED
      BY <2>3, <3>2, <3>3, <3>4 DEF Executed, Reported
  <2>. QED
    BY <2>1, <2>2, <2>3
<1>3. CASE TakeWork
  <2>1. PICK p \in queue : Begin(p, FirstPlace(p)) /\ queue' = queue \ {p}
    BY <1>3 DEF TakeWork
  <2>2. /\ UNCHANGED <<command, phase, profile, status, findings, errors, halves, report>> /\ phase = "scan"
    BY <1>3 DEF TakeWork
  <2>3. p \in Selected /\ p \in Plugins
    BY <2>2, SelectedAreRegistered DEF Executed, Running
  <2>4. at[p] = "idle" /\ at' = [at EXCEPT ![p] = FirstPlace(p)] /\ FirstPlace(p) # "collected"
    BY <2>1 DEF Begin, Go, FirstPlaces
  <2>5. queue' \subseteq queue
    BY <2>1
  <2>6. \A q \in Plugins : at'[q] = at[q] \/ (q \in Selected /\ at[q] # "collected" /\ at'[q] # "collected")
    BY <2>3, <2>4 DEF RunTypeOK
  <2>. QED
    BY <2>2, <2>5, <2>6, ExecutedBetween
<1>4. ASSUME NEW p \in Plugins, ScannerStep(p) PROVE Executed'
  <2>1. UNCHANGED <<command, phase, profile, queue, status, findings, errors, halves, report>>
    BY <1>4 DEF ScannerStep
  <2>2. PICK place \in Places \ {"idle", "collected"} : Go(p, place)
    BY <1>4, StepsBetween
  <2>3. at[p] \notin {"idle", "collected"}
    BY <1>4, StepsBetween
  <2>4. phase = "scan" /\ p \in Selected
    BY <2>3 DEF Executed
  <2>5. \A q \in Plugins : at'[q] = at[q] \/ (q \in Selected /\ at[q] # "collected" /\ at'[q] # "collected")
    BY <2>2, <2>3, <2>4 DEF RunTypeOK, Go
  <2>6. queue' \subseteq queue
    BY <2>1
  <2>. QED
    BY <2>1, <2>4, <2>5, <2>6, ExecutedBetween
<1>5. ASSUME NEW p \in Plugins, Collect(p) PROVE Executed'
  BY <1>5, ExecutedCollects
<1>6. CASE EngineEnds
  BY <1>6, ExecutedEnds
<1>7. CASE MakeReport
  BY <1>7, ExecutedMerges
<1>8. CASE UNCHANGED vars
  <2>1. UNCHANGED <<command, phase, profile, queue, status, findings, errors, halves, report, at>>
    BY <1>8 DEF vars, engineVars, runVars
  <2>2. CASE phase = "scan"
    BY <2>1, <2>2, ExecutedBetween
  <2>3. CASE phase # "scan"
    <3>1. Reported' => Reported
      BY <2>1 DEF Reported
    <3>. QED
      BY <2>1, <2>3, <3>1, ExecutedOutside
  <2>. QED
    BY <2>2, <2>3
<1>. QED
  BY <1>1, <1>2, <1>3, <1>4, <1>5, <1>6, <1>7, <1>8 DEF EngineNext, MainSteps

LEMMA ClosedIsKept == Gathered /\ Phased /\ Executed /\ Closed /\ [EngineNext]_vars => Closed'
<1>. SUFFICES ASSUME Gathered, Phased, Executed, Closed, [EngineNext]_vars PROVE Closed'
  OBVIOUS
<1>1. C' = C
  BY CommandStays
<1>2. CASE ParseArgs \/ ProfileStage \/ RunEngine
  <2>1. report = NoReport /\ report' = report /\ phase' # "write" /\ (phase' = "done" => code' = 2)
    BY <1>2 DEF ParseArgs, ProfileStage, RunEngine, Exit, Phased
  <2>. QED
    BY <2>1 DEF Closed, NoReport
<1>3. CASE TakeWork \/ EngineEnds \/ \E p \in Plugins : ScannerStep(p) \/ Collect(p)
  <2>1. phase' \notin {"write", "done"} \/ UNCHANGED <<phase, report, code>>
    BY <1>3 DEF TakeWork, EngineEnds, ScannerStep, Collect
  <2>. QED
    BY <1>1, <2>1 DEF Closed, NoReport
<1>4. CASE MakeReport
  <2>1. phase = "half" /\ phase' = "write" /\ report' = MergeHalves
    BY <1>4 DEF MakeReport
  <2>2. DOMAIN MergeHalves.execution = Plugins
    BY <2>1, MergedTells DEF Tells
  <2>3. Registry[1] \in Plugins
    BY PluginsOfTheRegistry DEF Registry
  <2>4. DOMAIN NoReport.execution = {}
    BY DEF NoReport
  <2>. QED
    BY <2>1, <2>2, <2>3, <2>4 DEF Closed, NoReport
<1>5. CASE WriteAndExit
  <2>1. phase = "write" /\ phase' = "done" /\ report' = report /\ code' = ExitCode(report.findings, C.failOn)
    BY <1>5 DEF WriteAndExit, Exit
  <2>. QED
    BY <1>1, <2>1 DEF Closed, NoReport
<1>6. CASE UNCHANGED vars
  BY <1>1, <1>6 DEF Closed, NoReport, vars, engineVars
<1>. QED
  BY <1>2, <1>3, <1>4, <1>5, <1>6 DEF EngineNext, MainSteps

LEMMA FirstToldOfNone == EngineInit => Ordered /\ Executed /\ Closed
<1>. SUFFICES ASSUME EngineInit PROVE Ordered /\ Executed /\ Closed
  OBVIOUS
<1>1. Gathered /\ Phased
  BY FirstNothing
<1>2. halves = <<>> /\ stages = Stages(C) /\ phase = "parse" /\ \A p \in Plugins : at[p] = "idle"
  BY DEF EngineInit, RunInit, C
<1>3. DOMAIN halves = {} /\ Len(halves) = 0
  BY <1>2
<1>4. \A k \in DOMAIN stages : 0 + k = k
  BY <1>1, PlaceOfStages, StagesListed
<1>. QED
  BY <1>2, <1>3, <1>4 DEF Ordered, Executed, Closed, Reported

LEMMA ExecutedIsReported == Gathered /\ Phased /\ Executed => ExecutionIsTold
<1>. SUFFICES ASSUME Gathered, Phased, Executed, Reported PROVE ExecutionIsTold
  BY DEF ExecutionIsTold
<1>. DEFINE doc == Document(report.findings, report.errors, report.execution)
            e   == report.execution
<1>1. /\ doc.total = Len(report.findings) /\ doc.counts = SeverityCounts(report.findings) /\ doc.executed = Counts(e)
      /\ doc.failed = PluginsThat(e, "failed") /\ doc.skipped = PluginsThat(e, "skipped")
  BY DEF Document, Counts
<1>2. Tells(report) /\ \A p \in Plugins : e[p].status = "skipped" <=> at[p] # "collected"
  BY DEF Executed
<1>3. DOMAIN e = Plugins /\ \A p \in Plugins : e[p].status \in {"success", "failed", "skipped"}
  BY <1>2 DEF Tells
<1>4. DOMAIN Counts(e) = PluginsThat(e, "success")
  BY DEF Counts
<1>5. PluginsThat(e, "success") \cup PluginsThat(e, "failed") \cup PluginsThat(e, "skipped") = Plugins
  BY <1>3 DEF PluginsThat
<1>6. PluginsThat(e, "skipped") = {p \in Plugins : at[p] # "collected"}
  BY <1>2, <1>3 DEF PluginsThat
<1>7. report.errors \ {"none applicable"} = PluginsThat(e, "failed")
  BY <1>2 DEF Tells, NoPlugin
<1>8. Len(report.findings) <= Total(Counts(e))
  BY <1>2, TotalIs DEF Tells, Enough
<1>9. Len(report.findings) = Total(SeverityCounts(report.findings))
  BY CountsAddUp DEF Gathered, Phased, Fine
<1>. HIDE DEF doc, e
<1>10. /\ DOMAIN doc.executed \cup doc.failed \cup doc.skipped = Plugins
       /\ doc.skipped = {p \in Plugins : at[p] # "collected"}
       /\ doc.failed = report.errors \ {"none applicable"}
       /\ doc.total <= Total(doc.executed)
       /\ doc.total = Total(doc.counts)
  BY <1>1, <1>4, <1>5, <1>6, <1>7, <1>8, <1>9
<1>. QED
  BY <1>10 DEF ExecutionIsTold, doc, e

LEMMA ClosedIsTheVerdict == Gathered /\ Phased /\ Closed => VerdictIsTheExit
<1>. SUFFICES ASSUME Gathered, Phased, Closed, phase = "done"
              PROVE  LET verdict == Verdict(report.findings)
                     IN  /\ code = 2 <=> report = NoReport
                         /\ code # 2 /\ C.failOn = "high" => (code = 1 <=> verdict = "FAIL")
                         /\ code # 2 /\ C.failOn = "info" => (code = 1 <=> verdict # "PASS")
                         /\ code = 1 => verdict # "PASS"
  BY DEF VerdictIsTheExit
<1>1. CASE report = NoReport
  BY <1>1 DEF Closed
<1>2. CASE report # NoReport
  <2>. DEFINE fs == report.findings
  <2>1. code = ExitCode(fs, C.failOn) /\ fs \in Seq(told)
    BY <1>2 DEF Closed, Phased, Reported, Fine
  <2>. HIDE DEF fs
  <2>2. \A i \in DOMAIN fs : fs[i].sev \in INFO .. CRITICAL
    BY <2>1, Listed DEF Gathered, Weighed
  <2>3. code \in {0, 1} /\ (code = 1 <=> AnyAtLeast(fs, FailOn[C.failOn]))
    BY <2>1 DEF ExitCode
  <2>4. AnyAtLeast(fs, FailOn[C.failOn]) => fs # <<>>
    BY DEF AnyAtLeast
  <2>5. FailOn["high"] = HIGH /\ FailOn["info"] = INFO
    BY DEF FailOn
  <2>6. AnyAtLeast(fs, INFO) <=> fs # <<>>
    <3>1. fs # <<>> => \E i \in DOMAIN fs : TRUE
      <4>1. ASSUME NEW T, NEW s \in Seq(T), s # <<>> PROVE 1 \in DOMAIN s
        BY <4>1
      <4>. QED
        BY <2>1, <4>1
    <3>2. \A i \in DOMAIN fs : fs[i].sev >= INFO
      BY <2>2 DEF INFO, CRITICAL
    <3>3. AnyAtLeast(fs, INFO) => fs # <<>>
      BY DEF AnyAtLeast
    <3>. QED
      BY <3>1, <3>2, <3>3 DEF AnyAtLeast
  <2>7. /\ Verdict(fs) = "FAIL" <=> AnyAtLeast(fs, HIGH)
        /\ Verdict(fs) = "PASS" <=> ~AnyAtLeast(fs, HIGH) /\ fs = <<>>
    BY DEF Verdict
  <2>8. AnyAtLeast(fs, HIGH) => fs # <<>>
    BY DEF AnyAtLeast
  <2>9. code # 2
    BY <2>3
  <2>10. C.failOn = "high" => (code = 1 <=> Verdict(fs) = "FAIL")
    BY <2>3, <2>5, <2>7
  <2>11. C.failOn = "info" => (code = 1 <=> Verdict(fs) # "PASS")
    BY <2>3, <2>5, <2>6, <2>7, <2>8
  <2>12. code = 1 => Verdict(fs) # "PASS"
    BY <2>3, <2>4, <2>7
  <2>. QED
    BY <1>2, <2>9, <2>10, <2>11, <2>12 DEF fs
<1>. QED
  BY <1>1, <1>2

(***************************************************************************)
(* In whatever order the scanners end, and however many halves a command   *)
(* has, its report tells of every scanner what became of it, counts no     *)
(* finding that no scanner returned, and agrees with the exit code         *)
(* (engine.py:75-138, cli.py:202-260, models.py:193-198).                  *)
(***************************************************************************)
THEOREM ReportsAreTrue == EngineSpec => []ReportIsTrue
<1>. DEFINE Told == Gathered /\ Phased
            Inv  == command \in DOMAIN Commands /\ RunInv /\ QueueOK /\ Told /\ Ordered /\ Executed /\ Closed
<1>1. EngineInit => Inv
  BY Given, Starts, FirstNothing, FirstToldOfNone
<1>2. Inv /\ [EngineNext]_vars => Inv'
  <2>. SUFFICES ASSUME Inv, [EngineNext]_vars PROVE Inv'
    OBVIOUS
  <2>1. (command \in DOMAIN Commands)' /\ QueueOK'
    BY CommandStays, QueueIsKept
  <2>2. RunInv'
    BY EngineMovesScanners, RunInvKept
  <2>3. Gathered' /\ Phased'
    BY GatheredIsKept
  <2>4. Ordered' /\ Executed' /\ Closed'
    BY OrderedIsKept, ExecutedIsKept, ClosedIsKept DEF RunInv
  <2>. QED
    BY <2>1, <2>2, <2>3, <2>4
<1>3. Inv => ReportIsTrue
  BY ExecutedIsReported, ClosedIsTheVerdict DEF ReportIsTrue
<1>. QED
  BY <1>1, <1>2, <1>3, PTL DEF EngineSpec
=============================================================================
