------------------------ MODULE WeensyKernelProofs ------------------------
(***************************************************************************)
(* Proofs about WeensyKernel, for every size of memory, number of          *)
(* processes and set of programs.  What keeps a physical page to one use   *)
(* is that the page is marked used before it is entered anywhere (InUse),  *)
(* and that kalloc never returns a marked page; what spares the kernel is  *)
(* that next_alloc_pa is never inside it (Jumped).                         *)
(***************************************************************************)
EXTENDS WeensyKernel, TLAPS

USE PagesAssumption, ProcessAssumption, VirtualAssumption

\* next_alloc_pa has not reached the kernel or is past it.
Jumped == nextPage < KernelStart \/ nextPage >= StackTop

\* Whatever a process or kalloc's caller holds is marked.
InUse ==
    /\ \A p \in Proc, n \in Table : node[p][n] \in used \cup {None}
    /\ \A p \in Proc, va \in Va : mapping[p][va] \in used \cup {None}
    /\ held \in used \cup {None}

\* The agenda: before the first process runs, no system call and nothing after
\* run; later at most the system call of the process that runs.
InOrder(i) == agenda[i].op # "alloc" /\ (agenda[i].op = "run" => i = Len(agenda))
Errand ==
    /\ current = None => \A i \in 1..Len(agenda) : InOrder(i)
    /\ current # None => agenda = <<>> \/ \E va \in Va : agenda = <<Item("alloc", current, va)>>
    /\ mode = "user" => agenda = <<>>
    /\ mode \in {"user", "spinning", "halted"} => current # None

Inv == TypeOK /\ Jumped /\ InUse /\ KernelIsSpared /\ PagesHaveOneUse /\ Errand

\* kalloc: a page that nobody uses and that is not the kernel's.
LEMMA KallocFresh ==
    ASSUME TypeOK, Jumped, KernelIsSpared, NEW pg \in Page, Kalloc(pg)
    PROVE  /\ pg \notin used /\ pg # None
           /\ used' = used \cup {pg} /\ used' \subseteq Page
           /\ nextPage' \in 0..NPages /\ Jumped'
           /\ KernelIsSpared'
<1>1. pg \notin used /\ pg # None /\ used' = used \cup {pg} /\ used' \subseteq Page
  BY DEF Kalloc, Candidates, TypeOK, Page, None
<1>2. nextPage' \in 0..NPages /\ Jumped' /\ pg \notin KernelData /\ ~Reserved(pg)
  BY DEF Kalloc, Candidates, Scanned, Allocatable, TypeOK, Jumped, Page, KernelData
<1>3. KernelIsSpared'
  BY <1>1, <1>2 DEF KernelIsSpared, Reserved, KernelData
<1> QED  BY <1>1, <1>2, <1>3

\* The first item of the agenda is a task, and what is left are tasks.
LEMMA AgendaTyped ==
    ASSUME TypeOK, agenda # <<>>
    PROVE  /\ Task1 \in Task /\ Task1.pid \in Proc
           /\ Task1.op \in {"map", "alloc"} => Task1.va \in Va
           /\ Tail(agenda) \in Seq(Task)
<1>1. Task1 \in Task /\ Tail(agenda) \in Seq(Task)
  BY DEF TypeOK, Task1
<1> QED  BY <1>1 DEF Task

\* An item is done: those after it move up.
LEMMA TailShifts ==
    ASSUME TypeOK, agenda # <<>>, Finished
    PROVE  /\ agenda' \in Seq(Task) /\ Len(agenda') = Len(agenda) - 1
           /\ Len(agenda) \in Nat /\ Len(agenda) > 0 /\ Task1 = agenda[1]
           /\ \A i \in 1..Len(agenda') : agenda'[i] = agenda[i + 1]
BY DEF TypeOK, Finished, Task1

LEMMA LoadingTyped ==
    ASSUME NEW p \in Proc, NEW program \in Programs
    PROVE  /\ Loading(p, program) \in Seq(Task)
           /\ \A i \in 1..Len(Loading(p, program)) : Loading(p, program)[i].op = "map"
<1>1. program \in Seq(Va)  BY DEF Va
<1>2. \A va \in Va : Item("map", p, va) \in Task /\ Item("map", p, va).op = "map"
  BY DEF Item, Task
<1> QED  BY <1>1, <1>2 DEF Loading

\* What process_setup has to do: the last item makes the process runnable, the
\* first two and the last but one its page table and stack.
LEMMA SetupShape ==
    ASSUME NEW p \in Proc, NEW program \in Programs
    PROVE  LET s == Setup(p, program)
           IN  /\ s \in Seq(Task) /\ Len(s) \in Nat /\ Len(s) > 3
               /\ s[1] = Item("root", p, 0) /\ s[2] = Item("kernel", p, 0)
               /\ s[Len(s) - 1] = Item("map", p, StackVa) /\ s[Len(s)] = Item("ready", p, 0)
               /\ \A i \in 3..(Len(s) - 1) : s[i].op = "map"
<1> DEFINE first == <<Item("root", p, 0), Item("kernel", p, 0)>>
           load == Loading(p, program)
           last == <<Item("map", p, StackVa), Item("ready", p, 0)>>
<1>1. load \in Seq(Task) /\ \A i \in 1..Len(load) : load[i].op = "map"
  BY LoadingTyped
<1>2. StackVa \in Va  BY DEF StackVa, Va
<1>3. /\ Item("root", p, 0) \in Task /\ Item("kernel", p, 0) \in Task
      /\ Item("map", p, StackVa) \in Task /\ Item("ready", p, 0) \in Task
  BY <1>2 DEF Item, Task
<1>4. Item("map", p, StackVa).op = "map"  BY DEF Item
<1>5. Setup(p, program) = (first \o load) \o last
  BY DEF Setup
<1> HIDE DEF load
<1> SUFFICES LET s == (first \o load) \o last
             IN  /\ s \in Seq(Task) /\ Len(s) \in Nat /\ Len(s) > 3
                 /\ s[1] = Item("root", p, 0) /\ s[2] = Item("kernel", p, 0)
                 /\ s[Len(s) - 1] = Item("map", p, StackVa) /\ s[Len(s)] = Item("ready", p, 0)
                 /\ \A i \in 3..(Len(s) - 1) : s[i].op = "map"
  BY <1>5
<1> QED  BY <1>1, <1>3, <1>4

LEMMA BootShape ==
    ASSUME NEW n \in Starts
    PROVE  /\ Boot(n) \in Seq(Task) /\ Len(Boot(n)) = n + 1
           /\ n \in Nat /\ n > 0
           /\ \A i \in 1..n : Boot(n)[i] = Item("setup", i, 0)
           /\ Boot(n)[n + 1] = Item("run", 1, 0)
<1>1. n \in Nat /\ n > 0 /\ 1..n \subseteq Proc /\ 1 \in Proc  BY DEF Proc
<1>2. \A p \in Proc : Item("setup", p, 0) \in Task /\ Item("run", p, 0) \in Task
  BY DEF Item, Task
<1>3. [p \in 1..n |-> Item("setup", p, 0)] \in Seq(Task)  BY <1>1, <1>2
<1>4. <<Item("run", 1, 0)>> \in Seq(Task)  BY <1>1, <1>2
<1> QED  BY <1>1, <1>3, <1>4 DEF Boot

\* Entering a page that is fresh at one place of p's page table keeps pages to
\* one use, and so does taking one.
LEMMA TablesFresh ==
    ASSUME Inv, NEW pg \in Page, Kalloc(pg), NEW p \in Proc, NEW n \in Table,
           node' = [node EXCEPT ![p][n] = pg], UNCHANGED <<mapping, held>>
    PROVE  InUse' /\ PagesHaveOneUse' /\ node' \in [Proc -> [Table -> Page \cup {None}]]
<1>1. pg \notin used /\ pg # None /\ used' = used \cup {pg}
  BY KallocFresh DEF Inv
<1>2. node' \in [Proc -> [Table -> Page \cup {None}]]
  BY DEF Inv, TypeOK
<1>3. \A q \in Proc, m \in Table : node'[q][m] = IF q = p /\ m = n THEN pg ELSE node[q][m]
  BY DEF Inv, TypeOK
<1>4. \A q \in Proc : (\A m \in Table : node[q][m] # pg) /\ (\A v \in Va : mapping[q][v] # pg)
  BY <1>1 DEF Inv, InUse
<1>5. InUse'
  BY <1>1, <1>3 DEF Inv, InUse
<1>6. held # pg
  BY <1>1 DEF Inv, InUse
<1>7. PagesHaveOneUse'
  BY <1>1, <1>3, <1>4, <1>6 DEF Inv, PagesHaveOneUse
<1> QED  BY <1>2, <1>5, <1>7

LEMMA TakeFresh ==
    ASSUME Inv, NEW pg \in Page, Kalloc(pg), held' = pg, UNCHANGED <<node, mapping>>
    PROVE  InUse' /\ PagesHaveOneUse'
<1>1. pg \notin used /\ pg # None /\ used' = used \cup {pg}
  BY KallocFresh DEF Inv
<1>2. \A q \in Proc : (\A m \in Table : node[q][m] # pg) /\ (\A v \in Va : mapping[q][v] # pg)
  BY <1>1 DEF Inv, InUse
<1> QED  BY <1>1, <1>2 DEF Inv, InUse, PagesHaveOneUse

\* Entering the page at hand moves it from held to the mapping.
LEMMA InstallMoves ==
    ASSUME Inv, held # None, NEW p \in Proc, NEW va \in Va,
           mapping' = [mapping EXCEPT ![p][va] = held], held' = None, UNCHANGED <<node, used>>
    PROVE  InUse' /\ PagesHaveOneUse' /\ mapping' \in [Proc -> [Va -> Page \cup {None}]]
<1>1. mapping' \in [Proc -> [Va -> Page \cup {None}]]
  BY DEF Inv, TypeOK
<1>2. \A q \in Proc, v \in Va : mapping'[q][v] = IF q = p /\ v = va THEN held ELSE mapping[q][v]
  BY DEF Inv, TypeOK
<1>3. InUse'
  BY <1>2 DEF Inv, InUse
<1>4. PagesHaveOneUse'
  BY <1>2 DEF Inv, PagesHaveOneUse
<1> QED  BY <1>1, <1>3, <1>4

-----------------------------------------------------------------------------

LEMMA InvInit == Init => Inv
<1> SUFFICES ASSUME Init PROVE Inv  OBVIOUS
<1>1. PICK n \in Starts : agenda = Boot(n)  BY DEF Init
<1>2. TypeOK
  BY <1>1, BootShape DEF Init, TypeOK
<1>3. Jumped /\ InUse /\ KernelIsSpared /\ PagesHaveOneUse
  BY DEF Init, Jumped, InUse, KernelIsSpared, PagesHaveOneUse
<1>4. \A i \in 1..n : Item("setup", i, 0).op = "setup" /\ Item("run", 1, 0).op = "run"
  BY DEF Item
<1>5. \A i \in 1..Len(agenda) : InOrder(i)
  <2> SUFFICES ASSUME NEW i \in 1..Len(agenda)
               PROVE  InOrder(i)
    OBVIOUS
  <2>1. CASE i \in 1..n
    BY <2>1, <1>1, <1>4, BootShape DEF InOrder
  <2>2. CASE i = n + 1
    BY <2>2, <1>1, <1>4, BootShape DEF InOrder
  <2> QED  BY <2>1, <2>2, <1>1, BootShape
<1>6. Errand
  BY <1>5 DEF Init, Errand
<1> QED  BY <1>2, <1>3, <1>6 DEF Inv

LEMMA ScheduleTyped ==
    ASSUME current \in Proc, mode = "user", NEW S, Schedule(S)
    PROVE  current' \in Proc /\ mode' \in {"user", "spinning"}
BY DEF Schedule, Turns, Proc

\* While the kernel works for a system call, that call is all there is to do.
LEMMA AtWork ==
    ASSUME Inv, agenda # <<>>
    PROVE  /\ current = None => Task1.op # "alloc" /\ (Task1.op = "run" => Len(agenda) = 1)
           /\ current # None => Task1.op = "alloc" /\ Task1.pid = current /\ Len(agenda) = 1
           /\ Len(agenda) \in Nat /\ Len(agenda) > 0
<1>1. Len(agenda) \in Nat /\ Len(agenda) > 0 /\ Task1 = agenda[1]
  BY DEF Inv, TypeOK, Task1
<1>2. CASE current = None
  <2>1. \A i \in 1..Len(agenda) : InOrder(i)
    BY <1>2 DEF Inv, Errand
  <2>2. 1 \in 1..Len(agenda)  BY <1>1
  <2>3. InOrder(1)  BY <2>1, <2>2
  <2> QED  BY <1>1, <1>2, <2>3 DEF InOrder
<1>3. CASE current # None
  <2>1. PICK va \in Va : agenda = <<Item("alloc", current, va)>>
    BY <1>3 DEF Inv, Errand
  <2>2. agenda[1] = Item("alloc", current, va) /\ Len(agenda) = 1
    BY <2>1
  <2>3. Item("alloc", current, va).op = "alloc" /\ Item("alloc", current, va).pid = current
    BY DEF Item
  <2> QED  BY <1>1, <1>3, <2>2, <2>3
<1> QED  BY <1>2, <1>3

LEMMA ErrandPops ==
    ASSUME Inv, mode = "kernel", agenda # <<>>, Finished,
           \/ Task1.op # "run" /\ UNCHANGED <<current, mode>>
           \/ Task1.op = "alloc" /\ UNCHANGED current /\ mode' = "user"
           \/ Task1.op = "run" /\ current' \in Proc /\ mode' \in {"user", "panicked"}
    PROVE  Errand'
<1>1. /\ Len(agenda') = Len(agenda) - 1 /\ agenda' \in Seq(Task)
      /\ \A i \in 1..Len(agenda') : agenda'[i] = agenda[i + 1]
  BY TailShifts DEF Inv
<1>2. current \in Proc \cup {None} /\ None \notin Proc
  BY DEF Inv, TypeOK, Proc, None
<1>3. Len(agenda) = 1 => agenda' = <<>>
  BY <1>1
<1>4. CASE current = None /\ Task1.op # "run"
  <2>1. \A i \in 1..Len(agenda) : InOrder(i)
    BY <1>4 DEF Inv, Errand
  <2>2. UNCHANGED <<current, mode>>
    BY <1>4, AtWork
  <2>3. \A i \in 1..Len(agenda') : InOrder(i)'
    <3> SUFFICES ASSUME NEW i \in 1..Len(agenda')
                 PROVE  InOrder(i)'
      OBVIOUS
    <3>1. agenda'[i] = agenda[i + 1] /\ i + 1 \in 1..Len(agenda)
      BY <1>1, AtWork
    <3>2. InOrder(i + 1)  BY <3>1, <2>1
    <3> QED  BY <3>1, <3>2, <1>1, AtWork DEF InOrder
  <2> QED  BY <1>4, <2>2, <2>3 DEF Errand
<1>5. CASE current = None /\ Task1.op = "run"
  <2>1. agenda' = <<>> /\ current' # None
    BY <1>5, <1>2, <1>3, AtWork
  <2> QED  BY <2>1 DEF Errand
<1>6. CASE current # None
  BY <1>6, <1>2, <1>3, AtWork DEF Errand
<1> QED  BY <1>4, <1>5, <1>6

LEMMA KernelStep ==
    ASSUME Inv, Kernel
    PROVE  Inv'
<1> USE DEF Working
<1>1. CASE SetUp
  <2>1. PICK program \in Programs : agenda' = Setup(Task1.pid, program) \o Tail(agenda)
    BY <1>1 DEF SetUp
  <2>2. Task1.pid \in Proc /\ Tail(agenda) \in Seq(Task) /\ agenda # <<>> /\ agenda \in Seq(Task)
    BY <1>1, AgendaTyped DEF SetUp, Inv, TypeOK
  <2> DEFINE s == Setup(Task1.pid, program)
  <2>3. /\ s \in Seq(Task) /\ Len(s) \in Nat /\ Len(s) > 3
        /\ \A i \in 1..Len(s) : s[i].op \notin {"alloc", "run"}
    <3>1. \A q \in Proc : /\ Item("root", q, 0).op = "root" /\ Item("kernel", q, 0).op = "kernel"
                          /\ Item("ready", q, 0).op = "ready"
      BY DEF Item
    <3>2. /\ s \in Seq(Task) /\ Len(s) \in Nat /\ Len(s) > 3
          /\ s[1].op = "root" /\ s[2].op = "kernel" /\ s[Len(s)].op = "ready"
          /\ \A i \in 3..(Len(s) - 1) : s[i].op = "map"
      <4>1. /\ s \in Seq(Task) /\ Len(s) \in Nat /\ Len(s) > 3
            /\ s[1] = Item("root", Task1.pid, 0) /\ s[2] = Item("kernel", Task1.pid, 0)
            /\ s[Len(s)] = Item("ready", Task1.pid, 0) /\ \A i \in 3..(Len(s) - 1) : s[i].op = "map"
        BY <2>2, SetupShape
      <4> HIDE DEF s
      <4> QED  BY <2>2, <3>1, <4>1
    <3> HIDE DEF s
    <3> SUFFICES ASSUME NEW i \in 1..Len(s) PROVE s[i].op \notin {"alloc", "run"}
      BY <3>2
    <3>3. i = 1 \/ i = 2 \/ i = Len(s) \/ i \in 3..(Len(s) - 1)
      BY <3>2
    <3> QED  BY <3>2, <3>3
  <2> HIDE DEF s
  <2>4. agenda' = s \o Tail(agenda)  BY <2>1 DEF s
  <2>5. agenda' \in Seq(Task)  BY <2>2, <2>3, <2>4
  <2>6. TypeOK'
    BY <1>1, <2>5 DEF SetUp, Inv, TypeOK, memory
  <2>7. current = None /\ mode = "kernel"
    BY <1>1, <2>2, AtWork DEF SetUp
  <2>8. \A i \in 1..Len(agenda) : InOrder(i)
    BY <2>7 DEF Inv, Errand
  <2>9. \A i \in 1..Len(agenda') : InOrder(i)'
    <3> SUFFICES ASSUME NEW i \in 1..Len(agenda')
                 PROVE  InOrder(i)'
      OBVIOUS
    <3>1. Len(agenda') = Len(s) + Len(agenda) - 1 /\ Len(agenda) \in Nat
      BY <2>2, <2>3, <2>4
    <3>2. CASE i \in 1..Len(s)
      BY <3>2, <2>2, <2>3, <2>4 DEF InOrder
    <3>3. CASE i > Len(s)
      <4>1. agenda'[i] = agenda[i - Len(s) + 1] /\ i - Len(s) + 1 \in 1..Len(agenda)
        BY <3>3, <3>1, <2>2, <2>3, <2>4
      <4>2. InOrder(i - Len(s) + 1)  BY <4>1, <2>8
      <4> QED  BY <4>1, <4>2, <3>1, <2>3 DEF InOrder
    <3> QED  BY <3>1, <3>2, <3>3, <2>3
  <2>10. Errand'
    BY <1>1, <2>7, <2>9 DEF SetUp, Errand
  <2> QED  BY <1>1, <2>6, <2>10 DEF SetUp, Inv, Jumped, InUse, KernelIsSpared, PagesHaveOneUse, memory
<1>2. CASE NewRoot
  <2>1. PICK pg \in Page : Kalloc(pg) /\ node' = [node EXCEPT ![Task1.pid]["root"] = pg]
    BY <1>2 DEF NewRoot
  <2>2. agenda' \in Seq(Task) /\ Task1.pid \in Proc /\ Errand'
    BY <1>2, AgendaTyped, TailShifts, ErrandPops DEF NewRoot, Inv
  <2>3. /\ used' \subseteq Page /\ nextPage' \in 0..NPages /\ Jumped' /\ KernelIsSpared'
    BY <2>1, KallocFresh DEF Inv
  <2>4. InUse' /\ PagesHaveOneUse' /\ node' \in [Proc -> [Table -> Page \cup {None}]]
    BY <1>2, <2>1, <2>2, TablesFresh DEF NewRoot, Table
  <2>5. TypeOK'
    BY <1>2, <2>2, <2>3, <2>4 DEF NewRoot, Inv, TypeOK
  <2> QED  BY <2>2, <2>3, <2>4, <2>5 DEF Inv
<1>3. CASE TakePage
  <2>1. PICK pg \in Page : Kalloc(pg) /\ held' = pg
    BY <1>3 DEF TakePage
  <2>2. /\ used' \subseteq Page /\ nextPage' \in 0..NPages /\ Jumped' /\ KernelIsSpared'
    BY <2>1, KallocFresh DEF Inv
  <2>3. InUse' /\ PagesHaveOneUse'
    BY <1>3, <2>1, TakeFresh DEF TakePage
  <2>4. TypeOK'
    BY <1>3, <2>1, <2>2 DEF TakePage, Inv, TypeOK
  <2>5. Errand'
    BY <1>3 DEF TakePage, Inv, Errand, InOrder
  <2> QED  BY <2>2, <2>3, <2>4, <2>5 DEF Inv
<1>4. CASE AllocFails
  <2>1. agenda' \in Seq(Task) /\ Task1.pid \in Proc /\ Errand'
    BY <1>4, AgendaTyped, TailShifts, ErrandPops DEF AllocFails, Inv
  <2>2. TypeOK'
    BY <1>4, <2>1 DEF AllocFails, Inv, TypeOK, memory
  <2> QED  BY <1>4, <2>1, <2>2 DEF AllocFails, Inv, Jumped, InUse, KernelIsSpared, PagesHaveOneUse, memory
<1>5. CASE Extend
  <2>1. PICK i \in 1..3, pg \in Page :
            Kalloc(pg) /\ node' = [node EXCEPT ![Task1.pid][Path(Task1.va)[i]] = pg]
    BY <1>5 DEF Extend, Missing
  <2>2. Path(Task1.va)[i] \in Table
    BY DEF Path, Table
  <2>3. agenda # <<>> /\ Task1.pid \in Proc
    BY <1>5, AgendaTyped DEF Extend, Mapping, Inv
  <2>4. /\ used' \subseteq Page /\ nextPage' \in 0..NPages /\ Jumped' /\ KernelIsSpared'
    BY <2>1, KallocFresh DEF Inv
  <2>5. InUse' /\ PagesHaveOneUse' /\ node' \in [Proc -> [Table -> Page \cup {None}]]
    BY <1>5, <2>1, <2>2, <2>3, TablesFresh DEF Extend
  <2>6. TypeOK' /\ Errand'
    BY <1>5, <2>4, <2>5 DEF Extend, Inv, TypeOK, Errand, InOrder
  <2> QED  BY <2>4, <2>5, <2>6 DEF Inv
<1>6. CASE OutOfTables
  <2>1. TypeOK' /\ Errand'
    BY <1>6 DEF OutOfTables, Panics, Inv, TypeOK, Errand, InOrder, memory
  <2> QED  BY <1>6, <2>1 DEF OutOfTables, Panics, Inv, Jumped, InUse, KernelIsSpared, PagesHaveOneUse, memory
<1>7. CASE Install
  <2>1. agenda # <<>> /\ mode = "kernel" /\ Task1.op \in {"map", "alloc"}
    BY <1>7 DEF Install
  <2>2. Task1.pid \in Proc /\ Task1.va \in Va /\ agenda' \in Seq(Task)
    BY <1>7, <2>1, AgendaTyped, TailShifts DEF Install, Inv
  <2>3. Errand'
    BY <1>7, <2>1, ErrandPops DEF Install
  <2>4. InUse' /\ PagesHaveOneUse' /\ mapping' \in [Proc -> [Va -> Page \cup {None}]]
    BY <1>7, <2>2, InstallMoves DEF Install
  <2>5. TypeOK'
    BY <1>7, <2>1, <2>2, <2>4 DEF Install, Inv, TypeOK
  <2> QED  BY <1>7, <2>3, <2>4, <2>5 DEF Install, Inv, Jumped, KernelIsSpared
<1>8. CASE KernelMapped
  <2>1. agenda' \in Seq(Task) /\ Errand'
    BY <1>8, TailShifts, ErrandPops DEF KernelMapped, Inv
  <2>2. TypeOK'
    BY <1>8, <2>1 DEF KernelMapped, Inv, TypeOK, memory
  <2> QED  BY <1>8, <2>1, <2>2 DEF KernelMapped, Inv, Jumped, InUse, KernelIsSpared, PagesHaveOneUse, memory
<1>9. CASE Ready
  <2>1. agenda' \in Seq(Task) /\ Errand'
    BY <1>9, TailShifts, ErrandPops DEF Ready, Inv
  <2>2. TypeOK'
    BY <1>9, <2>1 DEF Ready, Inv, TypeOK, memory
  <2> QED  BY <1>9, <2>1, <2>2 DEF Ready, Inv, Jumped, InUse, KernelIsSpared, PagesHaveOneUse, memory
<1>10. CASE Run
  <2>1. agenda' \in Seq(Task) /\ Task1.pid \in Proc
    BY <1>10, AgendaTyped, TailShifts DEF Run, Inv
  <2>2. current' \in Proc /\ mode' \in {"user", "panicked"}
    BY <1>10, <2>1 DEF Run
  <2>3. Errand'
    BY <1>10, <2>2, ErrandPops DEF Run
  <2>4. TypeOK'
    BY <1>10, <2>1, <2>2 DEF Run, Inv, TypeOK, memory
  <2> QED  BY <1>10, <2>3, <2>4 DEF Run, Inv, Jumped, InUse, KernelIsSpared, PagesHaveOneUse, memory
<1> QED  BY <1>1, <1>2, <1>3, <1>4, <1>5, <1>6, <1>7, <1>8, <1>9, <1>10 DEF Kernel

LEMMA ProcessStep ==
    ASSUME Inv, Yield \/ Fault \/ PageAllocInvalid \/ Halt \/ \E va \in Va : PageAlloc(va)
    PROVE  Inv'
<1>1. UNCHANGED memory
  BY DEF Yield, Fault, PageAllocInvalid, Halt, PageAlloc
<1>2. mode = "user" /\ agenda = <<>> /\ current \in Proc /\ None \notin Proc
  BY DEF Yield, Fault, PageAllocInvalid, Halt, PageAlloc, Inv, Errand, TypeOK, Proc, None
<1>3. TypeOK' /\ Errand'
  <2>1. CASE Yield
    BY <2>1, <1>1, <1>2, ScheduleTyped DEF Yield, Inv, TypeOK, Errand, memory
  <2>2. CASE Fault
    BY <2>2, <1>1, <1>2, ScheduleTyped DEF Fault, Inv, TypeOK, Errand, memory
  <2>3. CASE PageAllocInvalid
    BY <2>3, <1>1, <1>2 DEF PageAllocInvalid, Inv, TypeOK, Errand, memory
  <2>4. CASE Halt
    BY <2>4, <1>1, <1>2 DEF Halt, Inv, TypeOK, Errand, memory
  <2>5. CASE \E va \in Va : PageAlloc(va)
    <3>1. PICK va \in Va : PageAlloc(va)  BY <2>5
    <3>2. Item("alloc", current, va) \in Task  BY <1>2 DEF Item, Task
    <3> QED  BY <3>1, <3>2, <1>1, <1>2 DEF PageAlloc, Inv, TypeOK, Errand, memory
  <2> QED  BY <2>1, <2>2, <2>3, <2>4, <2>5
<1> QED  BY <1>1, <1>3 DEF Inv, Jumped, InUse, KernelIsSpared, PagesHaveOneUse, memory

LEMMA Stutter == Inv /\ UNCHANGED vars => Inv'
BY DEF Inv, TypeOK, Jumped, InUse, KernelIsSpared, PagesHaveOneUse, Errand, InOrder, vars, memory

THEOREM Invariance == Spec => []Inv
<1>1. Inv /\ [Next]_vars => Inv'
  BY KernelStep, ProcessStep, Stutter DEF Next
<1> QED  BY InvInit, <1>1, PTL DEF Spec

\* The types.
THEOREM TypeCorrect == Spec => []TypeOK
BY Invariance, PTL DEF Inv

\* No physical page serves two purposes.
THEOREM OneUse == Spec => []PagesHaveOneUse
BY Invariance, PTL DEF Inv

\* kalloc never hands out the kernel's own memory or the devices'.
THEOREM KernelSafe == Spec => []KernelIsSpared
BY Invariance, PTL DEF Inv

\* A mapping changes only where sys_page_alloc, or the boot, enters a page that
\* is marked, and only for the process that runs.
THEOREM AllocIsLocal == Spec => MappingsGrow
<1>1. Inv /\ Next => AllocEffect
  <2> SUFFICES ASSUME Inv, Next PROVE AllocEffect  OBVIOUS
  <2>1. CASE Install
    <3>1. agenda # <<>> /\ Task1.op \in {"map", "alloc"}
      BY <2>1 DEF Install, Working
    <3>2. Task1.pid \in Proc /\ Task1.va \in Va
      BY <3>1, AgendaTyped DEF Inv
    <3>3. \A q \in Proc, w \in Va : mapping'[q][w] = IF q = Task1.pid /\ w = Task1.va THEN held ELSE mapping[q][w]
      BY <2>1, <3>2 DEF Install, Inv, TypeOK
    <3>4. held \in used /\ held # None
      BY <2>1 DEF Install, Inv, InUse
    <3>5. current \in {Task1.pid, None}
      BY <3>1, AtWork
    <3> QED  BY <3>3, <3>4, <3>5 DEF AllocEffect
  <2>2. CASE UNCHANGED mapping
    BY <2>2 DEF AllocEffect
  <2> QED
    BY <2>1, <2>2 DEF Next, Kernel, SetUp, NewRoot, TakePage, AllocFails, Extend, OutOfTables, Panics, KernelMapped,
       Ready, Run, Yield, Fault, PageAllocInvalid, Halt, PageAlloc, memory
<1>2. Inv /\ [Next]_vars => [AllocEffect]_vars
  BY <1>1
<1> QED  BY Invariance, <1>2, PTL DEF Spec, MappingsGrow

-----------------------------------------------------------------------------
(***************************************************************************)
(* No process runs before its page table and stack are whole, and so no    *)
(* sys_page_alloc can miss a table and reach the assertion in kfree.  The  *)
(* argument follows the agenda: whatever makes a process runnable stands   *)
(* in it behind everything the process still lacks.                        *)
(***************************************************************************)

Rooted(p) == node[p]["root"] # None
LowMade(p) == node[p]["pdp"] # None /\ node[p]["pd"] # None /\ node[p]["low"] # None
StackMade(p) == node[p]["high"] # None /\ mapping[p][StackVa] # None
Whole(p) == Rooted(p) /\ LowMade(p) /\ StackMade(p)

Before(i, item) == \E j \in 1..(i - 1) : agenda[j] = item

\* What an item that makes p runnable has before it in the agenda.
ReadyOwed(i) ==
    \A p \in Proc : agenda[i] = Item("ready", p, 0) =>
        /\ Before(i, Item("root", p, 0)) \/ Rooted(p)
        /\ Before(i, Item("kernel", p, 0)) \/ LowMade(p)
        /\ Before(i, Item("map", p, StackVa)) \/ StackMade(p)

\* ... and the one that runs the first process.
RunOwed(i) ==
    agenda[i].op = "run" =>
        /\ agenda[i].pid = 1
        /\ Before(i, Item("setup", 1, 0)) \/ Before(i, Item("ready", 1, 0)) \/ state[1] = "runnable"

Ordered == \A i \in 1..Len(agenda) : ReadyOwed(i) /\ RunOwed(i)

Progress ==
    /\ \A p \in Proc : state[p] # "free" => Whole(p)
    /\ mode \in {"user", "kernel"} /\ current # None => state[current] = "runnable"
    /\ mode = "panicked" => current = None

\* The page table and the mappings of a process only grow.
Grows == \A p \in Proc : /\ Rooted(p) => Rooted(p)'
                         /\ LowMade(p) => LowMade(p)'
                         /\ StackMade(p) => StackMade(p)'

LEMMA One == 1 \in Proc /\ 0 \notin Va /\ StackVa \in Va /\ None \notin Proc /\ None \notin Page
<1>1. PICK n \in Starts : n \in 1..(NProc - 1)  OBVIOUS
<1>2. 1 \in Proc  BY <1>1 DEF Proc
<1> QED  BY <1>2 DEF Proc, Va, StackVa, None, Page

LEMMA NextGrows == Inv /\ Next => Grows
<1> SUFFICES ASSUME Inv, Next PROVE Grows  OBVIOUS
<1>1. CASE UNCHANGED <<node, mapping>>
  BY <1>1 DEF Grows, Rooted, LowMade, StackMade
<1>2. ASSUME NEW pg \in Page, NEW q, NEW n, node' = [node EXCEPT ![q][n] = pg], UNCHANGED mapping
      PROVE  Grows
  <2>1. \A p \in Proc, m \in Table : node[p][m] # None => node'[p][m] # None
    BY <1>2, One DEF Inv, TypeOK
  <2> QED  BY <1>2, <2>1 DEF Grows, Rooted, LowMade, StackMade, Table
<1>3. CASE Install
  <2>1. \A p \in Proc, va \in Va : mapping[p][va] # None => mapping'[p][va] # None
    BY <1>3 DEF Install, Inv, TypeOK
  <2> QED  BY <1>3, <2>1, One DEF Install, Grows, Rooted, LowMade, StackMade
<1> QED
  BY <1>1, <1>2, <1>3 DEF Next, Kernel, SetUp, NewRoot, TakePage, AllocFails, Extend, OutOfTables, Panics,
     KernelMapped, Ready, Run, Yield, Fault, PageAllocInvalid, Halt, PageAlloc, memory

\* What stood before an item of the rest of the agenda still does, or is done.
LEMMA BeforeShifts ==
    ASSUME Inv, agenda # <<>>, Finished, NEW i \in 1..Len(agenda'), NEW item, Before(i + 1, item)
    PROVE  item = Task1 \/ Before(i, item)'
<1>1. PICK j \in 1..i : agenda[j] = item
  BY DEF Before
<1>2. /\ Len(agenda') \in Nat /\ Task1 = agenda[1]
      /\ \A k \in 1..Len(agenda') : agenda'[k] = agenda[k + 1]
  BY TailShifts DEF Inv
<1>3. CASE j = 1
  BY <1>1, <1>2, <1>3
<1>4. CASE j > 1
  <2>1. j - 1 \in 1..(i - 1) /\ j - 1 \in 1..Len(agenda')
    BY <1>4, <1>2
  <2>2. agenda'[j - 1] = agenda[j]
    BY <2>1, <1>2
  <2> QED  BY <1>1, <2>1, <2>2 DEF Before
<1> QED  BY <1>1, <1>3, <1>4

\* An item is done whose purpose is met: what is left is still in order.
LEMMA OrderedPops ==
    ASSUME Inv, Ordered, Grows, agenda # <<>>, Finished, Task1.op # "setup",
           state[1] = "runnable" => state'[1] = "runnable",
           \A p \in Proc : /\ Task1 = Item("root", p, 0) => Rooted(p)'
                           /\ Task1 = Item("kernel", p, 0) => LowMade(p)'
                           /\ Task1 = Item("map", p, StackVa) => StackMade(p)',
           Task1 = Item("ready", 1, 0) => state'[1] = "runnable"
    PROVE  Ordered'
<1> SUFFICES ASSUME NEW i \in 1..Len(agenda') PROVE ReadyOwed(i)' /\ RunOwed(i)'
  BY DEF Ordered
<1>1. agenda'[i] = agenda[i + 1] /\ i + 1 \in 1..Len(agenda)
  BY TailShifts DEF Inv
<1>2. ReadyOwed(i + 1) /\ RunOwed(i + 1)
  BY <1>1 DEF Ordered
<1>3. ASSUME NEW item PROVE Before(i + 1, item) => item = Task1 \/ Before(i, item)'
  BY BeforeShifts
<1>4. Task1 # Item("setup", 1, 0)
  BY DEF Item
<1>5. ReadyOwed(i)'
  <2> SUFFICES ASSUME NEW p \in Proc, agenda'[i] = Item("ready", p, 0)
               PROVE  /\ Before(i, Item("root", p, 0))' \/ Rooted(p)'
                      /\ Before(i, Item("kernel", p, 0))' \/ LowMade(p)'
                      /\ Before(i, Item("map", p, StackVa))' \/ StackMade(p)'
    BY DEF ReadyOwed, Before
  <2>1. /\ Before(i + 1, Item("root", p, 0)) \/ Rooted(p)
        /\ Before(i + 1, Item("kernel", p, 0)) \/ LowMade(p)
        /\ Before(i + 1, Item("map", p, StackVa)) \/ StackMade(p)
    BY <1>1, <1>2 DEF ReadyOwed
  <2>2. /\ Rooted(p) => Rooted(p)'
        /\ LowMade(p) => LowMade(p)'
        /\ StackMade(p) => StackMade(p)'
    BY DEF Grows
  <2>3. Before(i, Item("root", p, 0))' \/ Rooted(p)'
    BY <1>3, <2>1, <2>2
  <2>4. Before(i, Item("kernel", p, 0))' \/ LowMade(p)'
    BY <1>3, <2>1, <2>2
  <2>5. Before(i, Item("map", p, StackVa))' \/ StackMade(p)'
    BY <1>3, <2>1, <2>2
  <2> QED  BY <2>3, <2>4, <2>5
<1>6. RunOwed(i)'
  <2> SUFFICES ASSUME agenda'[i].op = "run"
               PROVE  /\ agenda'[i].pid = 1
                      /\ Before(i, Item("setup", 1, 0))' \/ Before(i, Item("ready", 1, 0))' \/ state'[1] = "runnable"
    BY DEF RunOwed, Before
  <2>1. /\ agenda[i + 1].pid = 1
        /\ \/ Before(i + 1, Item("setup", 1, 0)) \/ Before(i + 1, Item("ready", 1, 0))
           \/ state[1] = "runnable"
    BY <1>1, <1>2 DEF RunOwed
  <2>2. Before(i + 1, Item("setup", 1, 0)) => Before(i, Item("setup", 1, 0))'
    BY <1>3, <1>4
  <2>3. Before(i + 1, Item("ready", 1, 0)) => Before(i, Item("ready", 1, 0))' \/ state'[1] = "runnable"
    BY <1>3
  <2> QED  BY <1>1, <2>1, <2>2, <2>3
<1> QED  BY <1>5, <1>6

\* process_setup begins: its items take the place of the call.
LEMMA OrderedSetUp ==
    ASSUME Inv, Ordered, SetUp
    PROVE  Ordered'
<1>1. agenda # <<>> /\ mode = "kernel" /\ Task1.op = "setup" /\ UNCHANGED <<node, mapping, state>>
  BY DEF SetUp, Working, memory
<1>2. PICK program \in Programs : agenda' = Setup(Task1.pid, program) \o Tail(agenda)
  BY DEF SetUp
<1>a. PICK p0 \in Proc : p0 = Task1.pid
  BY <1>1, AgendaTyped DEF Inv
<1>b. PICK s \in Seq(Task) : s = Setup(p0, program)
  BY SetupShape
<1>3. agenda \in Seq(Task) /\ Tail(agenda) \in Seq(Task) /\ Task1 = agenda[1] /\ Len(agenda) \in Nat
  BY <1>1, AgendaTyped DEF Inv, TypeOK, Task1
<1>4. /\ s \in Seq(Task) /\ Len(s) \in Nat /\ Len(s) > 3
      /\ s[1] = Item("root", p0, 0) /\ s[2] = Item("kernel", p0, 0)
      /\ s[Len(s) - 1] = Item("map", p0, StackVa) /\ s[Len(s)] = Item("ready", p0, 0)
      /\ \A i \in 3..(Len(s) - 1) : s[i].op = "map"
  BY <1>b, SetupShape
<1>5. agenda' = s \o Tail(agenda)
  BY <1>2, <1>a, <1>b
<1>6. /\ Len(agenda') = Len(s) + Len(agenda) - 1
      /\ \A i \in 1..Len(s) : agenda'[i] = s[i]
      /\ \A i \in (Len(s) + 1)..Len(agenda') : agenda'[i] = agenda[i - Len(s) + 1]
  BY <1>1, <1>3, <1>4, <1>5
<1>7. \A p, q \in Proc : /\ Item("ready", p, 0).op = "ready" /\ Item("root", p, 0).op = "root"
                         /\ Item("kernel", p, 0).op = "kernel" /\ Item("map", p, StackVa).op = "map"
                         /\ Item("ready", p, 0).pid = p
  BY DEF Item
<1>8. ASSUME NEW i \in (Len(s) + 1)..Len(agenda'), NEW item, Before(i - Len(s) + 1, item)
      PROVE  item = Task1 \/ Before(i, item)'
  <2>1. PICK j \in 1..(i - Len(s)) : agenda[j] = item
    <3>1. (i - Len(s) + 1) - 1 = i - Len(s)
      BY <1>4
    <3> QED  BY <1>8, <3>1 DEF Before
  <2>2. CASE j = 1
    BY <2>1, <2>2, <1>3
  <2>3. CASE j > 1
    <3>1. /\ j + Len(s) - 1 \in (Len(s) + 1)..Len(agenda') /\ j + Len(s) - 1 \in 1..(i - 1)
          /\ (j + Len(s) - 1) - Len(s) + 1 = j
      BY <2>3, <1>4, <1>6, <1>3
    <3>2. agenda'[j + Len(s) - 1] = agenda[j]
      BY <3>1, <1>6
    <3> QED  BY <2>1, <3>1, <3>2 DEF Before
  <2> QED  BY <2>2, <2>3, <1>4
<1> SUFFICES ASSUME NEW i \in 1..Len(agenda') PROVE ReadyOwed(i)' /\ RunOwed(i)'
  BY DEF Ordered
<1>9. CASE i \in 1..Len(s)
  <2>1. agenda'[i] = s[i]  BY <1>9, <1>6
  <2>2. i = 1 \/ i = 2 \/ i = Len(s) \/ i \in 3..(Len(s) - 1)
    BY <1>9, <1>4
  <2>3. agenda'[i].op # "run"
    BY <2>1, <2>2, <1>3, <1>4, <1>7
  <2>4. ASSUME NEW p \in Proc, agenda'[i] = Item("ready", p, 0)
        PROVE  i = Len(s) /\ p = p0
    <3>1. s[i].op = "ready"
      BY <2>4, <2>1, <1>7
    <3>2. i = Len(s)
      BY <3>1, <2>2, <1>4, <1>7
    <3>3. Item("ready", p, 0) = Item("ready", p0, 0)
      BY <3>2, <2>4, <2>1, <1>4
    <3>4. p = p0
      BY <3>3 DEF Item
    <3> QED  BY <3>2, <3>4
  <2>5. /\ 1 \in 1..Len(s) /\ 2 \in 1..Len(s) /\ Len(s) - 1 \in 1..Len(s)
        /\ 1 \in 1..(Len(s) - 1) /\ 2 \in 1..(Len(s) - 1) /\ Len(s) - 1 \in 1..(Len(s) - 1)
    BY <1>4
  <2>6. /\ Before(Len(s), Item("root", p0, 0))'
        /\ Before(Len(s), Item("kernel", p0, 0))'
        /\ Before(Len(s), Item("map", p0, StackVa))'
    <3>1. /\ agenda'[1] = Item("root", p0, 0) /\ agenda'[2] = Item("kernel", p0, 0)
          /\ agenda'[Len(s) - 1] = Item("map", p0, StackVa)
      BY <2>5, <1>4, <1>6
    <3> QED  BY <3>1, <2>5 DEF Before
  <2> QED  BY <2>3, <2>4, <2>6 DEF ReadyOwed, RunOwed
<1>10. CASE i \in (Len(s) + 1)..Len(agenda')
  <2> DEFINE k == i - Len(s) + 1
  <2>1. agenda'[i] = agenda[k] /\ k \in 1..Len(agenda)
    BY <1>10, <1>3, <1>4, <1>6
  <2>2. ReadyOwed(k) /\ RunOwed(k)
    BY <2>1 DEF Ordered
  <2>3. ASSUME NEW item PROVE Before(k, item) => item = Task1 \/ Before(i, item)'
    BY <1>8, <1>10
  <2>4. Task1 = Item("setup", 1, 0) => Before(i, Item("ready", 1, 0))'
    <3> SUFFICES ASSUME Task1 = Item("setup", 1, 0) PROVE Before(i, Item("ready", 1, 0))'
      OBVIOUS
    <3>1. p0 = 1
      BY <1>a DEF Item
    <3>2. Len(s) \in 1..Len(s) /\ Len(s) \in 1..(i - 1)
      BY <1>4, <1>10
    <3>3. agenda'[Len(s)] = Item("ready", 1, 0)
      BY <3>1, <3>2, <1>4, <1>6
    <3> QED  BY <3>2, <3>3 DEF Before
  <2>5. RunOwed(i)'
    <3> SUFFICES ASSUME agenda'[i].op = "run"
                 PROVE  /\ agenda'[i].pid = 1
                        /\ Before(i, Item("setup", 1, 0))' \/ Before(i, Item("ready", 1, 0))' \/ state'[1] = "runnable"
      BY DEF RunOwed, Before
    <3>1. Before(k, Item("ready", 1, 0)) => Before(i, Item("ready", 1, 0))'
      BY <2>3, <1>1, <1>7, One
    <3>2. Before(k, Item("setup", 1, 0)) => Before(i, Item("setup", 1, 0))' \/ Before(i, Item("ready", 1, 0))'
      BY <2>3, <2>4
    <3> QED  BY <3>1, <3>2, <2>1, <2>2, <1>1 DEF RunOwed
  <2>6. ReadyOwed(i)'
    <3> SUFFICES ASSUME NEW p \in Proc, agenda'[i] = Item("ready", p, 0)
                 PROVE  /\ Before(i, Item("root", p, 0))' \/ Rooted(p)'
                        /\ Before(i, Item("kernel", p, 0))' \/ LowMade(p)'
                        /\ Before(i, Item("map", p, StackVa))' \/ StackMade(p)'
      BY DEF ReadyOwed, Before
    <3>1. /\ Before(k, Item("root", p, 0)) => Before(i, Item("root", p, 0))'
          /\ Before(k, Item("kernel", p, 0)) => Before(i, Item("kernel", p, 0))'
          /\ Before(k, Item("map", p, StackVa)) => Before(i, Item("map", p, StackVa))'
      BY <2>3, <1>1, <1>7
    <3>2. /\ Rooted(p)' = Rooted(p) /\ LowMade(p)' = LowMade(p) /\ StackMade(p)' = StackMade(p)
      BY <1>1 DEF Rooted, LowMade, StackMade
    <3> QED  BY <3>1, <3>2, <2>1, <2>2 DEF ReadyOwed
  <2> QED  BY <2>5, <2>6
<1> QED  BY <1>9, <1>10, <1>4, <1>6

-----------------------------------------------------------------------------

RunInv == Inv /\ Ordered /\ Progress

LEMMA RunInit == Init => RunInv
<1> SUFFICES ASSUME Init PROVE RunInv  OBVIOUS
<1>1. PICK n \in Starts : agenda = Boot(n)  BY DEF Init
<1>2. Inv  BY InvInit
<1>3. Progress
  BY DEF Init, Progress, None
<1>4. /\ Len(agenda) = n + 1 /\ n \in Nat /\ n > 0
      /\ \A i \in 1..n : agenda[i] = Item("setup", i, 0)
      /\ agenda[n + 1] = Item("run", 1, 0)
  BY <1>1, BootShape
<1>5. ASSUME NEW i \in 1..Len(agenda) PROVE ReadyOwed(i) /\ RunOwed(i)
  <2>1. CASE i \in 1..n
    <3>1. agenda[i] = Item("setup", i, 0)
      BY <2>1, <1>4
    <3>2. Item("setup", i, 0).op = "setup" /\ \A p : Item("ready", p, 0) # Item("setup", i, 0)
      BY DEF Item
    <3> QED  BY <3>1, <3>2 DEF ReadyOwed, RunOwed
  <2>2. CASE i = n + 1
    <3>1. 1 \in 1..(i - 1) /\ agenda[1] = Item("setup", 1, 0)
      BY <2>2, <1>4
    <3>2. Before(i, Item("setup", 1, 0))
      BY <3>1 DEF Before
    <3>3. agenda[i] = Item("run", 1, 0)
      BY <2>2, <1>4
    <3> QED  BY <3>2, <3>3 DEF ReadyOwed, RunOwed, Item
  <2> QED  BY <2>1, <2>2, <1>4
<1> QED  BY <1>2, <1>3, <1>5 DEF RunInv, Ordered

\* schedule picks a runnable process or none.
LEMMA Scheduled ==
    ASSUME current \in Proc, NEW S, S \subseteq Proc, Schedule(S)
    PROVE  (UNCHANGED mode /\ current' \in S) \/ (mode' = "spinning" /\ UNCHANGED current)
<1>1. CASE Turns(current, S) = {}
  BY <1>1 DEF Schedule
<1>2. CASE Turns(current, S) # {}
  <2>1. PICK d \in Turns(current, S) : current' = (current + d) % NProc /\ UNCHANGED mode
    BY <1>2 DEF Schedule
  <2>2. (current + d) % NProc \in S
    BY <2>1 DEF Turns
  <2>3. current' \in S
    BY <2>1, <2>2, Zenon
  <2> QED  BY <2>1, <2>3
<1> QED  BY <1>1, <1>2

LEMMA KernelRuns ==
    ASSUME RunInv, Kernel
    PROVE  Ordered' /\ Progress'
<1> USE DEF Working, RunInv
<1>1. Inv /\ Ordered /\ Progress /\ Grows
  BY NextGrows DEF Next
<1>2. mode = "kernel" /\ agenda # <<>> /\ Task1.pid \in Proc
  <2>1. mode = "kernel" /\ agenda # <<>>
    BY DEF Kernel, SetUp, NewRoot, TakePage, AllocFails, Extend, OutOfTables, Mapping, Install, KernelMapped, Ready, Run
  <2> QED  BY <2>1, AgendaTyped DEF Inv
<1>3. ASSUME NEW p, NEW q, NEW va, NEW wa, NEW o, NEW b, Item(o, p, va) = Item(b, q, wa)
      PROVE  o = b /\ p = q /\ va = wa
  BY <1>3 DEF Item
<1>4. \A o, p, va : Item(o, p, va).op = o /\ Item(o, p, va).pid = p /\ Item(o, p, va).va = va
  BY DEF Item
\* Nothing is done, or the agenda is not in use any more.
<1>5. ASSUME UNCHANGED <<agenda, state>> PROVE Ordered'
  <2>1. \A p \in Proc : /\ Rooted(p) => Rooted(p)'
                        /\ LowMade(p) => LowMade(p)'
                        /\ StackMade(p) => StackMade(p)'
    BY <1>1 DEF Grows
  <2>2. \A i, item : Before(i, item)' <=> Before(i, item)
    BY <1>5 DEF Before
  <2>3. ASSUME NEW i \in 1..Len(agenda) PROVE ReadyOwed(i)'
    BY <1>1, <1>5, <2>1, <2>2 DEF Ordered, ReadyOwed
  <2>4. ASSUME NEW i \in 1..Len(agenda) PROVE RunOwed(i)'
    BY <1>1, <1>5, <2>2 DEF Ordered, RunOwed
  <2> QED  BY <1>5, <2>3, <2>4 DEF Ordered
<1>6. ASSUME UNCHANGED <<state, current>>, mode' \in {"user", "kernel"} PROVE Progress'
  BY <1>1, <1>2, <1>6 DEF Progress, Grows, Whole
<1>7. CASE SetUp
  BY <1>1, <1>2, <1>6, <1>7, OrderedSetUp DEF SetUp
<1>8. CASE NewRoot
  <2>1. ASSUME NEW p \in Proc, Task1 = Item("root", p, 0) PROVE Rooted(p)'
    <3>a. Task1.pid = p
      BY <2>1, <1>4
    <3>1. PICK pg \in Page : node' = [node EXCEPT ![p]["root"] = pg]
      BY <3>a, <1>8 DEF NewRoot
    <3>2. node'[p]["root"] = pg
      BY <3>1, <1>1 DEF Inv, TypeOK, Table
    <3> QED  BY <3>2, One DEF Rooted
  <2>2. Ordered'
    BY <1>1, <1>2, <1>4, <1>8, <2>1, OrderedPops DEF NewRoot
  <2> QED  BY <1>2, <1>6, <1>8, <2>2 DEF NewRoot
<1>9. CASE TakePage \/ Extend
  BY <1>2, <1>5, <1>6, <1>9 DEF TakePage, Extend
<1>10. CASE AllocFails
  <2>1. Ordered'
    BY <1>1, <1>2, <1>4, <1>10, OrderedPops DEF AllocFails
  <2> QED  BY <1>2, <1>6, <1>10, <2>1 DEF AllocFails
<1>11. CASE OutOfTables
  <2>1. Ordered'
    BY <1>5, <1>11 DEF OutOfTables, Panics
  <2>2. current = None
    <3> SUFFICES ASSUME current # None PROVE FALSE
      OBVIOUS
    <3>1. Task1.op = "alloc" /\ Task1.pid = current /\ current \in Proc
      BY <1>1, <1>2, AtWork DEF Inv, TypeOK
    <3>2. Missing(current, Task1.va) # {}
      BY <3>1, <1>11 DEF OutOfTables, Mapping
    <3>3. Whole(current)
      BY <1>1, <1>2, <3>1 DEF Progress
    <3> QED  BY <3>2, <3>3 DEF Missing, Path, Whole, Rooted, LowMade, StackMade
  <2> QED  BY <1>1, <1>11, <2>1, <2>2 DEF OutOfTables, Panics, Progress, Grows, Whole
<1>12. CASE Install
  <2>1. ASSUME NEW p \in Proc, Task1 = Item("map", p, StackVa) PROVE StackMade(p)'
    <3>1. Task1.pid = p /\ Task1.va = StackVa
      BY <2>1, <1>4
    <3>2. node[p]["high"] # None
      <4>1. 3 \notin Missing(p, StackVa)
        BY <3>1, <1>12 DEF Install
      <4>2. Path(StackVa)[3] = "high"
        BY DEF Path, StackVa
      <4> QED  BY <4>1, <4>2 DEF Missing
    <3>3. mapping'[p][StackVa] = held
      BY <3>1, <1>1, <1>12, One DEF Install, Inv, TypeOK
    <3> QED  BY <3>2, <3>3, <1>12 DEF Install, StackMade
  <2>2. Ordered'
    BY <1>1, <1>2, <1>4, <1>12, <2>1, OrderedPops DEF Install
  <2> QED  BY <1>2, <1>6, <1>12, <2>2 DEF Install
<1>13. CASE KernelMapped
  <2>1. ASSUME NEW p \in Proc, Task1 = Item("kernel", p, 0) PROVE LowMade(p)'
    <3>1. Task1.pid = p /\ Task1.va = 0
      BY <2>1, <1>4
    <3>2. Missing(p, 0) = {} /\ node' = node
      BY <3>1, <1>13 DEF KernelMapped, memory
    <3>3. Path(0)[1] = "pdp" /\ Path(0)[2] = "pd" /\ Path(0)[3] = "low"
      BY VirtualAssumption DEF Path
    <3>4. \A i \in 1..3 : node[p][Path(0)[i]] # None
      BY <3>2 DEF Missing
    <3>5. 1 \in 1..3 /\ 2 \in 1..3 /\ 3 \in 1..3
      OBVIOUS
    <3>6. node[p]["pdp"] # None /\ node[p]["pd"] # None /\ node[p]["low"] # None
      BY <3>3, <3>4, <3>5
    <3> QED  BY <3>2, <3>6 DEF LowMade
  <2>2. Ordered'
    BY <1>1, <1>2, <1>4, <1>13, <2>1, OrderedPops DEF KernelMapped
  <2> QED  BY <1>2, <1>6, <1>13, <2>2 DEF KernelMapped
<1>14. CASE Ready
  <2>1. PICK p \in Proc : Task1 = Item("ready", p, 0) /\ Task1.pid = p
    <3>1. Task1 \in Task /\ Task1.op = "ready"
      BY <1>1, <1>2, <1>14, AgendaTyped DEF Ready, Inv
    <3>2. Task1 = Item("ready", Task1.pid, 0)
      BY <3>1 DEF Task, Item
    <3> QED  BY <1>2, <3>2
  <2>2. state' = [state EXCEPT ![p] = "runnable"]
    BY <2>1, <1>14 DEF Ready
  <2>3. Ordered'
    <3>1. state[1] = "runnable" => state'[1] = "runnable"
      BY <2>2, <1>1, One DEF Inv, TypeOK
    <3>2. Task1 = Item("ready", 1, 0) => state'[1] = "runnable"
      BY <2>1, <2>2, <1>1, <1>4, One DEF Inv, TypeOK
    <3> QED  BY <1>1, <1>2, <1>4, <1>14, <3>1, <3>2, OrderedPops DEF Ready
  <2>4. Whole(p)
    <3>1. 1 \in 1..Len(agenda) /\ agenda[1] = Task1
      BY <1>1, <1>2 DEF Inv, TypeOK, Task1
    <3>2. ReadyOwed(1)
      BY <3>1, <1>1 DEF Ordered
    <3>3. \A item : ~Before(1, item)
      BY DEF Before
    <3> QED  BY <2>1, <3>1, <3>2, <3>3 DEF ReadyOwed, Whole
  <2>5. \A q \in Proc : state'[q] # "free" => Whole(q)'
    <3> SUFFICES ASSUME NEW q \in Proc, state'[q] # "free" PROVE Whole(q)'
      OBVIOUS
    <3>1. Whole(q)
      BY <2>2, <2>4, <1>1 DEF Progress, Inv, TypeOK
    <3> QED  BY <3>1, <1>1 DEF Grows, Whole
  <2>6. current = None
    BY <1>1, <1>2, <1>14, AtWork DEF Ready
  <2> QED  BY <2>3, <2>5, <2>6, <1>14, <1>2 DEF Progress, Ready
<1>15. CASE Run
  <2>1. state[Task1.pid] = "runnable"
    <3>1. 1 \in 1..Len(agenda) /\ agenda[1] = Task1
      BY <1>1, <1>2 DEF Inv, TypeOK, Task1
    <3>2. RunOwed(1)
      BY <3>1, <1>1 DEF Ordered
    <3>3. \A item : ~Before(1, item)
      BY DEF Before
    <3> QED  BY <3>1, <3>2, <3>3, <1>15 DEF RunOwed, Run
  <2>2. Ordered'
    <3>1. Task1.op = "run" /\ UNCHANGED state /\ Finished
      BY <1>15 DEF Run
    <3> QED  BY <1>1, <1>2, <1>4, <3>1, OrderedPops
  <2> QED  BY <1>1, <1>2, <1>15, <2>1, <2>2, One DEF Run, Progress, Grows, Whole
<1> QED  BY <1>7, <1>8, <1>9, <1>10, <1>11, <1>12, <1>13, <1>14, <1>15 DEF Kernel

LEMMA ProcessRuns ==
    ASSUME RunInv, Yield \/ Fault \/ PageAllocInvalid \/ Halt \/ \E va \in Va : PageAlloc(va)
    PROVE  Ordered' /\ Progress'
<1>1. /\ mode = "user" /\ agenda = <<>> /\ current \in Proc /\ state[current] = "runnable"
      /\ UNCHANGED memory /\ None \notin Proc
  BY One DEF Yield, Fault, PageAllocInvalid, Halt, PageAlloc, RunInv, Inv, Errand, TypeOK, Progress
<1>2. \A p \in Proc : Whole(p)' = Whole(p)
  BY <1>1 DEF memory, Whole, Rooted, LowMade, StackMade
<1>3. CASE agenda' = <<>>
  <2>1. Ordered'
    BY <1>3 DEF Ordered
  <2>2. CASE Yield
    BY <1>1, <1>2, <2>1, <2>2, Scheduled DEF Yield, RunInv, Progress, Runnable
  <2>3. CASE Fault
    <3>1. state' = [state EXCEPT ![current] = "broken"]
      BY <2>3 DEF Fault
    <3>2. \A p \in Proc : state'[p] # "free" => state[p] # "free"
      BY <3>1, <1>1 DEF RunInv, Inv, TypeOK
    <3>3. (UNCHANGED mode /\ current' \in Runnable \ {current}) \/ (mode' = "spinning" /\ UNCHANGED current)
      BY <2>3, <1>1, Scheduled DEF Fault, Runnable
    <3>4. \A p \in Runnable \ {current} : state'[p] = "runnable"
      BY <3>1 DEF Runnable, RunInv, Inv, TypeOK
    <3> QED  BY <1>1, <1>2, <2>1, <3>2, <3>3, <3>4 DEF RunInv, Progress
  <2>4. CASE PageAllocInvalid \/ Halt
    BY <1>1, <1>2, <2>1, <2>4 DEF PageAllocInvalid, Halt, RunInv, Progress
  <2>5. CASE \E va \in Va : PageAlloc(va)
    BY <1>3, <2>5 DEF PageAlloc
  <2> QED  BY <2>2, <2>3, <2>4, <2>5
<1>4. CASE \E va \in Va : PageAlloc(va)
  <2>1. PICK va \in Va : agenda' = <<Item("alloc", current, va)>>
    BY <1>4 DEF PageAlloc
  <2>2. /\ Len(agenda') = 1 /\ agenda'[1] = Item("alloc", current, va)
        /\ Item("alloc", current, va).op = "alloc" /\ \A p : Item("ready", p, 0).op = "ready"
    BY <2>1 DEF Item
  <2>3. Ordered'
    BY <2>2 DEF Ordered, ReadyOwed, RunOwed
  <2> QED  BY <1>1, <1>2, <1>4, <2>3 DEF PageAlloc, RunInv, Progress
<1> QED  BY <1>1, <1>3, <1>4 DEF Yield, Fault, PageAllocInvalid, Halt

THEOREM RunInvariance == Spec => []RunInv
<1>1. RunInv /\ Next => RunInv'
  BY KernelStep, ProcessStep, KernelRuns, ProcessRuns DEF Next, RunInv
<1>2. RunInv /\ UNCHANGED vars => RunInv'
  BY DEF RunInv, Inv, TypeOK, Jumped, InUse, KernelIsSpared, PagesHaveOneUse, Errand, InOrder, Ordered,
     ReadyOwed, RunOwed, Before, Progress, Whole, Rooted, LowMade, StackMade, vars, memory
<1> QED  BY RunInit, <1>1, <1>2, PTL DEF Spec

\* No process runs without its whole page table and its stack.
THEOREM Complete == Spec => []RunnerIsComplete
<1>1. RunInv => RunnerIsComplete
  BY One DEF RunInv, Inv, Errand, TypeOK, Progress, Whole, Rooted, LowMade, StackMade, RunnerIsComplete, Table
<1> QED  BY RunInvariance, <1>1, PTL

\* With whatever memory, sys_page_alloc never reaches the assertion in kfree:
\* the kernel stops, if at all, before the first process runs.
THEOREM NoPanic == Spec => []AllocNeverPanics
<1>1. RunInv => AllocNeverPanics
  BY DEF RunInv, Progress, AllocNeverPanics
<1> QED  BY RunInvariance, <1>1, PTL

=============================================================================
