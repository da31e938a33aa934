---------------------------- MODULE WeensyKernel ----------------------------
(***************************************************************************)
(* The WeensyOS kernel of the VM lab, labvm/kernel.cc and k-vmiter.cc:     *)
(* physical pages, page tables, the system calls and the scheduler.        *)
(*                                                                         *)
(* Pages and virtual pages are numbers.  A process's page table is the     *)
(* four pages a vmiter walks (root, pdp, pd, and one leaf table for each   *)
(* 2 MB of virtual memory, low and high) and the mapping of its user       *)
(* pages.  The kernel runs with interrupts off: agenda is what it still    *)
(* has to do before a process runs again; every item takes pages one by    *)
(* one, so that it may run out of memory half-way.                         *)
(***************************************************************************)
EXTENDS Integers, Sequences, FiniteSets

CONSTANTS
    NPages,                   \* MEMSIZE_PHYSICAL / PAGESIZE
    NProc,                    \* NPROC
    Starts,                   \* how many processes kernel() sets up: 1 with a command, or 4
    KernelStart, StackTop,    \* KERNEL_START_ADDR, KERNEL_STACK_TOP, in pages
    IOStart, IOEnd,           \* IOPHYSMEM, EXTPHYSMEM
    KernelEndByte,            \* the byte at _kernel_end, rounded up to pages
    UserPages,                \* virtual pages of a process: 1..UserPages
    HighStart,                \* the first one in the second leaf table
    Programs                  \* what programs may be loaded: the pages of each

ASSUME PagesAssumption ==
    /\ NPages \in Nat /\ KernelStart \in Nat /\ StackTop \in Nat
    /\ 0 < KernelStart /\ KernelStart < StackTop /\ StackTop < NPages
    /\ IOStart \in Nat /\ IOEnd \in Nat /\ KernelEndByte \in {0, 1}
ASSUME ProcessAssumption ==
    /\ NProc \in Nat /\ Starts \subseteq 1..(NProc - 1) /\ Starts # {}
ASSUME VirtualAssumption ==
    /\ UserPages \in Nat /\ 0 < UserPages /\ HighStart \in 1..UserPages
    /\ Programs \subseteq Seq(1..UserPages) /\ Programs # {}

None == -1
Page == 0..(NPages - 1)
Proc == 0..(NProc - 1)
Va == 1..UserPages
StackVa == UserPages

VARIABLES
    nextPage,     \* next_alloc_pa
    used,         \* pages whose refcount is not 0
    node,         \* node[p][n]: the page of p's page table at n
    mapping,      \* mapping[p][va]: the physical page of a user page
    state,        \* ptable[p].state
    current,
    agenda,       \* what the kernel has to do, first thing first
    held,         \* the page kalloc returned for the item at work
    mode,         \* who has the machine
    failed        \* processes whose last sys_page_alloc returned -1

memory == <<nextPage, used, node, mapping, held>>
vars == <<memory, state, current, agenda, mode, failed>>

Table == {"root", "pdp", "pd", "low", "high"}
Task == [op : {"setup", "root", "kernel", "ready", "run"}, pid : Proc, va : {0}]
        \cup [op : {"map", "alloc"}, pid : Proc, va : Va]

TypeOK ==
    /\ nextPage \in 0..NPages
    /\ used \subseteq Page
    /\ node \in [Proc -> [Table -> Page \cup {None}]]
    /\ mapping \in [Proc -> [Va -> Page \cup {None}]]
    /\ state \in [Proc -> {"free", "runnable", "broken"}]
    /\ current \in Proc \cup {None}
    /\ agenda \in Seq(Task)
    /\ held \in Page \cup {None}
    /\ mode \in {"kernel", "user", "spinning", "panicked", "halted"}
    /\ failed \subseteq Proc

-----------------------------------------------------------------------------
(* Physical memory *)

\* What the kernel's image and stack occupy.
KernelData == KernelStart..(StackTop - 1)

Reserved(pg) == pg = 0 \/ pg \in IOStart..(IOEnd - 1)

\* allocatable_physical_address.  It compares with the byte stored at
\* _kernel_end instead of its address.
Allocatable(pg) ==
    /\ ~Reserved(pg)
    /\ pg < KernelStart \/ pg >= KernelEndByte
    /\ pg # StackTop - 1

\* The pages kalloc's loop still looks at: it jumps from KERNEL_START_ADDR to
\* KERNEL_STACK_TOP.
Scanned == {pg \in nextPage..(NPages - 1) : nextPage <= KernelStart => pg \notin KernelData}

Candidates == {pg \in Scanned : Allocatable(pg) /\ pg \notin used}

OutOfMemory == Candidates = {}

\* Mutant: next_alloc_pa stays at the page that was found, whose refcount is
\* not set.
KallocForgets(pg) ==
    /\ pg \in Candidates /\ \A q \in Candidates : pg <= q
    /\ nextPage' = pg
    /\ UNCHANGED used

\* Mutant: next_alloc_pa does not jump over the kernel.
KallocNoJump(pg) ==
    LET free == {q \in nextPage..(NPages - 1) : Allocatable(q) /\ q \notin used}
    IN  /\ pg \in free /\ \A q \in free : pg <= q
        /\ nextPage' = pg + 1
        /\ used' = used \cup {pg}

\* kalloc returns the first of them.
Kalloc(pg) ==
    /\ pg \in Candidates /\ \A q \in Candidates : pg <= q
    /\ nextPage' = IF pg + 1 = KernelStart THEN StackTop ELSE pg + 1
    /\ used' = used \cup {pg}

-----------------------------------------------------------------------------
(* The kernel at work *)

Item(op, p, va) == [op |-> op, pid |-> p, va |-> va]

Loading(p, program) == [i \in 1..Len(program) |-> Item("map", p, program[i])]

\* Mutant: the stack is left to the first page fault.
SetupNoStack(p, program) ==
    <<Item("root", p, 0), Item("kernel", p, 0)>> \o Loading(p, program) \o <<Item("ready", p, 0)>>

\* process_setup: page table, kernel memory, segments, stack, runnable.
Setup(p, program) ==
    <<Item("root", p, 0), Item("kernel", p, 0)>> \o Loading(p, program)
    \o <<Item("map", p, StackVa), Item("ready", p, 0)>>

\* kernel(): n processes one after the other, then run(&ptable[1]).
Boot(n) == [p \in 1..n |-> Item("setup", p, 0)] \o <<Item("run", 1, 0)>>

Init ==
    /\ nextPage = 0 /\ used = {} /\ held = None
    /\ node = [p \in Proc |-> [n \in Table |-> None]]
    /\ mapping = [p \in Proc |-> [va \in Va |-> None]]
    /\ state = [p \in Proc |-> "free"]
    /\ current = None
    /\ \E n \in Starts : agenda = Boot(n)
    /\ mode = "kernel" /\ failed = {}

Task1 == Head(agenda)
Working(ops) == mode = "kernel" /\ agenda # <<>> /\ Task1.op \in ops
Finished == agenda' = Tail(agenda)

\* The tables between the root and a virtual page; kernel memory is low.
Path(va) == <<"pdp", "pd", IF va >= HighStart THEN "high" ELSE "low">>
Missing(p, va) == {i \in 1..3 : node[p][Path(va)[i]] = None}
Panics == mode' = "panicked" /\ UNCHANGED <<memory, state, current, agenda, failed>>

\* A process_setup begins, with some program.
SetUp ==
    /\ Working({"setup"})
    /\ \E program \in Programs : agenda' = Setup(Task1.pid, program) \o Tail(agenda)
    /\ UNCHANGED <<memory, state, current, mode, failed>>

NewRoot ==
    /\ Working({"root"})
    /\ \E pg \in Page : /\ Kalloc(pg)
                        /\ node' = [node EXCEPT ![Task1.pid]["root"] = pg]
    /\ Finished
    /\ UNCHANGED <<mapping, held, state, current, mode, failed>>

\* kalloc of the page to be mapped.
TakePage ==
    /\ Working({"map", "alloc"}) /\ held = None
    /\ \E pg \in Page : Kalloc(pg) /\ held' = pg
    /\ UNCHANGED <<node, mapping, state, current, agenda, mode, failed>>

\* sys_page_alloc returns -1.
AllocFails ==
    /\ Working({"alloc"}) /\ held = None /\ OutOfMemory
    /\ failed' = failed \cup {Task1.pid}
    /\ Finished /\ mode' = "user"
    /\ UNCHANGED <<memory, state, current>>

Mapping == Working({"kernel"}) \/ (Working({"map", "alloc"}) /\ held # None)

\* try_map adds the first table that is missing on the way down.
Extend ==
    /\ Mapping
    /\ \E i \in Missing(Task1.pid, Task1.va), pg \in Page :
          /\ \A j \in Missing(Task1.pid, Task1.va) : i <= j
          /\ Kalloc(pg)
          /\ node' = [node EXCEPT ![Task1.pid][Path(Task1.va)[i]] = pg]
    /\ UNCHANGED <<mapping, held, state, current, agenda, mode, failed>>

\* No page for a table: map() and process_setup assert, and syscall_page_alloc
\* calls kfree, which asserts.  No page for the root: memset faults on nullptr
\* and so does exception(), as there is no current process yet.
OutOfTables ==
    /\ \/ Mapping /\ Missing(Task1.pid, Task1.va) # {}
       \/ Working({"map"}) /\ held = None
       \/ Working({"root"})
    /\ OutOfMemory
    /\ Panics

\* The level-0 entry; a system call then returns 0.
Install ==
    /\ Working({"map", "alloc"}) /\ held # None /\ Missing(Task1.pid, Task1.va) = {}
    /\ mapping' = [mapping EXCEPT ![Task1.pid][Task1.va] = held]
    /\ held' = None
    /\ failed' = failed \ {Task1.pid}
    /\ Finished /\ mode' = IF Task1.op = "alloc" THEN "user" ELSE "kernel"
    /\ UNCHANGED <<nextPage, used, node, state, current>>

KernelMapped ==
    /\ Working({"kernel"}) /\ Missing(Task1.pid, Task1.va) = {}
    /\ Finished
    /\ UNCHANGED <<memory, state, current, mode, failed>>

Ready ==
    /\ Working({"ready"})
    /\ state' = [state EXCEPT ![Task1.pid] = "runnable"]
    /\ Finished
    /\ UNCHANGED <<memory, current, mode, failed>>

\* run: assert(p->state == P_RUNNABLE), then to user mode.
Run ==
    /\ Working({"run"})
    /\ current' = Task1.pid
    /\ mode' = IF state[Task1.pid] = "runnable" THEN "user" ELSE "panicked"
    /\ Finished
    /\ UNCHANGED <<memory, state, failed>>

-----------------------------------------------------------------------------
(* Processes *)

\* Mutant: the search begins with the current process.
TurnsFromSelf(p, runnable) == {d \in 0..NProc : (p + d) % NProc \in runnable}

\* The turns of schedule's loop at which it finds a runnable process.
Turns(p, runnable) == {d \in 1..NProc : (p + d) % NProc \in runnable}

\* schedule: run the next runnable process, or spin for ever, interrupts off.
Schedule(runnable) ==
    LET turns == Turns(current, runnable)
    IN  IF turns = {}
        THEN mode' = "spinning" /\ UNCHANGED current
        ELSE /\ \E d \in turns : (\A e \in turns : d <= e) /\ current' = (current + d) % NProc
             /\ UNCHANGED mode

Runnable == {p \in Proc : state[p] = "runnable"}

\* sys_yield, and the timer interrupt.
Yield ==
    /\ mode = "user"
    /\ Schedule(Runnable)
    /\ UNCHANGED <<memory, state, agenda, failed>>

\* A page fault of the process.
Fault ==
    /\ mode = "user"
    /\ state' = [state EXCEPT ![current] = "broken"]
    /\ Schedule(Runnable \ {current})
    /\ UNCHANGED <<memory, agenda, failed>>

\* sys_page_alloc of a page the process may have.
PageAlloc(va) ==
    /\ mode = "user"
    /\ mode' = "kernel"
    /\ agenda' = <<Item("alloc", current, va)>>
    /\ UNCHANGED <<memory, state, current, failed>>

\* ... of an address that is not aligned, or below or above the user's.
PageAllocInvalid ==
    /\ mode = "user"
    /\ failed' = failed \cup {current}
    /\ UNCHANGED <<memory, state, current, agenda, mode>>

\* sys_panic, and sys_fork and sys_exit, which are not implemented.
Halt ==
    /\ mode = "user" /\ mode' = "halted"
    /\ UNCHANGED <<memory, state, current, agenda, failed>>

Kernel ==
    \/ SetUp \/ NewRoot \/ TakePage \/ AllocFails \/ Extend \/ OutOfTables
    \/ Install \/ KernelMapped \/ Ready \/ Run

Next ==
    \/ Kernel
    \/ Yield \/ Fault \/ PageAllocInvalid \/ Halt
    \/ \E va \in Va : PageAlloc(va)

\* The kernel's code runs on, and the timer interrupts every process.
Fairness == WF_vars(Kernel) /\ SF_vars(Yield)

Spec == Init /\ [][Next]_vars /\ Fairness

-----------------------------------------------------------------------------
(* Properties *)

\* No physical page serves two purposes: page tables are out of every process's
\* reach, and no two user pages, of one process or two, share memory.
PagesHaveOneUse ==
    \A p, q \in Proc :
        /\ \A m, n \in Table : node[p][m] = node[q][n] => node[p][m] = None \/ <<p, m>> = <<q, n>>
        /\ \A v, w \in Va : mapping[p][v] = mapping[q][w] => mapping[p][v] = None \/ <<p, v>> = <<q, w>>
        /\ \A n \in Table, v \in Va : node[p][n] = mapping[q][v] => node[p][n] = None
        /\ held # None => /\ \A n \in Table : node[p][n] # held
                          /\ \A v \in Va : mapping[p][v] # held

\* kalloc never hands out the kernel's own memory, although
\* allocatable_physical_address would let it.
KernelIsSpared == used \cap KernelData = {} /\ \A pg \in used : ~Reserved(pg)

\* sys_page_alloc never reaches the assertion in kfree: when a process runs, all
\* tables that try_map could miss are there, since its stack is in the high one.
AllocNeverPanics == mode = "panicked" => current = None

\* A running process is runnable, and the whole of its page table exists.
RunnerIsComplete ==
    mode = "user" => /\ state[current] = "runnable"
                     /\ \A n \in Table : node[current][n] # None
                     /\ mapping[current][StackVa] # None

\* u-lib.hh:62: a call of sys_page_alloc that does not fail gives the process a
\* new page at the address, and no other process's memory changes with it.
AllocEffect ==
    \A p \in Proc, va \in Va :
        mapping'[p][va] # mapping[p][va]
        => /\ mapping'[p][va] \in used /\ mapping'[p][va] # None
           /\ current \in {p, None}
           /\ \A q \in Proc, w \in Va : <<q, w>> # <<p, va>> => mapping'[q][w] = mapping[q][w]
MappingsGrow == [][AllocEffect]_vars

\* Round robin: a runnable process runs again and again until it breaks, or the
\* machine stops.
NobodyStarves ==
    \A p \in Proc : state[p] = "runnable" ~> current = p \/ mode \in {"halted", "panicked"}

=============================================================================
