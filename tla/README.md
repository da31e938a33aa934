# Formal models of csc512-distributed-systems

The repository holds the labs of a course on distributed systems and operating
systems and the tools that run and grade them.  This directory keeps TLA+
models of the parts that have state and concurrency, TLC configurations that
check them on small instances, and proofs, checked by TLAPS, of the results
that matter most.  Every definition is translated from the source; the source
lines it stands for are in `PROJECT.json` under `map`.

## The system

| part | source | state it keeps | operations | how it meets the others | model |
|---|---|---|---|---|---|
| Raft election | `test_code/labs/labraft/raft/raft.go` | per server `currentTerm`, `votedFor`, `state`, `electionResetEvent`, `dead`; per round the closure's `votes` | `RequestVote`, `AppendEntries`, `startElection` and one goroutine per peer, `ticker`, `Kill`, `Make` (`Start`, `Snapshot`, `persist`, `readPersist` are empty) | calls peers through `labrpc.ClientEnd.Call`; is started and killed by the harness | `RaftElection`, `RaftRestart`, `RaftTimers` |
| simulated network | `test_code/labs/labraft/labrpc/labrpc.go` | `enabled`, `connections`, `servers`, `reliable`, `longDelays`, `longReordering`, `done` | `Call`, `processReq`, `MakeEnd`, `DeleteEnd`, `AddServer`, `DeleteServer`, `Connect`, `Enable`, `Cleanup` | one goroutine per request; the handler runs in a goroutine of its own | `LabRpc` |
| test harness | `labraft/raft/config.go`, `persister.go`, `test_test.go` | `rafts`, `saved`, `connected`, `endnames`, `logs` | `crash1`, `start1`, `connect`, `disconnect`, `checkOneLeader`, `one`, ... | crashes and restarts servers, plugs and unplugs them | its steps are in `RaftRestart` and `LabRpc` |
| WeensyOS kernel | `test_code/labs/labvm/kernel.cc`, `k-vmiter.*` | `pages`, `next_alloc_pa`, `ptable`, `current`, page tables | `kalloc`, `kfree`, `vmiter::try_map`, `process_setup`, `exception`, `syscall`, `syscall_page_alloc`, `schedule`, `run` | processes enter it by system calls and the timer | `WeensyKernel` |
| cdup's interpreter | `cdup/src/vm.py`, `kernel.py` | frames and slots, heap, address counters, owner map, trace, output, `unroll_capped` | `run`, `call_fn` and the walk under them: statements, loops, expressions, built-ins | runs parsed programs | `VMMemory`, `CloneVM` |
| cdup's graphs | `cdup/src/matrix.py`, `dag.py` | dependency matrix; nodes and edges | `build_matrix`, `build_dag` | made of the parsed program | `ProgramGraph` |
| cdup's detector | `cdup/src/detect.py`, `cli/cmds.py`, `cli/utils.py` | runs being followed, classes found by each type | `detect_clones`, `detect_type3`, `detect_type4`, filters, the `detect` command | merges the files of a directory, reports classes | `CloneScan`, `CloneDetect` |
| cdup's front end | `cdup/src/parse.py`, `java_*.py`, `expr.py`, `models.py`, `main.py` | none | C or Java text to segments, statements, expression trees | gives the other modules of cdup their input | - |
| chaos runner | `runtime_chaos/chaos_config.py`, `chaos_runner.py` | the container and its limits, collected stats, stop event | `run_in_container_with_chaos`, `_chaos_worker`, `poll_stats` | runner, chaos and sampling threads over one container | `ChaosProfiles`, `ChaosRunner` |
| submissions | `runtime_chaos/submission_runner/` | build results in the directory, build containers | `dirs.txt`, build system, language, compile, clean | a build before and a clean-up after every run | `Submission` |
| chaos session and report | `runtime_chaos/run_chaos.py`, `report_format.py`, `analyze.py` | results of the runs | the loop over the profiles, metrics, feedback, status, verdict, analysis | drives the two above | `ChaosReport`, `ChaosSession` |
| scan engine | `security_toolkit/src/cli.py`, `core/` | queue of scanners, findings, errors, status of each scanner | `scan`, `inspect`, `full`; profile, select, run, collect, merge, write | a pool of threads; results as they complete | `ScanTargets`, `ScanFindings`, `ScanEngine` |
| scanners | `security_toolkit/src/scanners/`, `core/sandbox.py` | a temporary file, containers, an isolated network | `can_handle`, `execute` with its `finally` blocks | run in the pool, call external tools and docker | `PluginRuns` |
| comment analyser | `comments/app` | none between requests | extract, score, ask a language model, report | one request at a time | - |
| encoder | `test_code/labs/labraft/labgob` | two flags | `Encode`, `Decode`, warnings | used by `labrpc` and the harness | - |
| CPU scheduling lab | `test_code/labs/labchat/main.cpp` | `fcfs_queue`, `rr_queue`, `all_processes_submitted`, clock, results, one mutex, one condition variable | `producer`, `producer_rr`, `firstComeFirstServed`, `roundRobin` | a producer and a scheduler per phase | - |
| other subjects | `test_code/failure_codes`, `labs/labgo`, `labdl`, `lab1` to `lab5`, `_code_examples`, `cdup/legacy` | a buffer pool, a vote table, lists, a log | one small program each | independent; run and compared by the tools | - |

Nothing else in the repository carries logic: recorded reports
(`runtime_chaos/chaos_reports`), pages (`docs`), samples the clone detector
reads (`cdup/C_test_code`, `cdup/J_test_code`), and shell scripts.

### What is hard in it

* **Raft election**: every reply is handled by a goroutine that captured the
  term of its round; replies come late and in any order; four places reset
  `votedFor`; nothing is persisted although the harness restarts servers.
* **Network**: a request reads the switchboard once and acts on it later; the
  handler, the 100 ms check for a dead server and the reply race; a reply may be
  dropped or delayed by seconds; every call must return all the same.
* **Harness**: crash, restart and reconnection between any two steps of a
  server.
* **Kernel**: page ownership across failing allocations half-way through
  `try_map`, an allocator that never takes pages back, round-robin fairness over
  blocked and broken processes.
* **Interpreter**: values that turn into addresses and back, a slot that moves when its
  declaration runs again, control flow by exceptions through three kinds of loops,
  one VM that keeps its memory from call to call.
* **Detector**: runs of equal statements followed at all distances in one pass; classes
  dropped because of other classes; four passes over one program, one of which
  leaves out what the others found; an order of files nobody chose.
* **Chaos runner**: a container that outlives its docker client, a thread that is joined
  for less time than it may take, lists that are deleted under a thread that appends
  to them, exceptions that end a thread with its results unread, four judgements of
  one run with thresholds of their own.
* **Security toolkit**: scanners that end in any order, two of which own containers
  and a network across docker calls that may be refused or cut off; two halves whose
  reports are merged; `finally` blocks of more than one step.

## The modules

| module | what it is | builds on |
|---|---|---|
| `LeaderElection` | what an election promises: a round has one winner and keeps it | |
| `RaftElection` | `raft.go` without time: every critical section of `rf.mu` | `LeaderElection` (refined) |
| `RaftRestart` | the same servers, killed and restarted by the harness | `RaftElection` (composed) |
| `RaftProofs` | theorems about both | `RaftRestart` |
| `RaftTimers` | the tickers of `raft.go` and the delays of the network, in units of 10 ms | |
| `RaftTimersProofs` | its theorems | `RaftTimers` |
| `AtMostOnceCall` | what `ClientEnd.Call` promises | |
| `LabRpc` | `labrpc.go` with the order in which the harness kills and replaces servers | `AtMostOnceCall` (refined) |
| `LabRpcProofs` | its theorems | `LabRpc` |
| `WeensyKernel` | the kernel of the VM lab | |
| `WeensyKernelProofs` | its theorems | `WeensyKernel` |
| `VMMemory` | the address space of cdup's interpreter, as operators and as a machine of its own | |
| `VMMemoryProofs` | its theorems | `VMMemory` |
| `CloneVM` | the interpreter: one VM that serves calls | `VMMemory` |
| `ProgramGraph` | matrix and data-flow graph of a program, as functions, with what they must satisfy | |
| `CloneScan` | the one-pass scan of `detect_clones`, statement by statement | |
| `CloneDetect` | the `detect` command with all four types | `CloneScan` (implemented), `ProgramGraph` |
| `CloneDetectProofs` | theorems about the three | `CloneDetect` |
| `ChaosProfiles` | the profiles and the docker commands that apply them | |
| `ChaosRunner` | one run under a profile: three threads and the docker daemon | `ChaosProfiles` |
| `Submission` | what a submission is taken for | |
| `ChaosReport` | what is said of the results | |
| `ChaosSession` | builds, runs, clean-ups and the report, in sequence | the three above |
| `ChaosSessionProofs` | theorems about a session and its runs | `ChaosSession` |
| `ScanFindings` | findings, their parsers, de-duplication, verdict, exit code | |
| `ScanTargets` | commands, profiles, who can handle what | |
| `PluginRuns` | what the scanners do while they run and what they leave outside | |
| `ScanEngine` | a command of the toolkit from arguments to exit code | the three before (`PluginRuns` composed) |
| `ScanEngineProofs` | theorems about `PluginRuns` and `ScanEngine` | `ScanEngine` |
| `MC...` | what the configurations need: symmetry, programs, files, sessions, commands | the module named |

An operator whose comment begins with "Mutant:" is a plausible mistake in the
definition that follows it.  It is not part of the model; it is there to show
that the property it belongs to would notice the mistake.

### RaftElection

State: `currentTerm`, `votedFor` and `state` are the fields of `Raft`.
`votes[i][t]` is the variable `votes` in the closure of `i`'s round `t`, kept as
the set of those who are counted in it.  `requests` and `replies` are the calls
under way.  A heartbeat is repeated every 50 ms, so one that was sent stays in
`heartbeats` and may arrive any number of times.

| action | code |
|---|---|
| `StartElection` | the ticker finds the timer expired: `startElection` up to the `go` statements |
| `RequestVote` | the handler, from the lock to the reply |
| `HandleVoteReply` = `StepDown`, `CountVote` or `DiscardReply` | the goroutine of one peer after its call returned true |
| `SendHeartbeats` | the leader's branch of the ticker |
| `AppendEntries` | the handler; a heartbeat of an older term changes nothing and is no action |

A call that is lost makes `ok` false, on which the goroutine does nothing: loss is
a message that is never delivered.  Order and delay are free.  The election
timer is free too (any server that is not the leader may start an election at any
time), so what is shown holds for every timing.

### RaftRestart

`Crash` is `crash1`: the object is killed, its network end is deleted and nobody hears the replies
to it, but its requests (`orphans`) still reach voters (`RequestVoteOfTheDead`).  `Restart` is
`start1` and `connect`: `Make` and a `readPersist` of what was saved, which is
nothing, as `persist` is empty and nobody calls it.  `restarted` remembers who was restarted, for the
properties and for the bound.

### RaftTimers

`age` is `time.Since(electionResetEvent)`, negative after `Make`, which sets the
event in the future.  Every unit of 10 ms each ticker polls once and draws a new
timeout.  The network delays a heartbeat by up to `MaxDelay` and loses at most
`MaxLosses` in a row.  The model ends with the first election; `RaftElection` says
what an election does.  `Elected` and `Made` are its two beginnings: a leader that
was just elected, and servers that were just made.  A leader is elected by a bare majority
(`raft.go:305`): its voters, `heard`, reset their timers when they voted, and the other followers' timers
are as anything before has left them.  `heard` grows with the heartbeats that arrive, and `reign` is how
long ago the election was.

### LabRpc

`pc[c]` follows one call through `ClientEnd.Call`, the network goroutine,
`processReq` and the timers; `handler[c]` is the goroutine that runs the method,
which goes on when `processReq` gives up on it.  What `processReq` reads once
(`readEndnameInfo`) is kept in `target`, `object`, `flaky` and `reorder`, so that
the switchboard may change between that read and the reply.  A server object is
the number of its incarnation.

The harness is part of the module, since the promise of `labrpc.go:266` is about
both: `DeleteServer`, then `SupersedePersister` (the copy that `crash1` makes), then
`AddServer`.  `persister[s]` is the object whose saves go to the state the next
object starts from; `kept` is the set of calls whose effect is in that state.
Delays have no length here: any number of steps may fall between two.

### WeensyKernel

The kernel runs with interrupts off.  `agenda` is what is left of the work of one
entry into it: `setup` and its parts `root`, `kernel`, `map` and `ready` at boot,
`alloc` in a system call, `run` at the end of the boot.  Every page is taken in a
step of its own (`NewRoot`, `TakePage`, `Extend`), so that memory may end before
any of them (`OutOfTables`, `AllocFails`); `held` is the page that
`syscall_page_alloc` or `process_setup` has in its hand while `try_map` looks for
tables.  A page table is its four kinds of page: root, pdp, pd, and one leaf table
for each 2 MB in use (low and high).  `Scanned` is the range `kalloc` looks through,
with the jump over the kernel, and `Allocatable` is
`allocatable_physical_address` as it is written.

Page contents, registers, devices and the memory viewer are left out.  The timer
interrupt and `sys_yield` do the same (`Yield`).  `sys_fork` and `sys_exit` end in
`panic`, as in the handout, and belong to `Halt`.

### VMMemory and CloneVM

`VMMemory` is the memory of `vm.py`: `stack` and `heap` are the two address
counters, `slots` the named slots of all frames with address and value, `owner`
the map from a stack address back to its slot, `cells` the heap.  A slot that is
declared again takes a new address and the old one still leads to it.  A value is an
integer, a list, a nested list, a string or nothing.  `RowsToHeap` moves a nested list to the heap the way
the code does, where the rows of all begin at the base of the outer list and are overwritten by
their own addresses; `Next` has it as `PromoteRows`, and `FlatNext` is `Next` without it.  The code's bases are 0x1000 and
0x8000_0000; here they are parameters, and the runs put them at 4096 and 8192.

`CloneVM` walks the parsed program as the code does: `Eval`, `ExecFrom`, `LoopFrom`,
`CallUser` and the built-in functions are recursive operators from one interpreter
state to the next.  Python's exceptions (`_Break`, `_Continue`, `_Return`, an error)
are the field `exc`; `Then` and `After` chain the steps of an evaluation and pass on what
was raised, as the code's unwinding does.  The actions are the public calls: `CallFn` is `call_fn`, which keeps memory, trace
and output of the calls before, and `Run` is `run`, which starts afresh.  A statement
keeps of its text only what the code's text tests look for (`form`).  `packaged` says how cdup is run, since
three handlers of writes through pointers import `expr` by its plain name (`vm.py:868`, 892, 913): as a script they find
it, as the package they raise, and the error is swallowed.

### ProgramGraph, CloneScan and CloneDetect

`ProgramGraph` makes rows of statements (`StmtToRow`), puts phi rows behind branches and
loops (`Walk`), adds entry nodes (`BuildNodes`) and follows the last write of each slot in one
pass (`BuildEdges`).  `GraphReadsLatest`, `GraphJoinsArms`, `GraphArmsComeFirst`, `GraphClosesLoops` and
`GraphHasSources` say, without the pass, which edges there must be.  The body of a loop (`LoopBody`) is
what is written in it: the nodes of its segments and the phis behind the ifs in them, which the code gives
no scope.

`CloneScan` is the loop of `detect_clones`: `pos` is its index, `active` its dictionary from
offset to length, `found` the pairs it has appended.  `ScanStatement` and `ScanSeparator` are the
two branches of its body and `EndScan` is what follows it; the next pass calls `Load`.

`CloneDetect` is the command: `ParseFiles` (any order of the files, any of them
unreadable), `StartScan`, `Scan`, `Classify` (types I and II), `DetectSemantic` (type IV), `DetectNear`
(type III, without the pairs of the others), `WriteReport`.  A statement is its
tokens; two normalisations, holes for child segments, groups of equal texts, the
maximal and the overlap filter are functions.  The similarity of type III counts
tokens in difflib's longest matching blocks, where the code counts characters.
`JoinOrder` and `Forest` are the union-find of type III, a pair at a time.

### ChaosProfiles, ChaosRunner, Submission, ChaosReport and ChaosSession

| threads and actions of `ChaosRunner` | code |
|---|---|
| runner: `StartRun`, `RunReturns`, `RunFails`, `RunTimesOut`, `KillReturns`, `KillHangs`, `JoinReturns`, `JoinTimesOut`, `ReadFigure` | `run_in_container_with_chaos`: `subprocess.run`, `docker kill` in its handler, the join of 6 s, the figures one by one |
| daemon: `ContainerStarts`, `ContainerExits` | the container is the daemon's; it may start after and outlive the client |
| chaos thread: `AwaitNet`, `AwaitStep`, `CheckStop`, `DockerCall`, `DockerHangs`, `TakeSum`, `Divide`, `DeleteSamples`, `Flush` | `_chaos_worker`, from the waits and the stop event to the figures it hands over |
| sampler: `Poll`, `PollFails`, `PollReturns`, `AddCpu`, `RaisePeak`, `AddMemory`, `AddPids` | `poll_stats`, one assignment to the shared dictionary at a time |

Time has no length, but the code's limits order it: a docker command of the chaos
thread ends or raises within 5 s and the join waits 6 s, so `JoinTimesOut` needs a
second command under way since the stop.

`Submission` reads `dirs.txt` as the code does (`Settings`: the output is taken out of the
lines wherever it stands, the arguments from their end), finds the build system, the
language of the build and the language of the image.  `ChaosReport` makes metrics of
output lines and feedback, status, verdict and the analysis's interpretation of
results.  Exit codes
are what a process can end with, 128 + n for one that signal n killed, and each profile has its own
set of them (`ExitCodes`).  Wall times are hundredths of a second, and a change against the baseline is
counted in tenths of a per cent, as the code rounds it.  `ChaosSession` puts them in sequence: `StartProfile` (with a build or none),
`RunInContainer` for each container of a build or clean-up, `BuildEnds`, the steps of `ChaosRunner`
(`Run`), `RunEnds`, `CleanEnds`, `SaveReport`; `StrayEnds` is a build container that goes on after its
client timed out.

### ScanFindings, ScanTargets, PluginRuns and ScanEngine

`ScanTargets` has the commands' arguments, the walk over a directory tree that
finds languages and infrastructure files, and `CanHandle` of each scanner.  `ScanFindings`
makes findings of the tools' outputs (`Those` keeps the elements of a list that are asked for) and has
`Deduplicate`, `SortBySeverity`, `Verdict` and `ExitCode`.

`PluginRuns` is one small machine per scanner, `at[p]` its place in `execute`: a tool call with a
temporary file for most, network, container, dump, stop and removal for
`memory-forensics`, start, port, health and measurement for `resource-monitor`.  A docker
call is answered with success, refused, or cut off with or without its
effect; `hindered` remembers who met the last two where it matters.

`ScanEngine` runs a command: `ParseArgs`, `ProfileStage`, `RunEngine` (selection), `TakeWork` (a worker
takes the scanner of the queue that was registered first), the scanner's own steps (`ScannerStep`), `Collect` (one pass of the
`as_completed` loop), `EngineEnds`, `MakeReport` (the merge of the halves), `WriteAndExit`.

## The checks

| run | instance | what it shows |
|---|---|---|
| `raft_safety` | 4 servers, terms to 2, 3 rounds | leaders elected in their own term's round agree (`FreshLeadersAgree`); a candidate's term is that of its latest round (`CampaignersOwnTheirTerm`); votes are final within a term; the rounds implement `LeaderElection` |
| `raft_stale` | 3 servers, 3 rounds | **violated:** one leader per term (`ElectionSafety`) |
| `raft_restart` | 3 servers, one of which is restarted, as often as it likes | a crash alone breaks no promise; two winners of a round share a voter that forgot |
| `raft_timers` | 2 followers, the code's times | whoever voted for a living leader or heard it starts no election, and nobody does once its first heartbeats have had their time; a dead leader is noticed in time; new servers wait; an election comes |
| `rpc_server` | 1 call, 1 end, a server replaced twice | what is acknowledged is kept; a call is at-most-once; a hung call ends with its server; a healthy call does not fail |
| `rpc_blocking` | 2 calls, 1 end, 1 object | a call returns although another hangs |
| `kernel_safety` | 22 pages, 2 or 3 processes | page ownership, the kernel's own memory, no panic in a system call, complete processes, round-robin fairness |
| `vm` | 9 programs, 2 calls on one VM, as a script and as the package | an address reads back its slot; the trace explains the values it shows; a call gives what C gives, on a fresh VM and a used one, for programs without an `else` and, in the package, without writes through pointers |
| `vm_else` | an if with its else | **violated:** one arm runs (`OneArmRuns`) |
| `clone` | 7 groups of files, all orders, any unreadable | the scan finds exactly the maximal runs (`ScanExact`); the graph's edges come from latest writes, in the arms of an if as well (`EdgesAreLatest`); all writes of an arm stand before its phi, a loop takes one write of its body, the last where a statement makes it, parameters and constants have a source (`GraphIsWhole`); classes repeat nothing and lose nothing but what lies in a repetition that the overlap filter drops (`ClassesAreComplete`), do not depend on the order (`OrderDoesNotMatter`) and those of type III are connected components (`NearComponents`) |
| `chaos` | 13 sessions, 452,550 states | stray containers, network rules, figures, report and build results are what they should be; every session ends |
| `scan` | 15 commands, 1 to 4 workers, 10,854 states | the report and the exit code tell the truth, the command is obeyed, no finding is lost, nothing stays behind; every command ends |

`CHECK_DEADLOCK FALSE` is set everywhere because each of these systems may stop:
the bounds on rounds, objects or calls are reached, the timers' model ends with the
election, a network may be cleaned up and all calls returned, the machine may halt,
and a command or a session is over when it has written its report.

### Bounds

* `MaxTerm`, `MaxRounds`.  A stale vote needs three rounds (one candidate's old
  round, its new one, and the rival's), so three are explored.  With three servers one
  counted reply is a majority; with the four of `raft_safety` a leader needs two, so
  late and split votes are seen.  No term or round beyond is different: a handler
  compares terms only by order.
* `MaxRestarted` = 1: one forgetful voter is enough for a second winner, any server may be the one,
  and it may forget again and again.
* `RaftTimers`: `HeartbeatEvery` = 5, `MinTimeout` = 15, `MaxTimeout` = 30 are the code's
  50, 150 and 300 ms.  `MaxDelay` = 3 covers the 26 ms of an unreliable `labrpc`.
  `MaxLosses` = 1 is an assumption about the network, as is every such bound: with two
  heartbeats lost in a row 15 + 3 units pass, more than the shortest timeout, and
  an election while the leader lives is legitimate.
* `LabRpc`: calls interact only through the network goroutine, the switchboard and
  the saved state.  Two calls and one end are the least at which one call can wait
  for another, two objects of one server the least at which a name can be reused;
  `rpc_server` has three.
* `WeensyKernel`: 22 pages, of which page 0, the kernel's three and a device page are
  out of reach, leave 17.  Two short programs take 14 and leave three to allocate; two
  long ones, or three processes, run out during the boot, at a root, a table or a
  page.  `NPROC` is 4 here and 16 in the code; with process 0 never used, two or
  three of three slots are taken, so free slots are skipped and the number wraps.
* `CloneVM`: the programs of `MCCloneVM` have loops of all three kinds with `break` and `continue`, both of them taken,
  pointers into loops' slots, arrays, strings, structs and calls, with arguments -1 to 2.
  `MaxUnroll` = 3 is passed by some arguments and not by others; `MaxCalls` = 2 is the least at which
  one call follows another.  A longer address space changes nothing: no program takes
  4096 addresses.
* `CloneDetect`: `MinLength` = 2 and `MinNear` = 3 let clones overlap, touch and embed one another in files of a
  dozen statements; `MaxFreq` = 7 is exceeded by one file and not by the rest; both filters are on in
  some cases and off in others; `Threshold` = 70 is
  the code's.
* `ChaosSession`: the sessions are one file, a Makefile, a script, a plain directory and
  mistaken submissions, under profiles with and without steps and network rules, with and
  without a baseline.  `MaxSamples` bounds the samples of a run: two are the least at
  which an average differs from a peak; where the network's commands are many it is 0
  or 1.  Exit codes are 0, 1, 137 and, in some profiles, the others the report knows: 124, 134, 136 and
  139.  Wall times stand on both sides of the thresholds of 30 per cent and of three times.
* `ScanEngine`: every scanner is selected by some command and left out by another, alone and
  among several; workers are 0, 1, fewer than the scanners, and enough.  Hits of the noisy
  rule stand on both sides of `ConsolidationThreshold`, growth on both sides of 50 per cent.

### Fairness

`RaftElection`, `RaftRestart`, `CloneVM` and `CloneDetect` state safety only and assume none.

* `LabRpc`: weak fairness of each call's own steps and of the network goroutine's exit:
  Go runs a goroutine that can run and fires its timers.  **No** fairness of `Execute`
  (a method may hang), nor of the harness.  `CallsReturn` has the return of the call's
  own method as a hypothesis; `HungCallsReturn` has none.
* `RaftTimers`: weak fairness of each follower's poll (its goroutine sleeps 10 ms and
  runs), of the arrival of heartbeats (they arrive or are lost within the delay), and
  of the tick.  None of `SendHeartbeats` or `LoseLeader`.
* `WeensyKernel`: weak fairness of the kernel's steps, as interrupts are off, and strong
  fairness of `Yield`: the timer interrupts every process, but a system call
  disables `Yield` while it lasts, so weak fairness would not say so.
* `ChaosSession`: weak fairness of `Progress`, the steps of the session, the runner and the
  chaos thread: each docker client they wait for has a timeout.  **None** of the container
  (the program may never end), of a stray one, or of the sampler, which may poll as
  often as it likes.
* `ScanEngine`: weak fairness of `EngineNext`: every tool and docker call has a timeout, and the
  pool runs what it was given.

### What the violated properties mean

* **Stale votes** (`raft.go:303`).  The goroutine compares `reply.Term` with the term
  captured at the start of its round.  A granted reply of an earlier round counts
  whenever the server is a candidate again, in that earlier round's `votes`; it then
  becomes leader of its *present* term, beside the leader that term's voters elected.
  `config.go:446` calls this a fatal error.  `FreshLeadersAgree` and the theorem `OneWinner`
  are what is left: within one round all is well.
* **Both arms** (`vm.py:961`).  An `else` has no condition and counts as true, and nothing
  remembers whether its `if` was taken: both run.  `vm.py:945` says it executes
  "the taken branch".

Other places where the code differs from what is said of it, read while modelling and
followed by the models as the code has them:

* `raft.go:84`: `persist` is empty and never called, so a restarted server may vote
  twice in a term; `DoubleWinnersShareAForgetter` says that nothing else may go wrong.
* `kernel.cc:400`: a second `sys_page_alloc` for an address loses the page mapped there, which
  `u-lib.hh:63` says is freed.
* `k-hardware.cc:317`: the byte stored at `_kernel_end` is taken for its address, so the image counts
  as allocatable; `KernelIsSpared` holds only because `kalloc` jumps over the kernel.
* `vm.py:868`, 892, 913: `*p = e`, `**p = e` and `a[i] = e` import `expr` by its plain name inside a `try` whose `except`
  passes.  As `python -m cdup` that import fails, so `swap(&x, &y)` changes nothing and leaves no event, though
  `vm.py:40` promises the addresses written through `*p`.
* `vm.py:531`: the heap's counter moves only after the rows of a 2D array were copied, so the first row goes to the cells that
  the rows' addresses then take, and `*(*(u + 0) + 0)` is an address; `vm.py:519` says sub-lists are stored.
* `dag.py:205`: the phi behind an `if` has no scope and cannot be the origin of a back edge, though `dag.py:193` wants the
  last write in the loop body.  In `while (..) { if (..) s = s + i; else s = 7; i = i + 1; }` the edge comes from the
  else arm alone, and what the other arm wrote does not reach the next iteration.
* `dag.py:207`: whether a node is in a loop is asked of the text of its scope, and `loop_10` starts with `loop_1`: with
  ten loops in a function the first one's back edge comes out of the tenth.  `GraphIsWhole` leaves such a loop
  out (`OwnText`); the case `loops` of the run has one.
* `detect.py:362`: the overlap filter drops classes for which the maximal filter had dropped others.  Of
  `t;a;b;t;a;b;t` in one function and `u;a;b;u;a;b;u` in another the class of `a;b` goes as covered, then the two
  that cover it go as overlapping themselves: the default command reports no clone, where `README.md:251` of cdup has the
  groups preserved.  `ClassesAreComplete` says that nothing else is lost this way.
* `runtime_chaos/README.md:140` says that the profile `none` always runs first; with `--profile` (`run_chaos.py:428`) the
  profile named runs alone, and nothing is compared.
* `detect.py:55` says the words of both languages are kept by type II; only C's are.
* `profiler.py:17` speaks of the top two directory levels; the walks go down four.

## Hazards no property covers

`PROJECT.json` lists the hazards the properties are about.  These are left, each for the reason
given:

* *Network.*  `labrpc.go:297`: `longDelays` is read without the lock, which only selects the length of
  a delay, and delays have none here.  `labrpc.go:383`: `GetCount` of a deleted server dereferences
  nil; statistics are not modelled.
* *Kernel.*  `kernel.cc:399`: repeated allocations for one address exhaust the machine (see above).
* *Interpreter.*  Rows of a 2D array and writes through pointers in the package are as told above.  Integers from 4096 on are taken for addresses (`vm.py:1224`); operands of `+`
  and `-` are evaluated twice (1215); `malloc` divides by the size of an int for every type (458).
  `PointerArith`, `EvalAddSub` and `CellsFor` have them as they are, and no program of the run depends on them.
* *Graphs.*  The linear pass gives an else arm the writes of its if (`dag.py:187`).  `BuildEdges` has it;
  the properties speak of the pass's own order.
* *Detector.*  difflib's similarity is not symmetric (`detect.py:465`), so `OrderDoesNotMatter` leaves type III out.
* *Toolkit.*  A tool that fails, hangs or prints no JSON looks like a success without findings
  (`engine.py:123`); `latest/` fits the pattern of test directories (`semgrep.py:36`); two secrets of one rule
  in one image share a fingerprint (`models.py:83`).  No text of the repository says what is meant.
* *Subjects.*  `labchat/main.cpp`: the first producer fills the second phase's queue (301), a quantum of 0
  makes no progress (193), the clock and results are reset between phases (320), schedulers wait on one
  condition variable (137), idle time makes times negative (159).  `buffer_pool.cpp:127`: eviction at capacity.
  These programs are what the tools are run on; they are not modelled.

## The proofs

All theorems are proved for every value of the constants that satisfies the
assumptions of the module, and TLC evaluates these assumptions in every run:

* any finite set of servers and any bounds (`ServerAssumption`, `BoundAssumption`, `MaxRestartedAssumption`);
* any calls, ends, servers and number of objects;
* any timing that satisfies `UnitsAssumption`, `FirstBeatAssumption` and `TimeoutAssumption`;
* any memory map, number of processes and set of programs;
* any slot names and address bases that satisfy `AddressesAssumption`; any statements and limits
  that satisfy `ScanAssumption` and `NearAssumption`;
* any groups of parsed files (`CasesAssumption`): lists of segments in which a parent does not come after its child;
* any sessions that ask for profiles without repeating one (`SessionsAssumption`), of submissions
  that are finite directories (`SubmissionsAssumption`), with any loads and wall times that are numbers
  (`LoadsAssumption`, `WallsAssumption`) and any exit codes a process can have (`ExitCodesAssumption`);
* any commands that the argument parser lets through and any outputs of tools that are lists where lists are
  read (`CommandsAreParsed`, `ResultsAreListed`), for the scanners the registry has (`PluginsAreRegistered`).

**RaftElection.**  `TypeCorrect` is inductive alone.  `VoteInv` = `TypeOK`,
`PledgeRemembered` and `VoteOnce`: neither of the last two is inductive without the
other, since a new vote repeats no old one only because the voter remembers.  They are
the promises of every voter (`KeepsPromises`), and a voter keeps them as long as its own steps are
honest (`VotesHonestly`: no term goes back, no vote changes in a term, one new pledge at the
right moment); `NextIsHonest` and `PromisesKept` cover all actions.  `OneWinner`
follows with `MajoritiesMeet`.  `CampaignInv` adds where terms come from and gives
`FreshLeaders`, and with them `OwnTerms`: a step that raises a candidate's term also ends its campaign.  `LeadersAreElected` is inductive with the types: a majority
stays one (`MajorityGrows`).  `FinalVotes` is the action property.  `Refinement` maps a step to a step
of `LeaderElection` when a round gets its majority and to a stutter otherwise; it
needs `OneWinner` to know that the winner does not change.

**RaftRestart.**  A voter's promises do not depend on the others', so the same lemma serves here:
`SteadyInv` says that a server that was never restarted keeps its own, whatever is
crashed around it (`SteadyMemory`).  `DoubleWinners` is the sharpest thing that is left of
election safety: if two servers won one round, *every* voter they share was restarted since,
for one steady common voter would have pledged twice.

**LabRpc.**  `Inv` = `TypeOK`, `OneWriter` and, for each call: its method has run once or
never and returns before a reply is taken; what `processReq` read is a server and an
object that was made; and the effect of a method that returned before the object was
superseded is in the saved state.  The last is what `IsServerDead` after the handler's
return buys: a reply passes only if the object is still installed, and
by `OneWriter` what it saved is kept.  `AtMostOnce` shows the refinement, action by action.

**RaftTimers.**  For a living leader the invariant bounds the age of the timer of a follower
that voted or heard by the heartbeats it can still hope for: `lost` periods, the
leader's sleep and the delay, with `TimeoutAssumption` closing the sum below the
shortest timeout.  Of a follower that did neither nothing is known but that the first heartbeats are
still on their way: the same sum bounds the leader's `reign` (`Settling`), and when it is over everyone has heard.  For a dead leader it bounds `silence` by the ages of the timers and
of the last heartbeats on the way.  `Stability` and `Noticing` are its
consequences.

**WeensyKernel.**  `Inv` = types, `Jumped` (`next_alloc_pa` is never inside the kernel's
image), `InUse` (whatever is in a table, in a mapping or in hand is marked), the two page
properties and the shape of the agenda.  A new page is new because it was not marked, so
it is in no table: `OneUse`.  `NoPanic` needs a second invariant, `RunInv`, on the order of
the agenda: *what makes a process runnable stands behind everything that process still
lacks*.  Each process that runs has had its kernel memory mapped (low leaf table) and a stack
page in the last virtual page (high leaf table), so no table can be missing in a later
`sys_page_alloc`, and the `kfree` that follows a failing `try_map`, an
`assert(false)` in the handout, is out of reach however little memory is left.  Had
`process_setup` left the stack to the first fault, it would not be (`SetupNoStack`).

**VMMemory.**  `Inv` = the shape of the state, heap cells above the stack, stack addresses
below the stack's and above its base, and *every slot is owned by the address given to it last*.
The last says nothing about older addresses, which may still lead to the slot: that is why
`AllocSlot` keeps it.  One lemma per operation gives `MemoryHolds`; `AddressesHold` is `ReadBack`, for which the ranges of
heap and stack must be disjoint, as `ReadAt` looks at the heap first.  Both are about all operations, rows of a nested list
included, which is why the invariant leaves out that heap cells lie *below* the heap's counter: `RowsToHeap` breaks it.
`ObjectsHold`, a new object takes no cell in use, needs it, and so is about `FlatSpec`, the programs
that move no nested list to the heap; the others lose rows, as told above.  The steps of
`VMMemory` are single operations; an action of `CloneVM` is a whole call, made of them.

**CloneScan.**  `ScanIsExact`: when a statement has been read, the pairs found are exactly the maximal
runs that have ended, long enough and free of frequent statements.  That is not inductive; `ScanInv`
adds `ActiveExact`: the offsets followed are those at which the last statement has a match, each with the length
of the run that ends there, maximal to the left.  Soundness of a run that ends follows from
`ActiveExact` at the moment the offset is missing; completeness because a run that ends now was
followed one step before.

**CloneDetect.**  `CmdInv` is the invariant of the command.  `Layout` says how the sequence of statements is laid out
(segments in their order, a separator between two), which every `FlatOf` of every program has;
`PassesInOrder` that type II never comes before type I, `LastScanCounts` that the results of the last scan are
the classes of the runs still in `found`.

* `CommandScansExactly` and `CommandScansOnly`: every pass is a scan of `CloneScan` from a fresh
  start, so `ScanIsExact` carries over; the second is the refinement.
* `NoCloneIsLost`: a run is in the group of its text, and the maximal filter drops a class only for one already kept that covers it.
  By induction on the length every occurrence stays covered, since the maximal filter never drops what covers it.  The
  overlap filter may: then what covers it is a class that overlaps itself, one of `Repetitions`.  So with either filter
  on or off a run is shown or lies in a repetition; the case `repeats` of the run is one where it is not shown.
* `NoClassIsRepeated`: two classes with the same occurrences have the same length, so the filter
  keeps one of them (`ClassesTakeOneType`); what type II repeats of type I is not reported.
* `ReportIsComplete` puts the last two together.
* `EdgesAreTrue` rests on `EveryReadHasItsWrite` and `EveryArmIsJoined`: after each node of the pass the two tables have
  the latest writer of every slot, and of every slot in every scope, and the edges so far are those of the nodes so far, which
  holds for any list of nodes.  What is left is that the nodes of a program are a list whose phis join one slot each
  (`RowsJoinOneSlot`), a slot that every arm they read has written before them (`AllSourced`): from the last segment to
  the first, since a child comes after its parent, the rows of `Walk` are typed (`WalkIsTyped`) and sourced (`WalkIsSourced`,
  by `Growing` along the statements of a segment), and the entry nodes between them change neither (`NodesAreSourced`).
* `NearMissesAreJoined`: `ClassesAreComponents` is about the union-find alone and any list of pairs.  A forest is `Rooted` when
  a root and a number that falls on the way to it can be given for each element; `Union` keeps that and joins two
  parts (`UnionJoins`).  A set of segments that no pair leaves is a union of parts at every moment (`Together`), which is why no
  part of a class can stand alone.  Around it: the best pair of two segments is one (`BestPairsAreFew`), ranks put the pairs in
  a list that has them all (`RanksListThem`), and type III comes last (`NearComesLast`).

**ChaosSession: the runs.**  A session does to a run only what `RunMove` says: start it, take a step of one of
its threads, or leave it alone.  Every invariant of the run is shown once for `RunMove` and so
holds in every session.

* `RunTypes`, with `Ready` (what a thread relies on at its place), needs the shape of every profile in `PROFILES` and of the
  docker commands made of it.
* `NobodyStrays`: `Attended` says that only a runner that waits for its client has one; a container
  that outlives it is seen by `docker kill`, or `docker kill` failed.
* `OneSnapshotAtATime`: `Applying` looks at the commands that are still to be issued.  They change the
  network to *one* snapshot, and either the rules that are in force belong to it or a command that clears
  them comes first (`Heads`); a profile's own budget bounds their number.
* `ResultsAreCounted` (`Counted`): figures arrive if nothing was slow enough to make the join
  time out (`Arrived`); a peak is a sample, wherever it is on its way to the result (`Peaks`); the
  largest sample bounds sum and average (`Averaged`); the peak bounds the sum but for one
  sample whose peak is still to come (`Weighed`), so the average of a result that was not cut short is at most its
  peak (`Fair`).  The last two are needed together since the sampler adds to the sum *before* it raises the peak.

**ChaosSession: the report and the submission.**

* `ReportsAreHonest`: for all exit codes.  `Judged` lists the ways a run ends, `Logged` says that the results are those of a prefix
  of the profiles asked for, in their order, and `Reported` ties the report to the results it was made
  of.  The rest is about the four judgements of one result: `StatusesAgree` (status and verdict),
  `AnalysesAgree` (report and analysis), `FeedbackTells` (feedback and exit code), and `EarnsItsSuccess`, which does the arithmetic of
  the rounded change.
* `SubmissionsAreRun`: `Cleaned` says which container a clean-up has and what it has done.  The
  settings need facts about sequences: a line that is moved is a line that is taken out (`MovedIsRemoved`), so the
  OUTPUT line may stand anywhere (`OutputMayMove`); image and build speak of the same language when the
  files have one (`DominantLanguage`, `FirstKnown`, `BuiltAndRunAlike`).

**PluginRuns and ScanEngine.**

* `ScannersLeaveNothing`: a scanner that was not hindered and has ended holds nothing.  `RunInv` tells
  by the place of a scanner in `execute` what it may hold; only memory forensics is in the sandbox.
* `CommandsLeaveNothing` says so of every command, for every number of workers and every order.  The steps of
  the scanners in a command are those of `PluginRuns` by definition, so what that module shows of them carries
  over (`EngineRunsScanners`, a lemma).
* `CommandsAreObeyed`: `Imaged` (only a profile of an image leads to docker), the number of
  busy workers, and `BothAreWritten`.
* `FindingsAreKept`: `Gathered` and `Phased` say, for each phase of a command, where what a scanner told is now: in
  the findings gathered, in those of a half that ended, or in the report, under its fingerprint and as
  bad or worse.  De-duplication keeps the first of the worst (`FirstWorstIs`, `Deduplicated`), the merge sorts stably
  (`SortedFalls`), and only advice is consolidated (`OnlyAdviceIsLost`).
* `ReportsAreTrue`: `Ordered` (no scanner belongs to two halves), `Executed` (what was collected is told in one) and `Closed` (verdict and
  exit code).  Counts are compared as sizes of sets: `Tickets` makes a set of pairs of a function of
  counts, and the sum of two halves is the size of a disjoint union.

Induction over numbers, where a proof needs it, goes by the least counterexample (`LeastNumber`):
the induction theorems of the library take an operator as a parameter, which the provers
cannot instantiate.

Not proved, only model-checked:

* all liveness (`CallsReturn`, `HungCallsReturn`, `ElectionStarts`, `NobodyStarves`, `SessionEnds`,
  `CommandEnds`) and `HealthyCallsSucceed`, which nests temporal operators: the prover does not reason
  about fairness and `ENABLED`;
* `TraceIsTrue` and `CallsReturnAsInC` of `CloneVM`, whose interpreter is made of mutually recursive operators, which
  are out of the provers' reach.  The value of a call is compared with C's on bounded inputs;
* `GraphIsWhole` of `CloneDetect`: what it says of loops is true of parsed programs only, whose rows,
  kinds and scopes fit together in ways `IsProgram` does not spell out, and it compares the pass with
  definitions over whole subtrees.  `OrderDoesNotMatter` compares two runs of the filters on renumbered segments.  Both are compared
  with a reference on bounded inputs: the edges with the definition of a last write, the classes with
  those of the sorted files.

## Not modelled

* cdup's front end (`parse.py`, `java_parse.py`, `java_preprocess.py`, `expr.py`, `models.py`, `main.py`):
  tree-sitter queries and regular expressions over source text.  To model them is to model the
  grammars of C and Java.  The commands of `cli/cmds.py` other than `detect` print what the modelled parts return.
* cdup's interpreter: floating point, character constants, bitwise operators, the text of `printf`.
  Its graphs: expression trees, texts of rows, drawing.  Its detector: metadata and exports.
* `labgob`: a wrapper with two flags for warnings.
* The log, `Start`, `Snapshot` and the persistent state of Raft are empty in this
  repository; the log checks of `config.go` (`one`, `nCommitted`) have nothing to check.
* Statistics of `labrpc`; registers, devices, the console and the memory viewer of the kernel.
* The texts of docker commands, the layout of reports, the CSV export, averages that are only printed.
* The external tools, the search patterns for secrets and the resource limits of subprocesses.
* `comments/app`: a chain of functions around the answers of a language model, without a state
  that outlives a request.
* Subjects and samples: `labchat`, `failure_codes`, `labgo`, the C labs, `lab1` to `lab3`, `_code_examples`; and
  `cdup/legacy`, which `cdup/src` replaced.

## Plan

1. **More proofs**: of the invariants that are left, `GraphIsWhole` needs what the parser
   promises of scopes, and `OrderDoesNotMatter` a renumbering of segments under which every filter is invariant.
2. **`SchedulingLab`** (`labchat/main.cpp`): a producer and a scheduler per phase on one mutex and one condition
   variable.  Abstract specification: each submitted process completes once per phase.
3. **`BufferPool`** (`failure_codes/buffer_pool.cpp`): list and table agree, eviction at capacity.
4. **Voting lab** (`labgo`) and **comment analyser** (`comments/app`), as far as they keep state.
