---------------------------- MODULE ChaosRunner ----------------------------
(***************************************************************************)
(* One run of a program under a chaos profile                              *)
(* (runtime_chaos/chaos_runner.py).  Three threads work on it: the runner  *)
(* starts the container and waits for it, the chaos thread changes its     *)
(* limits, the sampler polls docker stats.  They share the stop event, the *)
(* stats of the chaos thread and the dictionary the runner reads in the    *)
(* end.  The container is the daemon's: it does not end with the docker    *)
(* client that started it.                                                 *)
(*                                                                         *)
(* Time is abstract.  Every docker command of the chaos thread ends or     *)
(* raises within 5 s, and the runner joins that thread for 6 s: the join   *)
(* can only run out while a second command is under way since the stop.    *)
(***************************************************************************)
EXTENDS ChaosProfiles, FiniteSetsExt

CONSTANTS Loads,       \* what docker stats may say, by profile: [cpu, mem, pids]; mem 0 for none
          ExitCodes,   \* exit codes of the program, by profile
          MaxSamples   \* bound: samples of a run, by profile

\* Figures are rounded; docker stats prints none below zero.
ASSUME LoadsAssumption == \A p \in DOMAIN Profiles : Loads[p] \subseteq [cpu : Nat, mem : Nat, pids : Nat]

\* A program killed by signal n has the exit code 128 + n.
ASSUME ExitCodesAssumption == \A p \in DOMAIN Profiles : ExitCodes[p] \subseteq 0 .. 255

VARIABLES
    profile,     \* name of the profile
    runner,      \* "idle", "running", "killing", "joining", "reading", "ended", "raised"
    client,      \* the docker run client: "none", "alive", "dead"
    container,   \* "absent", "created", "running", "gone"
    limits,      \* the container's limits
    outcome,     \* [rc, timed]: the run's, as far as it is known
    kill,        \* what became of docker kill: "none", "done", "failed", "hung"
    stop,        \* the event
    chaos,       \* "off", "await_net", "await_step", "check", "call", "await_stop",
                 \* "divide", "delete", "flush", "done", "dead"
    step,        \* number of the next step
    cmds,        \* docker commands left of the snapshot being applied
    calls,       \* commands that ended after the stop
    sampler,     \* "off", "idle", "polling", "cpu", "peak", "mem", "pids", "done"
    sample,      \* what docker stats said last
    samples,     \* the samples so far
    stats,       \* [sum, len, peak, rss, pids, avg, deleted]
    dockerStats, \* the dictionary the runner reads: what was flushed, or Empty
    result,      \* what the runner has read
    joined,      \* TRUE unless the join ran out
    cut,         \* history: the average was taken within a recording
    refused      \* history: clearing the rules was refused

runVars == <<profile, runner, client, container, limits, outcome, kill, stop, chaos, step, cmds, calls,
             sampler, sample, samples, stats, dockerStats, result, joined, cut, refused>>

runnerVars  == <<profile, runner, client, outcome, kill, stop, result, joined>>
dockerVars  == <<container, limits, refused>>
chaosVars   == <<chaos, step, cmds, calls, dockerStats, cut>>
samplerVars == <<sampler, sample, samples>>

P == Profiles[profile]

NoStats == [sum |-> 0, len |-> 0, peak |-> 0, rss |-> 0, pids |-> 0, avg |-> 0, deleted |-> FALSE]
Empty   == [peak |-> 0, rss |-> 0, pids |-> 0, avg |-> 0]
NoSample == [cpu |-> 0, mem |-> 0, pids |-> 0]

Pending == [rc |-> 0, timed |-> FALSE]

\* What the variables are once the run has returned: they were its own.
Returned ==
    /\ profile' = "none" /\ runner' = "idle" /\ client' = "none" /\ container' = "absent"
    /\ limits' = RunLimits(Unchanged) /\ outcome' = Pending /\ kill' = "none" /\ stop' = FALSE
    /\ chaos' = "off" /\ step' = 1 /\ cmds' = <<>> /\ calls' = 0
    /\ sampler' = "off" /\ sample' = NoSample /\ samples' = <<>>
    /\ stats' = NoStats /\ dockerStats' = Empty /\ result' = <<>>
    /\ joined' = TRUE /\ cut' = FALSE /\ refused' = FALSE

RunInit ==
    /\ profile = "none" /\ runner = "idle" /\ client = "none" /\ container = "absent"
    /\ limits = RunLimits(Unchanged) /\ outcome = Pending /\ kill = "none" /\ stop = FALSE
    /\ chaos = "off" /\ step = 1 /\ cmds = <<>> /\ calls = 0
    /\ sampler = "off" /\ sample = NoSample /\ samples = <<>>
    /\ stats = NoStats /\ dockerStats = Empty /\ result = <<>>
    /\ joined = TRUE /\ cut = FALSE /\ refused = FALSE

(***************************************************************************)
(* The runner.  A run has a container, a stop event and dictionaries of    *)
(* its own: what a thread does that outlives the run changes nothing that  *)
(* anyone still reads.                                                     *)
(***************************************************************************)
StartRun(p) ==
    /\ profile' = p /\ runner' = "running" /\ client' = "alive" /\ container' = "absent"
    /\ limits' = RunLimits(Profiles[p].initial) /\ outcome' = Pending /\ kill' = "none" /\ stop' = FALSE
    /\ chaos' = IF HasNetChaos(Profiles[p].initial) THEN "await_net" ELSE "await_step"
    /\ step' = 1 /\ cmds' = <<>> /\ calls' = 0
    /\ sampler' = "idle" /\ sample' = NoSample /\ samples' = <<>>
    /\ stats' = NoStats /\ dockerStats' = Empty /\ result' = <<>>
    /\ joined' = TRUE /\ cut' = FALSE /\ refused' = FALSE

\* Every way out of the try sets the stop event and joins the chaos thread.
Finish(rc, timed, how) ==
    /\ outcome' = [rc |-> rc, timed |-> timed]
    /\ kill' = how
    /\ stop' = TRUE
    /\ runner' = "joining"
    /\ UNCHANGED <<profile, result, joined, stats, chaosVars, samplerVars>>

\* docker run returns the program's exit code, or its own without a container.
RunReturns ==
    /\ runner = "running"
    /\ \/ container = "gone" /\ Finish(outcome.rc, FALSE, "none")
       \/ container = "absent" /\ Finish(125, FALSE, "none")
    /\ client' = "dead"
    /\ UNCHANGED dockerVars

\* docker cannot be started at all, or what the program wrote is no text.
RunFails ==
    /\ runner = "running"
    /\ \/ container = "absent" /\ client' = "none"
       \/ container = "gone" /\ client' = "dead"
    /\ Finish(-2, FALSE, "none")
    /\ UNCHANGED dockerVars

\* Mutant: no timeout for docker run.
RunNeverTimesOut == FALSE /\ RunFails

\* The timeout kills the client; the container is then killed by name.
RunTimesOut ==
    /\ runner = "running"
    /\ client' = "dead"
    /\ runner' = "killing"
    /\ UNCHANGED <<profile, outcome, kill, stop, result, joined, stats, dockerVars, chaosVars, samplerVars>>

\* Mutant: only the client is killed.
KillNothing ==
    /\ runner = "killing"
    /\ Finish(-1, TRUE, "done")
    /\ UNCHANGED <<client, dockerVars>>

\* docker kill's exit code is not looked at.
KillReturns ==
    /\ runner = "killing"
    /\ \/ Finish(-1, TRUE, "failed") /\ UNCHANGED container
       \/ Finish(-1, TRUE, "done") /\ container' = IF container = "running" THEN "gone" ELSE container
    /\ UNCHANGED <<client, limits, refused>>

\* docker kill itself times out: the exception leaves the runner.
KillHangs ==
    /\ runner = "killing"
    /\ Finish(-1, TRUE, "hung")
    /\ UNCHANGED <<client, dockerVars>>

Joined(ok) ==
    /\ joined' = ok
    /\ runner' = IF kill = "hung" THEN "raised" ELSE "reading"
    /\ UNCHANGED <<profile, client, outcome, kill, stop, result, stats, dockerVars, chaosVars, samplerVars>>

JoinReturns == runner = "joining" /\ chaos \in {"done", "dead"} /\ Joined(TRUE)

\* A command ended since the stop and another is under way.
JoinTimesOut == runner = "joining" /\ chaos = "call" /\ calls >= 1 /\ Joined(FALSE)

Figures == <<"rss", "peak", "avg", "pids">>

\* One figure after the other.
ReadFigure ==
    /\ runner = "reading"
    /\ result' = Append(result, dockerStats[Figures[Len(result) + 1]])
    /\ runner' = IF Len(result') = Len(Figures) THEN "ended" ELSE "reading"
    /\ UNCHANGED <<profile, client, outcome, kill, stop, joined, stats, dockerVars, chaosVars, samplerVars>>

(***************************************************************************)
(* The container, as the daemon runs it for a client that is alive.        *)
(***************************************************************************)
ContainerStarts ==
    /\ client = "alive"
    /\ \/ container = "absent" /\ container' = "created"
       \/ container = "created" /\ container' = "running"
    /\ UNCHANGED <<runnerVars, limits, refused, stats, chaosVars, samplerVars>>

ContainerExits ==
    /\ container = "running" /\ runner \notin {"ended", "raised"}
    /\ container' = "gone"
    /\ \E code \in ExitCodes[profile] : outcome' = IF runner = "running" THEN [outcome EXCEPT !.rc = code] ELSE outcome
    /\ UNCHANGED <<profile, runner, client, kill, stop, result, joined, limits, refused, stats, chaosVars, samplerVars>>

(***************************************************************************)
(* What a docker command does to the container's limits.  The kernel adds  *)
(* delay and loss where no rule is, and a rate below a rule without one.   *)
(***************************************************************************)
Effect(c) ==
    LET mem == {a \in c.args : a[1] = "mem"}
        rated == \E r \in limits.net : r[1] = "rate"
    IN  CASE c.op = "update" -> [limits EXCEPT !.mem = IF mem = {} THEN @ ELSE (CHOOSE a \in mem : TRUE)[2]]
          [] c.op = "clear"  -> [limits EXCEPT !.net = {}]
          [] c.op = "netem" /\ limits.net = {} -> [limits EXCEPT !.net = c.args]
          [] c.op = "tbf" /\ limits.net # {} /\ ~rated -> [limits EXCEPT !.net = @ \cup c.args]
          [] OTHER -> limits

(***************************************************************************)
(* The chaos thread.                                                       *)
(***************************************************************************)
GoesOn == UNCHANGED <<runnerVars, samplerVars>>

\* The first rules wait 2.5 s for the container.
AwaitNet ==
    /\ chaos = "await_net"
    /\ \/ stop /\ chaos' = "await_step" /\ UNCHANGED cmds
       \/ ~stop /\ chaos' = "call" /\ cmds' = TcCommands(P.initial)
    /\ UNCHANGED <<step, calls, dockerStats, cut, stats, dockerVars>> /\ GoesOn

\* A step that is overdue, because commands before it were slow, does not wait.
Overdue == step > 1 \/ HasNetChaos(P.initial)

AwaitStep ==
    /\ chaos = "await_step"
    /\ \/ (step > Len(P.steps) \/ stop) /\ chaos' = "await_stop"
       \/ step <= Len(P.steps) /\ (~stop \/ Overdue) /\ chaos' = "check"
    /\ UNCHANGED <<step, cmds, calls, dockerStats, cut, stats, dockerVars>> /\ GoesOn

StepCommands(p, s) == UpdateCommands(s) \o IF NeedsNetAdmin(p) THEN TcCommands(s) ELSE <<>>

CheckStop ==
    /\ chaos = "check"
    /\ \/ stop /\ chaos' = "await_stop" /\ UNCHANGED <<step, cmds>>
       \/ /\ ~stop
          /\ LET todo == StepCommands(P, InOrder(P)[step].snapshot)
             IN  cmds' = todo /\ step' = step + 1 /\ chaos' = IF todo = <<>> THEN "await_step" ELSE "call"
    /\ UNCHANGED <<calls, dockerStats, cut, stats, dockerVars>> /\ GoesOn

\* A command takes effect on a running container, or is refused: that is only logged.
DockerCall ==
    /\ chaos = "call"
    /\ \/ container = "running" /\ limits' = Effect(Head(cmds)) /\ UNCHANGED refused
       \/ UNCHANGED limits /\ refused' = (refused \/ Head(cmds).op = "clear")
    /\ cmds' = Tail(cmds)
    /\ chaos' = IF Len(cmds) = 1 THEN "await_step" ELSE "call"
    /\ calls' = IF stop THEN calls + 1 ELSE calls
    /\ UNCHANGED <<step, dockerStats, cut, stats, container>> /\ GoesOn

\* A command that takes 5 s raises, and the thread ends without a flush.
DockerHangs ==
    /\ chaos = "call"
    /\ chaos' = "dead"
    /\ UNCHANGED <<step, cmds, calls, dockerStats, cut, stats, dockerVars>> /\ GoesOn

\* The sum of the CPU samples is taken, and then their number.
TakeSum ==
    /\ chaos = "await_stop" /\ stop
    /\ chaos' = IF stats.len = 0 THEN "delete" ELSE "divide"
    /\ stats' = [stats EXCEPT !.avg = stats.sum]
    /\ cut' = (sampler = "peak")
    /\ UNCHANGED <<step, cmds, calls, dockerStats, dockerVars>> /\ GoesOn

Divide ==
    /\ chaos = "divide"
    /\ chaos' = "delete"
    /\ stats' = [stats EXCEPT !.avg = @ \div stats.len]
    /\ UNCHANGED <<step, cmds, calls, dockerStats, cut, dockerVars>> /\ GoesOn

DeleteSamples ==
    /\ chaos = "delete"
    /\ chaos' = "flush"
    /\ stats' = [stats EXCEPT !.deleted = TRUE]
    /\ UNCHANGED <<step, cmds, calls, dockerStats, cut, dockerVars>> /\ GoesOn

Flush ==
    /\ chaos = "flush"
    /\ chaos' = "done"
    /\ dockerStats' = [peak |-> stats.peak, rss |-> stats.rss, pids |-> stats.pids, avg |-> stats.avg]
    /\ UNCHANGED <<step, cmds, calls, cut, stats, dockerVars>> /\ GoesOn

(***************************************************************************)
(* The sampler.  Once the lists are deleted, adding to one raises, and the *)
(* rest of the sample is dropped.                                          *)
(***************************************************************************)
Larger(a, b) == IF a > b THEN a ELSE b

Samples == UNCHANGED <<runnerVars, dockerVars, chaosVars>>

Poll ==
    /\ sampler = "idle"
    /\ sampler' = IF stop THEN "done" ELSE "polling"
    /\ UNCHANGED <<sample, samples, stats>> /\ Samples

\* docker stats has nothing to say, fails or takes 3 s.
PollFails ==
    /\ sampler = "polling"
    /\ sampler' = "idle"
    /\ UNCHANGED <<sample, samples, stats>> /\ Samples

PollReturns ==
    /\ sampler = "polling" /\ container = "running" /\ Len(samples) < MaxSamples[profile]
    /\ \E s \in Loads[profile] : sample' = s /\ samples' = Append(samples, s)
    /\ sampler' = "cpu"
    /\ UNCHANGED stats /\ Samples

AddCpu ==
    /\ sampler = "cpu"
    /\ IF stats.deleted THEN sampler' = "idle" /\ UNCHANGED stats
       ELSE /\ sampler' = "peak"
            /\ stats' = [stats EXCEPT !.sum = @ + sample.cpu, !.len = @ + 1]
    /\ UNCHANGED <<sample, samples>> /\ Samples

\* Mutant: the last sample is the peak.
RaisePeakToLast ==
    /\ sampler = "peak"
    /\ sampler' = "mem"
    /\ stats' = [stats EXCEPT !.peak = sample.cpu]
    /\ UNCHANGED <<sample, samples>> /\ Samples

RaisePeak ==
    /\ sampler = "peak"
    /\ sampler' = "mem"
    /\ stats' = [stats EXCEPT !.peak = Larger(@, sample.cpu)]
    /\ UNCHANGED <<sample, samples>> /\ Samples

AddMemory ==
    /\ sampler = "mem"
    /\ IF sample.mem > 0 /\ stats.deleted THEN sampler' = "idle" /\ UNCHANGED stats
       ELSE sampler' = "pids" /\ stats' = [stats EXCEPT !.rss = Larger(@, sample.mem)]
    /\ UNCHANGED <<sample, samples>> /\ Samples

AddPids ==
    /\ sampler = "pids"
    /\ sampler' = "idle"
    /\ stats' = IF stats.deleted THEN stats ELSE [stats EXCEPT !.pids = Larger(@, sample.pids)]
    /\ UNCHANGED <<sample, samples>> /\ Samples

RunnerSteps  == RunReturns \/ RunFails \/ RunTimesOut \/ KillReturns \/ KillHangs
                \/ JoinReturns \/ JoinTimesOut \/ ReadFigure
DaemonSteps  == ContainerStarts \/ ContainerExits
ChaosSteps   == AwaitNet \/ AwaitStep \/ CheckStop \/ DockerCall \/ DockerHangs
                \/ TakeSum \/ Divide \/ DeleteSamples \/ Flush
SamplerSteps == Poll \/ PollFails \/ PollReturns \/ AddCpu \/ RaisePeak \/ AddMemory \/ AddPids

RunOver == runner \in {"ended", "raised"}

RunSteps == RunnerSteps \/ DaemonSteps \/ ChaosSteps \/ SamplerSteps

(***************************************************************************)
(* A container that runs on after its run was one docker kill could not    *)
(* end: the runner ignores its exit code, or it hung and raised.           *)
(***************************************************************************)
NoStrayContainer == RunOver /\ container = "running" => kill \in {"failed", "hung"}

(***************************************************************************)
(* Under a profile without network rules the report has the figures the    *)
(* chaos thread flushed, unless one of its docker commands took 5 s: the   *)
(* join cannot run out.  (Under the others zeroes may stand for figures    *)
(* that came too late.)                                                    *)
(***************************************************************************)
StatsArrive ==
    runner = "ended" /\ chaos # "dead" /\ ~NeedsNetAdmin(P) =>
        chaos = "done" /\ \A i \in DOMAIN Figures : result[i] = dockerStats[Figures[i]]

(***************************************************************************)
(* The average and the peak are figures of the samples.  An average above  *)
(* the peak comes from a sample that was half recorded when the average    *)
(* was taken, or from a flush between two reads.                           *)
(***************************************************************************)
FiguresAreSampled ==
    runner = "ended" =>
        LET seen == {samples[i].cpu : i \in DOMAIN samples} \cup {0}
            peak == result[2]
            avg  == result[3]
        IN  peak \in seen /\ avg <= Max(seen) /\ (avg > peak => cut \/ ~joined)

(***************************************************************************)
(* After the stop event the chaos thread issues at most the commands of    *)
(* the one snapshot it was applying.                                       *)
(***************************************************************************)
OneSnapshotAfterStop ==
    calls <= Max({Len(StepCommands(P, s)) : s \in Snapshots(P)})

(***************************************************************************)
(* The container's network rules are those of a single snapshot, or a part *)
(* of them, as long as clearing the old ones was not refused.              *)
(***************************************************************************)
RulesOfOneSnapshot == refused \/ \E s \in Snapshots(P) : limits.net \subseteq s.net
=============================================================================
