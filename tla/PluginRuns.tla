----------------------------- MODULE PluginRuns -----------------------------
(***************************************************************************)
(* What the scanners do while they run, each in a thread of its own, and   *)
(* what they leave outside: the temporary file of gitleaks, the containers *)
(* of memory-forensics and resource-monitor, and the isolated network of   *)
(* the former (security_toolkit/src/scanners/, core/sandbox.py).           *)
(*                                                                         *)
(* A call of docker is answered with success, refused, or cut off by its   *)
(* timeout; one cut off may have had its effect or not.                    *)
(***************************************************************************)
CONSTANT Plugins

VARIABLES at,          \* plugin -> where its execute() is
          nets,        \* plugins whose network exists
          containers,  \* plugins whose container exists
          temps,       \* plugins whose temporary file exists
          hindered     \* history: plugins that were refused or cut off where it matters

runVars == <<at, nets, containers, temps, hindered>>

Memory  == "memory-forensics"
Monitor == "resource-monitor"
Secret  == "gitleaks"

Tools == Plugins \ {Memory, Monitor}

Places == {"idle", "tool", "network", "container", "wait", "dump", "stop", "unnet",
           "url", "start", "port", "unstart", "up", "measure", "returned", "raised", "collected"}

Ended == {"returned", "raised", "collected"}

RunInit ==
    /\ at = [p \in Plugins |-> "idle"]
    /\ nets = {} /\ containers = {} /\ temps = {} /\ hindered = {}

Go(p, place) == at' = [at EXCEPT ![p] = place]

Hindered(p) == hindered' = hindered \cup {p}

(***************************************************************************)
(* A worker takes the plugin up.  gitleaks makes its file first; the       *)
(* monitor returns at once when no port is known.                          *)
(***************************************************************************)
FirstPlaces(p) ==
    IF p = Memory THEN {"network"} ELSE IF p = Monitor THEN {"url", "start", "returned"} ELSE {"tool"}

Begin(p, place) ==
    /\ at[p] = "idle" /\ place \in FirstPlaces(p)
    /\ Go(p, place)
    /\ temps' = IF p = Secret THEN temps \cup {p} ELSE temps
    /\ UNCHANGED <<nets, containers, hindered>>

(***************************************************************************)
(* A scanner that runs a tool.  A tool that fails, hangs or prints no JSON *)
(* found nothing; JSON of another shape raises, and only gitleaks catches. *)
(***************************************************************************)
ToolAnswers(p) ==
    /\ at[p] = "tool"
    /\ Go(p, "returned") /\ temps' = temps \ {p}
    /\ UNCHANGED <<nets, containers, hindered>>

ToolIsOdd(p) ==
    /\ at[p] = "tool"
    /\ Go(p, IF p = Secret THEN "returned" ELSE "raised") /\ temps' = temps \ {p}
    /\ UNCHANGED <<nets, containers, hindered>>

ToolFails(p) ==
    /\ at[p] = "tool"
    /\ Go(p, "returned") /\ hindered' = hindered \cup ({p} \cap temps)
    /\ UNCHANGED <<nets, containers, temps>>

(***************************************************************************)
(* Memory forensics: a network, a container on it whose name is known only *)
(* when "docker run" returned, the dump, and in any case the way back.     *)
(***************************************************************************)
CreateNetwork(p) ==
    /\ at[p] = "network"
    /\ \/ nets' = nets \cup {p} /\ Go(p, "container") /\ UNCHANGED hindered
       \/ nets' \in {nets, nets \cup {p}} /\ Go(p, "returned") /\ Hindered(p)
    /\ UNCHANGED <<containers, temps>>

\* Mutant: a container that could not be started is not removed.
RunSandboxedNoStop(p) ==
    /\ at[p] = "container"
    /\ \/ containers' = containers \cup {p} /\ Go(p, "wait") /\ UNCHANGED hindered
       \/ containers' \in {containers, containers \cup {p}} /\ Go(p, "unnet") /\ UNCHANGED hindered
       \/ containers' \in {containers, containers \cup {p}} /\ Go(p, "unnet") /\ Hindered(p)
    /\ UNCHANGED <<nets, temps>>

RunSandboxed(p) ==
    /\ at[p] = "container"
    /\ \/ containers' = containers \cup {p} /\ Go(p, "wait") /\ UNCHANGED hindered
       \/ containers' \in {containers, containers \cup {p}} /\ Go(p, "stop") /\ UNCHANGED hindered
       \/ containers' \in {containers, containers \cup {p}} /\ Go(p, "unnet") /\ Hindered(p)
    /\ UNCHANGED <<nets, temps>>

WaitForContainer(p) ==
    /\ at[p] = "wait"
    /\ Go(p, "dump") \/ Go(p, "stop")
    /\ UNCHANGED <<nets, containers, temps, hindered>>

Dump(p) ==
    /\ at[p] = "dump"
    /\ Go(p, "stop")
    /\ UNCHANGED <<nets, containers, temps, hindered>>

AfterStop(p) == IF p = Memory THEN "unnet" ELSE "returned"

\* A timeout here leaves execute() by an exception, and the network where it is.
StopContainer(p) ==
    /\ at[p] = "stop"
    /\ \/ containers' = containers \ {p} /\ Go(p, AfterStop(p)) /\ UNCHANGED hindered
       \/ UNCHANGED containers /\ Go(p, AfterStop(p)) /\ Hindered(p)
       \/ containers' \in {containers, containers \ {p}} /\ Go(p, "raised") /\ Hindered(p)
    /\ UNCHANGED <<nets, temps>>

\* Docker removes no network that a container is on.
RemoveNetwork(p) ==
    /\ at[p] = "unnet"
    /\ \/ p \notin containers /\ nets' = nets \ {p} /\ Go(p, "returned") /\ UNCHANGED hindered
       \/ p \in containers /\ Go(p, "returned") /\ UNCHANGED <<nets, hindered>>
       \/ UNCHANGED nets /\ Go(p, "returned") /\ Hindered(p)
       \/ nets' \in {nets, IF p \in containers THEN nets ELSE nets \ {p}} /\ Go(p, "raised") /\ Hindered(p)
    /\ UNCHANGED <<containers, temps>>

(***************************************************************************)
(* The resource monitor: a service at a URL, or a container of its own     *)
(* whose name is known once "docker port" told where it listens.           *)
(***************************************************************************)
CheckUrl(p) ==
    /\ at[p] = "url"
    /\ Go(p, "returned")
    /\ UNCHANGED <<nets, containers, temps, hindered>>

StartService(p) ==
    /\ at[p] = "start"
    /\ \/ containers' = containers \cup {p} /\ Go(p, "port") /\ UNCHANGED hindered
       \/ containers' \in {containers, containers \cup {p}} /\ Go(p, "returned") /\ Hindered(p)
    /\ UNCHANGED <<nets, temps>>

AskPort(p) ==
    /\ at[p] = "port"
    /\ \/ Go(p, "up") /\ UNCHANGED hindered
       \/ Go(p, "unstart") /\ UNCHANGED hindered
       \/ Go(p, "returned") /\ Hindered(p)
    /\ UNCHANGED <<nets, containers, temps>>

Unstart(p) ==
    /\ at[p] = "unstart"
    /\ Go(p, "returned")
    /\ \/ containers' = containers \ {p} /\ UNCHANGED hindered
       \/ containers' \in {containers, containers \ {p}} /\ Hindered(p)
    /\ UNCHANGED <<nets, temps>>

WaitForHealth(p) ==
    /\ at[p] = "up"
    /\ Go(p, "measure") \/ Go(p, "stop")
    /\ UNCHANGED <<nets, containers, temps, hindered>>

Measure(p) ==
    /\ at[p] = "measure"
    /\ Go(p, "stop")
    /\ UNCHANGED <<nets, containers, temps, hindered>>

\* The steps that find something, and all the others.
FindingStep(p) == ToolAnswers(p) \/ Dump(p) \/ CheckUrl(p) \/ Measure(p)

QuietStep(p) ==
    \/ ToolIsOdd(p) \/ ToolFails(p)
    \/ CreateNetwork(p) \/ RunSandboxed(p) \/ WaitForContainer(p) \/ StopContainer(p) \/ RemoveNetwork(p)
    \/ StartService(p) \/ AskPort(p) \/ Unstart(p) \/ WaitForHealth(p)

\* The engine takes the result.
Collected(p) ==
    /\ at[p] \in {"returned", "raised"}
    /\ Go(p, "collected")
    /\ UNCHANGED <<nets, containers, temps, hindered>>

RunNext ==
    \E p \in Plugins :
        \/ \E place \in Places : Begin(p, place)
        \/ FindingStep(p) \/ QuietStep(p) \/ Collected(p)

RunSpec == RunInit /\ [][RunNext]_runVars

(***************************************************************************)
(* Whatever way a scanner ends, nothing of it stays behind unless docker   *)
(* or its tool hindered it: resource_monitor.py, memory.py (the finally    *)
(* blocks), gitleaks.py (the file).  A failed start is no excuse in the    *)
(* sandbox: the container of a refused "docker run" is removed by name.    *)
(***************************************************************************)
LeftBehind(p) == p \in nets \cup containers \cup temps

NothingLeftBehind ==
    \A p \in Plugins : at[p] \in Ended /\ p \notin hindered => ~LeftBehind(p)
=============================================================================
