------------------------------- MODULE LabRpc -------------------------------
(***************************************************************************)
(* The simulated network of the Raft lab, labrpc/labrpc.go, with the parts *)
(* of raft/config.go that install and kill servers.                        *)
(*                                                                         *)
(* One call of ClientEnd.Call is a member of Call; pc[c] says where the    *)
(* caller, the network goroutine, processReq or a timer has taken it.      *)
(* handler[c] is the goroutine that runs the method on the server object:  *)
(* it goes on when processReq has given up on it.  A Server object is the  *)
(* number of its incarnation, 0 is nil.  Delays are time that passes       *)
(* between two steps.                                                      *)
(***************************************************************************)
EXTENDS Integers, FiniteSets

CONSTANTS Call, End, Server,
          None,         \* connections[e] = nil
          MaxObjects    \* bound of the exploration: Server objects per name

ASSUME NamesAssumption == None \notin Server
ASSUME MaxObjectsAssumption == MaxObjects \in Nat

VARIABLES
    \* Network, under rn.mu
    ends, enabled, connections, servers, reliable, longReordering,
    \* the goroutine that accepts calls, and rn.done
    serving, done,
    \* processReq of a call: its place and what it read from the network
    pc, via, target, object, flaky, reorder,
    \* the method's goroutine, and how often it has run to its end
    handler, executions,
    \* the harness: objects made, the object that writes cfg.saved[s], and the
    \* calls whose effect is in the saved state
    made, persister, kept

registry == <<ends, enabled, connections>>
mode == <<reliable, longReordering>>
serverState == <<servers, made, persister>>
calls == <<pc, via, target, object, flaky, reorder>>
execution == <<handler, executions, kept>>
lifetime == <<serving, done>>
vars == <<registry, mode, serverState, calls, execution, lifetime>>

Object == 0..MaxObjects
Returned == {"ok", "failed"}
Place == {"idle", "sending", "accepted", "delaying", "timingOut", "waiting",
          "checking", "late"} \cup Returned

TypeOK ==
    /\ ends \subseteq End /\ enabled \subseteq ends
    /\ connections \in [End -> Server \cup {None}]
    /\ servers \in [Server -> Object]
    /\ made \in [Server -> Object] /\ persister \in [Server -> Object]
    /\ {reliable, longReordering, serving, done} \subseteq BOOLEAN
    /\ pc \in [Call -> Place]
    /\ via \in [Call -> End \cup {None}] /\ target \in [Call -> Server \cup {None}]
    /\ object \in [Call -> Object]
    /\ flaky \in [Call -> BOOLEAN] /\ reorder \in [Call -> BOOLEAN]
    /\ handler \in [Call -> {"none", "running", "returned"}]
    /\ executions \in [Call -> 0..1]
    /\ kept \subseteq Call

-----------------------------------------------------------------------------

\* MakeNetwork, before the harness makes ends and servers.
Init ==
    /\ ends = {} /\ enabled = {} /\ connections = [e \in End |-> None]
    /\ reliable = TRUE /\ longReordering = FALSE
    /\ servers = [s \in Server |-> 0]
    /\ made = [s \in Server |-> 0] /\ persister = [s \in Server |-> 0]
    /\ pc = [c \in Call |-> "idle"]
    /\ via = [c \in Call |-> None] /\ target = [c \in Call |-> None]
    /\ object = [c \in Call |-> 0]
    /\ flaky = [c \in Call |-> FALSE] /\ reorder = [c \in Call |-> FALSE]
    /\ handler = [c \in Call |-> "none"] /\ executions = [c \in Call |-> 0]
    /\ kept = {}
    /\ serving = TRUE /\ done = FALSE

\* Ends.  MakeEnd and DeleteEnd stop the program when the name is taken, or
\* is unknown.
MakeEnd(e) ==
    /\ e \notin ends
    /\ ends' = ends \cup {e}
    /\ enabled' = enabled \ {e}
    /\ connections' = [connections EXCEPT ![e] = None]

DeleteEnd(e) ==
    /\ e \in ends
    /\ ends' = ends \ {e}
    /\ enabled' = enabled \ {e}
    /\ connections' = [connections EXCEPT ![e] = None]

\* A ClientEnd is connected once in its lifetime.
Connect(e, s) ==
    /\ e \in ends /\ connections[e] = None
    /\ connections' = [connections EXCEPT ![e] = s]
    /\ UNCHANGED <<ends, enabled>>

Enable(e) ==
    /\ e \in ends \ enabled
    /\ enabled' = enabled \cup {e}
    /\ UNCHANGED <<ends, connections>>

Disable(e) ==
    /\ e \in enabled
    /\ enabled' = enabled \ {e}
    /\ UNCHANGED <<ends, connections>>

Wire ==
    /\ \E e \in End : \/ MakeEnd(e) \/ DeleteEnd(e) \/ Enable(e) \/ Disable(e)
                      \/ \E s \in Server : Connect(e, s)
    /\ UNCHANGED <<mode, serverState, calls, execution, lifetime>>

\* Reliable and LongReordering.
SetMode ==
    /\ \/ reliable' = ~reliable /\ UNCHANGED longReordering
       \/ longReordering' = ~longReordering /\ UNCHANGED reliable
    /\ UNCHANGED <<registry, serverState, calls, execution, lifetime>>

-----------------------------------------------------------------------------

\* start1: Make on a persister of its own with the saved state, then AddServer.
AddServer(s) ==
    /\ servers[s] = 0 /\ persister[s] = 0 /\ made[s] < MaxObjects
    /\ made' = [made EXCEPT ![s] = @ + 1]
    /\ servers' = [servers EXCEPT ![s] = made[s] + 1]
    /\ persister' = [persister EXCEPT ![s] = made[s] + 1]

DeleteServer(s) ==
    /\ servers[s] # 0
    /\ servers' = [servers EXCEPT ![s] = 0]
    /\ UNCHANGED <<made, persister>>

\* The rest of crash1: cfg.saved becomes a copy of what the old object saved.
SupersedePersister(s) ==
    /\ servers[s] = 0 /\ persister[s] # 0
    /\ persister' = [persister EXCEPT ![s] = 0]
    /\ UNCHANGED <<made, servers>>

Harness ==
    /\ \E s \in Server : AddServer(s) \/ DeleteServer(s) \/ SupersedePersister(s)
    /\ UNCHANGED <<registry, mode, calls, execution, lifetime>>

-----------------------------------------------------------------------------

At(c, from, to) == pc[c] = from /\ pc' = [pc EXCEPT ![c] = to]

\* A step of a call that changes nothing else.
Moves(c, from, to) ==
    /\ At(c, from, to)
    /\ UNCHANGED <<via, target, object, flaky, reorder, execution, lifetime>>

\* ClientEnd.Call: encode the arguments and offer the request to the network.
StartCall(c, e) ==
    /\ e \in ends
    /\ At(c, "idle", "sending")
    /\ via' = [via EXCEPT ![c] = e]
    /\ UNCHANGED <<target, object, flaky, reorder, execution, lifetime>>

\* ... the Network has been destroyed before it took the request.
AbortCall(c) == done /\ Moves(c, "sending", "failed")

\* Mutant: processReq runs in the network goroutine itself.
AcceptInTurn(c) ==
    /\ serving /\ Moves(c, "sending", "accepted")
    /\ \A d \in Call : pc[d] \in {"idle", "sending"} \cup Returned

\* The network goroutine starts processReq in a goroutine of its own.
Accept(c) == serving /\ Moves(c, "sending", "accepted")

\* readEndnameInfo, and the branch processReq takes on it.
Lookup(c) ==
    LET s == connections[via[c]]
        reachable == via[c] \in enabled /\ s # None /\ servers[s] # 0
    IN  /\ At(c, "accepted", IF reachable THEN "delaying" ELSE "timingOut")
        /\ target' = [target EXCEPT ![c] = IF reachable THEN s ELSE None]
        /\ object' = [object EXCEPT ![c] = IF reachable THEN servers[s] ELSE 0]
        /\ flaky' = [flaky EXCEPT ![c] = reachable /\ ~reliable]
        /\ reorder' = [reorder EXCEPT ![c] = reachable /\ longReordering]
        /\ UNCHANGED <<via, execution, lifetime>>

\* The timer of the branch for an end that leads nowhere.
TimeOut(c) == Moves(c, "timingOut", "failed")

DropRequest(c) == flaky[c] /\ Moves(c, "delaying", "failed")

StartHandler(c) ==
    /\ At(c, "delaying", "waiting")
    /\ handler' = [handler EXCEPT ![c] = "running"]
    /\ UNCHANGED <<via, target, object, flaky, reorder, executions, kept, lifetime>>

\* The method has changed and saved the server's state, and returns.  What an
\* object writes to a persister that has been superseded is lost.
Execute(c) ==
    /\ handler[c] = "running"
    /\ handler' = [handler EXCEPT ![c] = "returned"]
    /\ executions' = [executions EXCEPT ![c] = @ + 1]
    /\ kept' = IF persister[target[c]] = object[c] THEN kept \cup {c} ELSE kept
    /\ UNCHANGED <<calls, lifetime>>

\* Mutant: a server name that is in use again counts as alive.
IsServerDeadByName(c) == via[c] \notin enabled \/ servers[target[c]] = 0

IsServerDead(c) == via[c] \notin enabled \/ servers[target[c]] # object[c]

TakeReply(c) == handler[c] = "returned" /\ Moves(c, "waiting", "checking")

\* Mutant: giving up on the handler is reported as success.
GiveUpOk(c) == Moves(c, "waiting", "ok") /\ IsServerDead(c)

\* The check every 100 ms finds the server dead: no reply, so false.
GiveUp(c) == Moves(c, "waiting", "failed") /\ IsServerDead(c)

\* Mutant: the check after the handler's return is dropped.
DecideWithoutCheck(c) ==
    \/ Moves(c, "checking", "failed") /\ flaky[c]
    \/ Moves(c, "checking", "late") /\ reorder[c]
    \/ Moves(c, "checking", "ok")

\* Mutant: replies are dropped in a reliable network as well.
DecideLossy(c) ==
    \/ Moves(c, "checking", "failed")
    \/ Moves(c, "checking", "late") /\ ~IsServerDead(c) /\ reorder[c]
    \/ Moves(c, "checking", "ok") /\ ~IsServerDead(c)

\* The end of processReq: the reply of a dead server is an error; others may be
\* dropped, delayed or sent.
Decide(c) ==
    \/ Moves(c, "checking", "failed") /\ IsServerDead(c)
    \/ Moves(c, "checking", "failed") /\ ~IsServerDead(c) /\ flaky[c]
    \/ Moves(c, "checking", "late") /\ ~IsServerDead(c) /\ reorder[c]
    \/ Moves(c, "checking", "ok") /\ ~IsServerDead(c)

\* The timer of a delayed reply: the server is not looked at again.
LateReply(c) == Moves(c, "late", "ok")

\* What goroutines of one call do by themselves, its method apart.
Proceed(c) ==
    \/ AbortCall(c) \/ Accept(c) \/ Lookup(c) \/ TimeOut(c)
    \/ DropRequest(c) \/ StartHandler(c)
    \/ TakeReply(c) \/ GiveUp(c) \/ Decide(c) \/ LateReply(c)

Cleanup ==
    /\ ~done /\ done' = TRUE
    /\ UNCHANGED <<serving, calls, execution>>

\* The network goroutine's select picks rn.done.
StopServing ==
    /\ done /\ serving /\ serving' = FALSE
    /\ UNCHANGED <<done, calls, execution>>

Network ==
    /\ \/ \E c \in Call : Proceed(c) \/ Execute(c) \/ \E e \in End : StartCall(c, e)
       \/ Cleanup \/ StopServing
    /\ UNCHANGED <<registry, mode, serverState>>

Next == Wire \/ SetMode \/ Harness \/ Network

Step(A) == A /\ UNCHANGED <<registry, mode, serverState>>

\* Goroutines are scheduled and timers fire; methods need not return.
Fairness == WF_vars(Step(StopServing)) /\ \A c \in Call : WF_vars(Step(Proceed(c)))

Spec == Init /\ [][Next]_vars /\ Fairness

-----------------------------------------------------------------------------
(* Properties *)

Status ==
    [c \in Call |-> IF pc[c] \in Returned \cup {"idle"} THEN pc[c] ELSE "pending"]

\* The network implements at-most-once calls.
Abstract == INSTANCE AtMostOnceCall WITH status <- Status
ImplementsAtMostOnce == Abstract!Spec

\* labrpc.go:266: no client gets a positive reply for an update that the server
\* saved into an old persister, whatever restarts came in between.
AckedIsKept == \A c \in Call : pc[c] = "ok" => c \in kept

\* The harness never lets two objects of one server write the saved state: the
\* object that does is the newest, and it is the one that is installed, if any.
OneWriter ==
    \A s \in Server : /\ persister[s] \in {0, made[s]}
                      /\ servers[s] \in {0, persister[s]}

Pending(c) == Status[c] = "pending"
HasReturned(c) == pc[c] \in Returned

\* A call returns if its own method does, in spite of other calls that wait for
\* methods that hang or for disabled ends (TestRegression1), of Cleanup, and of
\* servers that are killed and replaced.
CallsReturn ==
    \A c \in Call :
        (handler[c] = "running" ~> handler[c] = "returned")
        => (Pending(c) ~> HasReturned(c))

\* A call returns even if its method hangs, once the server it went to has been
\* killed (TestKilled), also when a new object has taken the server's name.
HungCallsReturn ==
    \A c \in Call : pc[c] = "waiting" /\ servers[target[c]] # object[c] ~> HasReturned(c)

Healthy(c, e, s) ==
    /\ reliable /\ ~done
    /\ e \in enabled /\ connections[e] = s /\ servers[s] # 0
    /\ pc[c] # "idle" => via[c] = e

\* A call made and answered while the network is reliable and its end enabled
\* and connected to a living server does not fail (TestConcurrentOne).
HealthyCallsSucceed ==
    \A c \in Call, e \in End, s \in Server :
        []((pc[c] = "idle" /\ []Healthy(c, e, s)) => []~(pc[c] = "failed"))

=============================================================================
