---------------------------- MODULE LabRpcProofs ----------------------------
(***************************************************************************)
(* The network of the Raft lab, for any number of calls, ends and servers  *)
(* and any number of restarts: types, the one writer of the saved state,   *)
(* acknowledged updates are kept, and at-most-once execution.              *)
(***************************************************************************)
EXTENDS LabRpc, TLAPS

-----------------------------------------------------------------------------

\* Where a call is decides what its method has done: it starts when processReq
\* leaves its first delay, and has returned when a reply is there.
Method(c) ==
    /\ pc[c] \in {"idle", "sending", "accepted", "delaying", "timingOut"} => handler[c] = "none"
    /\ pc[c] \in {"checking", "late", "ok"} => handler[c] = "returned"
    /\ executions[c] = IF handler[c] = "returned" THEN 1 ELSE 0

\* The object a call goes to is one that the harness has made.
Destination(c) ==
    pc[c] \in {"delaying", "waiting", "checking"} \/ handler[c] # "none"
    => /\ target[c] \in Server
       /\ object[c] \in 1..made[target[c]]

\* A method that has run on the object whose persister will be handed on is in
\* the saved state, and so is a call whose reply passed the last check.
Saved(c) ==
    /\ handler[c] = "returned" /\ persister[target[c]] = object[c] => c \in kept
    /\ pc[c] \in {"late", "ok"} => c \in kept

Inv ==
    /\ TypeOK
    /\ OneWriter
    /\ \A c \in Call : Method(c) /\ Destination(c) /\ Saved(c)

-----------------------------------------------------------------------------

LEMMA InvInit == Init => Inv
<1>. SUFFICES ASSUME Init PROVE Inv
  OBVIOUS
<1>1. TypeOK
  <2>1. {reliable, longReordering, serving, done} \subseteq BOOLEAN
    BY Zenon DEF Init
  <2>2. 0 \in Object
    BY MaxObjectsAssumption DEF Object
  <2>. QED
    BY <2>1, <2>2 DEF Init, TypeOK, Place
<1>2. OneWriter
  BY DEF Init, OneWriter
<1>3. \A c \in Call : Method(c) /\ Destination(c) /\ Saved(c)
  BY DEF Init, Method, Destination, Saved
<1>. QED
  BY <1>1, <1>2, <1>3 DEF Inv

\* Ends and modes come and go without a call noticing.
LEMMA InvWire == Inv /\ (Wire \/ SetMode) => Inv'
<1>. SUFFICES ASSUME Inv, Wire \/ SetMode PROVE Inv'
  OBVIOUS
<1>. USE DEF Inv
<1>1. UNCHANGED <<serverState, calls, execution, lifetime>>
  BY DEF Wire, SetMode
<1>2. ends' \subseteq End /\ enabled' \subseteq ends' /\ connections' \in [End -> Server \cup {None}]
  BY DEF Wire, SetMode, MakeEnd, DeleteEnd, Connect, Enable, Disable, TypeOK, registry
<1>3. reliable' \in BOOLEAN /\ longReordering' \in BOOLEAN
  BY Zenon DEF Wire, SetMode, mode, TypeOK
<1>4. TypeOK'
  BY <1>1, <1>2, <1>3 DEF TypeOK, serverState, calls, execution, lifetime
<1>5. OneWriter'
  BY <1>1 DEF OneWriter, serverState
<1>6. \A c \in Call : Method(c)' /\ Destination(c)' /\ Saved(c)'
  BY <1>1 DEF Method, Destination, Saved, serverState, calls, execution
<1>. QED
  BY <1>4, <1>5, <1>6

\* A new object has a number no call has seen; a persister that is superseded or
\* a server that is deleted only lets go of what it had.
LEMMA InvHarness == Inv /\ Harness => Inv'
<1>. SUFFICES ASSUME Inv, NEW s \in Server,
                     AddServer(s) \/ DeleteServer(s) \/ SupersedePersister(s),
                     UNCHANGED <<registry, mode, calls, execution, lifetime>>
              PROVE  Inv'
  BY DEF Harness
<1>. USE DEF Inv
<1>1. /\ servers' \in [Server -> Object] /\ made' \in [Server -> Object] /\ persister' \in [Server -> Object]
      /\ OneWriter'
  BY MaxObjectsAssumption DEF TypeOK, OneWriter, AddServer, DeleteServer, SupersedePersister, Object
<1>2. TypeOK'
  BY <1>1 DEF TypeOK, registry, mode, calls, execution, lifetime
<1>3. ASSUME NEW c \in Call PROVE Method(c)' /\ Destination(c)' /\ Saved(c)'
  <2>1. Method(c)'
    BY DEF Method, calls, execution
  <2>2. Destination(c)'
    BY MaxObjectsAssumption DEF Destination, AddServer, DeleteServer, SupersedePersister, TypeOK, Object, calls, execution
  <2>3. Saved(c)'
    BY MaxObjectsAssumption DEF Saved, Destination, AddServer, DeleteServer, SupersedePersister,
                                TypeOK, Object, calls, execution
  <2>. QED
    BY <2>1, <2>2, <2>3
<1>. QED
  BY <1>1, <1>2, <1>3

\* The steps of a call that move only its place, and where from and to.
Way == {<<"sending", "failed">>, <<"sending", "accepted">>, <<"timingOut", "failed">>,
        <<"delaying", "failed">>, <<"waiting", "checking">>, <<"waiting", "failed">>,
        <<"checking", "failed">>, <<"checking", "late">>, <<"checking", "ok">>, <<"late", "ok">>}

MovesOn(c) ==
    \E from, to \in Place :
        /\ <<from, to>> \in Way
        /\ Moves(c, from, to)
        /\ to = "checking" => handler[c] = "returned"
        /\ to \in {"late", "ok"} /\ from # "late" => servers[target[c]] = object[c]

LEMMA ProceedMoves ==
    ASSUME NEW c \in Call, Proceed(c)
    PROVE  MovesOn(c) \/ Lookup(c) \/ StartHandler(c)
<1>1. ASSUME AbortCall(c) \/ Accept(c) \/ TimeOut(c) \/ DropRequest(c) PROVE MovesOn(c)
  BY <1>1 DEF AbortCall, Accept, TimeOut, DropRequest, MovesOn, Way, Place, Returned
<1>2. ASSUME TakeReply(c) \/ GiveUp(c) \/ LateReply(c) PROVE MovesOn(c)
  BY <1>2 DEF TakeReply, GiveUp, LateReply, MovesOn, Way, Place, Returned
<1>3. ASSUME Decide(c) PROVE MovesOn(c)
  BY <1>3 DEF Decide, IsServerDead, MovesOn, Way, Place, Returned
<1>. QED
  BY <1>1, <1>2, <1>3 DEF Proceed

LEMMA InvMoves ==
    ASSUME Inv, NEW c \in Call, MovesOn(c), UNCHANGED <<registry, mode, serverState>>
    PROVE  Inv'
<1>. USE DEF Inv
<1>1. PICK from, to \in Place :
         /\ <<from, to>> \in Way
         /\ pc[c] = from /\ pc' = [pc EXCEPT ![c] = to]
         /\ UNCHANGED <<via, target, object, flaky, reorder, execution, lifetime>>
         /\ to = "checking" => handler[c] = "returned"
         /\ to \in {"late", "ok"} /\ from # "late" => servers[target[c]] = object[c]
  BY DEF MovesOn, Moves, At
<1>2. TypeOK'
  BY <1>1 DEF TypeOK, registry, mode, serverState, execution, lifetime
<1>3. OneWriter'
  BY DEF OneWriter, serverState
<1>4. ASSUME NEW d \in Call PROVE Method(d)' /\ Destination(d)' /\ Saved(d)'
  <2>1. CASE d # c
    BY <1>1, <2>1 DEF Method, Destination, Saved, TypeOK, serverState, execution
  <2>2. CASE d = c
    <3>1. Method(c)'
      BY <1>1 DEF Method, TypeOK, Way, execution
    <3>2. Destination(c)'
      BY <1>1 DEF Destination, Method, TypeOK, Way, execution, serverState
    <3>3. to \in {"late", "ok"} => c \in kept
      BY <1>1 DEF Way, Method, Saved, Destination, OneWriter, TypeOK, Object
    <3>4. Saved(c)'
      BY <1>1, <3>3 DEF Saved, TypeOK, Way, execution, serverState
    <3>. QED
      BY <2>2, <3>1, <3>2, <3>4
  <2>. QED
    BY <2>1, <2>2
<1>. QED
  BY <1>2, <1>3, <1>4

LEMMA InvLookup ==
    ASSUME Inv, NEW c \in Call, Lookup(c), UNCHANGED <<registry, mode, serverState>>
    PROVE  Inv'
<1>. USE DEF Inv
<1>1. PICK s : s = connections[via[c]]
  OBVIOUS
<1>2. PICK reachable \in BOOLEAN : reachable <=> via[c] \in enabled /\ s # None /\ servers[s] # 0
  BY Zenon
<1>3. /\ At(c, "accepted", IF reachable THEN "delaying" ELSE "timingOut")
      /\ target' = [target EXCEPT ![c] = IF reachable THEN s ELSE None]
      /\ object' = [object EXCEPT ![c] = IF reachable THEN servers[s] ELSE 0]
      /\ UNCHANGED <<via, execution, lifetime>>
  BY <1>1, <1>2 DEF Lookup
<1>4. flaky' \in [Call -> BOOLEAN] /\ reorder' \in [Call -> BOOLEAN]
  BY DEF Lookup, TypeOK
<1>5. reachable => s \in Server /\ servers[s] \in 1..made[s]
  BY <1>1, <1>2 DEF TypeOK, OneWriter, Object
<1>6. TypeOK'
  <2>1. pc' \in [Call -> Place] /\ target' \in [Call -> Server \cup {None}]
    BY <1>3, <1>5 DEF At, TypeOK, Place
  <2>2. object' \in [Call -> Object]
    BY <1>3, <1>5, MaxObjectsAssumption DEF TypeOK, Object
  <2>. QED
    BY <1>3, <1>4, <2>1, <2>2 DEF TypeOK, registry, mode, serverState, execution, lifetime
<1>7. OneWriter'
  BY DEF OneWriter, serverState
<1>8. ASSUME NEW d \in Call PROVE Method(d)' /\ Destination(d)' /\ Saved(d)'
  <2>1. CASE d # c
    BY <1>3, <2>1 DEF At, Method, Destination, Saved, TypeOK, serverState, execution
  <2>2. CASE d = c
    BY <1>3, <1>5, <2>2 DEF At, Method, Destination, Saved, TypeOK, serverState, execution
  <2>. QED
    BY <2>1, <2>2
<1>. QED
  BY <1>6, <1>7, <1>8

LEMMA InvStart ==
    ASSUME Inv, NEW c \in Call, UNCHANGED <<registry, mode, serverState>>,
           StartHandler(c) \/ \E e \in End : StartCall(c, e)
    PROVE  Inv'
<1>. USE DEF Inv
<1>1. TypeOK'
  <2>1. CASE StartHandler(c)
    BY <2>1 DEF StartHandler, At, TypeOK, Place, registry, mode, serverState, lifetime
  <2>2. ASSUME NEW e \in End, StartCall(c, e) PROVE TypeOK'
    <3>1. pc' \in [Call -> Place] /\ via' \in [Call -> End \cup {None}]
      BY <2>2 DEF StartCall, At, TypeOK, Place
    <3>. QED
      BY <2>2, <3>1 DEF StartCall, TypeOK, registry, mode, serverState, execution, lifetime
  <2>. QED
    BY <2>1, <2>2
<1>2. OneWriter'
  BY DEF OneWriter, serverState
<1>3. ASSUME NEW d \in Call PROVE Method(d)' /\ Destination(d)' /\ Saved(d)'
  <2>1. CASE d # c
    BY <2>1 DEF StartHandler, StartCall, At, Method, Destination, Saved, TypeOK, serverState, execution
  <2>2. CASE d = c
    BY <2>2 DEF StartHandler, StartCall, At, Method, Destination, Saved, TypeOK, serverState, execution
  <2>. QED
    BY <2>1, <2>2
<1>. QED
  BY <1>1, <1>2, <1>3

LEMMA InvExecute ==
    ASSUME Inv, NEW c \in Call, Execute(c), UNCHANGED <<registry, mode, serverState>>
    PROVE  Inv'
<1>. USE DEF Inv
<1>1. TypeOK'
  BY DEF Execute, Method, TypeOK, registry, mode, serverState, calls, lifetime
<1>2. OneWriter'
  BY DEF OneWriter, serverState
<1>3. ASSUME NEW d \in Call PROVE Method(d)' /\ Destination(d)' /\ Saved(d)'
  <2>1. CASE d # c
    BY <2>1 DEF Execute, Method, Destination, Saved, TypeOK, serverState, calls
  <2>2. CASE d = c
    BY <2>2 DEF Execute, Method, Destination, Saved, TypeOK, serverState, calls
  <2>. QED
    BY <2>1, <2>2
<1>. QED
  BY <1>1, <1>2, <1>3

LEMMA InvNext == Inv /\ [Next]_vars => Inv'
<1>. SUFFICES ASSUME Inv, [Next]_vars PROVE Inv'
  OBVIOUS
<1>1. CASE Wire \/ SetMode
  BY <1>1, InvWire
<1>2. CASE Harness
  BY <1>2, InvHarness
<1>3. ASSUME NEW c \in Call, UNCHANGED <<registry, mode, serverState>>,
             Proceed(c) \/ Execute(c) \/ \E e \in End : StartCall(c, e)
      PROVE  Inv'
  BY <1>3, ProceedMoves, InvMoves, InvLookup, InvStart, InvExecute
<1>4. CASE (Cleanup \/ StopServing \/ UNCHANGED lifetime) /\ UNCHANGED <<registry, mode, serverState, calls, execution>>
  <2>1. serving' \in BOOLEAN /\ done' \in BOOLEAN
    BY <1>4, Zenon DEF Cleanup, StopServing, lifetime, Inv, TypeOK
  <2>2. TypeOK'
    BY <1>4, <2>1 DEF Inv, TypeOK, registry, mode, serverState, calls, execution
  <2>3. OneWriter' /\ \A c \in Call : Method(c)' /\ Destination(c)' /\ Saved(c)'
    BY <1>4 DEF Inv, OneWriter, Method, Destination, Saved, serverState, calls, execution
  <2>. QED
    BY <2>2, <2>3 DEF Inv
<1>. QED
  BY <1>1, <1>2, <1>3, <1>4 DEF Next, Network, Cleanup, StopServing, vars

\* The invariant of the network and the harness.
THEOREM Invariance == Spec => []Inv
  BY InvInit, InvNext, PTL DEF Spec

\* Every variable keeps its type; no method runs twice for one call.
THEOREM TypeCorrect == Spec => []TypeOK
<1>1. Inv => TypeOK
  BY DEF Inv
<1>. QED
  BY <1>1, Invariance, PTL

\* The harness never lets two objects write one saved state.
THEOREM SingleWriter == Spec => []OneWriter
<1>1. Inv => OneWriter
  BY DEF Inv
<1>. QED
  BY <1>1, Invariance, PTL

\* labrpc.go:266: a positive reply means that the update is in the saved state.
THEOREM Acknowledged == Spec => []AckedIsKept
<1>1. Inv => AckedIsKept
  BY DEF Inv, Saved, AckedIsKept
<1>. QED
  BY <1>1, Invariance, PTL

\* The network implements at-most-once calls: a step of one call is a step of
\* that call in AtMostOnceCall, or of none.
THEOREM AtMostOnce == Spec => ImplementsAtMostOnce
<1>1. Init => Abstract!Init
  BY DEF Init, Abstract!Init, Status, Returned
<1>2. Inv /\ [Next]_vars => [Abstract!Next]_<<Status, executions>>
  <2>. SUFFICES ASSUME Inv, [Next]_vars
                PROVE  Abstract!Next \/ UNCHANGED <<Status, executions>>
    OBVIOUS
  <2>. USE DEF Inv
  <2>1. ASSUME NEW c \in Call, MovesOn(c)
        PROVE  Abstract!Next \/ UNCHANGED <<Status, executions>>
    <3>1. PICK from, to \in Place :
             /\ <<from, to>> \in Way
             /\ pc[c] = from /\ pc' = [pc EXCEPT ![c] = to]
             /\ executions' = executions
      BY <2>1 DEF MovesOn, Moves, At, execution
    <3>2. CASE to \notin Returned
      BY <3>1, <3>2 DEF Status, Way, Returned, TypeOK
    <3>3. CASE to = "failed"
      <4>1. Abstract!Move(c, "pending", "failed")
        BY <3>1, <3>3 DEF Status, Way, Returned, TypeOK, Abstract!Move
      <4>. QED
        BY <4>1 DEF Abstract!Next
    <3>4. CASE to = "ok"
      <4>1. Abstract!Move(c, "pending", "ok")
        BY <3>1, <3>4 DEF Status, Way, Returned, TypeOK, Abstract!Move
      <4>2. executions[c] = 1
        BY <3>1, <3>4 DEF Way, Method
      <4>. QED
        BY <4>1, <4>2 DEF Abstract!Next, Abstract!Succeed
    <3>. QED
      BY <3>2, <3>3, <3>4 DEF Returned
  <2>2. ASSUME NEW c \in Call, Lookup(c) \/ StartHandler(c)
        PROVE  UNCHANGED <<Status, executions>>
    BY <2>2 DEF Lookup, StartHandler, At, execution, Status, Returned, TypeOK
  <2>3. ASSUME NEW c \in Call, Execute(c)
        PROVE  Abstract!Next
    <3>1. Status[c] \in {"pending", "failed"} /\ executions[c] = 0
      BY <2>3 DEF Execute, Method, Status, Returned, TypeOK, Place
    <3>2. Abstract!Execute(c)
      BY <2>3, <3>1 DEF Execute, calls, Abstract!Execute, Status, TypeOK
    <3>. QED
      BY <3>2 DEF Abstract!Next
  <2>4. ASSUME NEW c \in Call, NEW e \in End, StartCall(c, e)
        PROVE  Abstract!Next
    <3>1. Abstract!Move(c, "idle", "pending")
      BY <2>4 DEF StartCall, At, execution, Abstract!Move, Status, Returned, TypeOK
    <3>. QED
      BY <3>1 DEF Abstract!Next
  <2>5. CASE UNCHANGED <<calls, execution>>
    BY <2>5 DEF calls, execution, Status
  <2>6. CASE Wire \/ SetMode \/ Harness \/ Cleanup \/ StopServing \/ UNCHANGED vars
    BY <2>5, <2>6 DEF Wire, SetMode, Harness, Cleanup, StopServing, vars
  <2>. QED
    BY <2>1, <2>2, <2>3, <2>4, <2>6, ProceedMoves DEF Next, Network
<1>. QED
  BY <1>1, <1>2, Invariance, PTL DEF Spec, ImplementsAtMostOnce, Abstract!Spec, Abstract!vars

=============================================================================
