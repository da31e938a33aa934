-------------------------- MODULE RaftTimersProofs --------------------------
(***************************************************************************)
(* The election timers for any number of followers and any units that      *)
(* satisfy the assumptions of RaftTimers.                                  *)
(***************************************************************************)
EXTENDS RaftTimers, FiniteSetTheorems, TLAPS

-----------------------------------------------------------------------------

\* The longest time between two heartbeats that arrive.
Gap == (MaxLosses + 1) * HeartbeatEvery

\* How long a follower that lost k heartbeats in a row may have waited when the
\* leader's ticker went to sleep.
Missed(k) == k * HeartbeatEvery

\* The products, so that the steps below are linear.
LEMMA Products ==
    /\ Gap \in Nat /\ Gap >= HeartbeatEvery /\ Gap + MaxDelay < MinTimeout
    /\ Missed(0) = 0
    /\ \A k \in 0..MaxLosses :
          /\ Missed(k) \in Nat /\ Missed(k + 1) = Missed(k) + HeartbeatEvery
          /\ Missed(k) + HeartbeatEvery <= Gap
    /\ Settling \in Nat /\ Settling + HeartbeatEvery = MaxDelay + Gap
<1>1. \A k \in Nat : k * HeartbeatEvery \in Nat /\ (k + 1) * HeartbeatEvery = k * HeartbeatEvery + HeartbeatEvery
  BY UnitsAssumption
<1>2. \A k \in 0..MaxLosses : k * HeartbeatEvery <= MaxLosses * HeartbeatEvery
  BY UnitsAssumption
<1>. QED
  BY <1>1, <1>2, UnitsAssumption, TimeoutAssumption DEF Gap, Missed, Settling

\* A time x began with the last heartbeat that was not lost, or that heartbeat is
\* on its way and x began with the one before it.
Recent(x, f) ==
    \/ x <= Missed(lost[f]) + idle
    \/ \E b \in beats[f] : x <= b + Gap

\* While a leader runs: the timer of a follower that heard of it is young, and
\* the leader is young for one that did not.
Led ==
    /\ silence = 0 /\ heard # {}
    /\ \A f \in heard : age[f] >= 0 /\ Recent(age[f], f)
    /\ \A f \in Follower \ heard : Recent(reign + HeartbeatEvery, f)

\* After a leader, or before the first one: some timer is about as old as the
\* silence, and what still arrives was sent before it.
Alone ==
    /\ \E f \in Follower : age[f] + MaxDelay >= silence
    /\ \A f \in Follower : \A b \in beats[f] : b >= silence
    /\ silence < 0 => \A f \in Follower : /\ beats[f] = {}
                                          /\ age[f] <= silence + MaxTimeout - MinTimeout

\* A timer at its end is noticed by the next poll.
Noticed ==
    \A f \in Follower : /\ age[f] <= MaxTimeout
                        /\ f \in polled => age[f] < MaxTimeout

Inv ==
    /\ TypeOK
    /\ leading /\ campaigning = {} => Led
    /\ ~leading /\ campaigning = {} => Alone
    /\ campaigning = {} => Noticed
    /\ NoUsurper

-----------------------------------------------------------------------------

LEMMA YoungEnough ==
    ASSUME Inv, leading, campaigning = {}, NEW f \in heard
    PROVE  age[f] < MinTimeout
BY Products, UnitsAssumption DEF Inv, Led, Recent, TypeOK

LEMMA HeardSoon ==
    ASSUME Inv, leading, campaigning = {}, NEW f \in Follower \ heard
    PROVE  reign <= Settling
BY Products, UnitsAssumption DEF Inv, Led, Recent, TypeOK

\* Whoever is elected had the vote of somebody else.
LEMMA SomebodyVoted == Elected => heard # {} /\ heard \subseteq Follower
<1>. SUFFICES ASSUME Elected PROVE heard # {} /\ heard \subseteq Follower
  OBVIOUS
<1>1. Cardinality(Follower) \in Nat /\ Cardinality(Follower) # 0
  BY FollowerAssumption, FS_CardinalityType, FS_EmptySet
<1>2. Cardinality({}) = 0
  BY FS_EmptySet
<1>3. heard \subseteq Follower /\ 2 * (Cardinality(heard) + 1) > Cardinality(Follower) + 1
  BY DEF Elected
<1>4. ASSUME heard = {} PROVE FALSE
  <2>1. Cardinality(heard) = 0
    BY Zenon, <1>2, <1>4
  <2>. QED
    BY <1>1, <1>3, <2>1
<1>. QED
  BY <1>3, <1>4

LEMMA InvInit == Init => Inv
<1>. SUFFICES ASSUME Init PROVE Inv
  OBVIOUS
<1>1. TypeOK
  <2>1. leading \in BOOLEAN
    BY Zenon DEF Init, Elected, Made
  <2>2. age \in [Follower -> Int] /\ silence \in Int /\ idle \in 0..HeartbeatEvery
    <3>1. CASE Elected
      BY <3>1, UnitsAssumption DEF Elected
    <3>2. CASE Made
      BY <3>2, UnitsAssumption DEF Made
    <3>. QED
      BY <3>1, <3>2 DEF Init
  <2>3. polled = {} /\ campaigning = {} /\ heard \subseteq Follower
    BY SomebodyVoted DEF Init, Made
  <2>4. beats \in [Follower -> SUBSET (0..MaxDelay)] /\ lost \in [Follower -> 0..MaxLosses]
    BY UnitsAssumption DEF Init
  <2>5. reign \in 0..(Settling + 1)
    BY Products DEF Init
  <2>. QED
    BY <2>1, <2>2, <2>3, <2>4, <2>5 DEF TypeOK
<1>2. ASSUME leading PROVE Led
  <2>1. Elected
    BY <1>2 DEF Init, Made
  <2>2. \A f \in heard : age[f] >= 0 /\ Recent(age[f], f)
    BY <2>1, SomebodyVoted, UnitsAssumption, FirstBeatAssumption, Products DEF Init, Elected, Recent
  <2>3. \A f \in Follower \ heard : Recent(reign + HeartbeatEvery, f)
    BY <2>1, UnitsAssumption, Products DEF Init, Elected, Recent
  <2>. QED
    BY <2>1, <2>2, <2>3, SomebodyVoted DEF Init, Elected, Led
<1>3. ASSUME ~leading PROVE Alone
  <2>1. Made
    BY <1>3 DEF Init, Elected
  <2>2. PICK f \in Follower : TRUE
    BY FollowerAssumption
  <2>. QED
    BY <2>1, <2>2, UnitsAssumption DEF Init, Made, Alone
<1>4. Noticed
  <2>1. ASSUME NEW f \in Follower PROVE age[f] <= MaxTimeout
    <3>1. CASE Elected
      BY <3>1, UnitsAssumption DEF Elected
    <3>2. CASE Made
      BY <3>2, UnitsAssumption DEF Made
    <3>. QED
      BY <3>1, <3>2 DEF Init
  <2>. QED
    BY <2>1 DEF Init, Noticed
<1>. QED
  BY <1>1, <1>2, <1>3, <1>4 DEF Init, Inv, NoUsurper

LEMMA InvSendHeartbeats == Inv /\ campaigning = {} /\ SendHeartbeats => Inv'
<1>. SUFFICES ASSUME Inv, campaigning = {}, SendHeartbeats PROVE Inv'
  OBVIOUS
<1>. USE DEF Inv
<1>1. PICK losers \in SUBSET {f \in Follower : lost[f] < MaxLosses} :
         /\ lost' = [f \in Follower |-> IF f \in losers THEN lost[f] + 1 ELSE 0]
         /\ beats' = [f \in Follower |-> IF f \in losers THEN beats[f] ELSE beats[f] \cup {0}]
  BY DEF SendHeartbeats
<1>2. TypeOK'
  BY <1>1, UnitsAssumption DEF SendHeartbeats, TypeOK
<1>3. ASSUME NEW f \in Follower, NEW x \in Int, Recent(x, f) PROVE Recent(x, f)'
  <2>1. CASE f \in losers
    BY <1>1, <1>3, <2>1, Products, UnitsAssumption DEF SendHeartbeats, Recent, TypeOK
  <2>2. CASE f \notin losers
    <3>1. 0 \in beats'[f]
      BY <1>1, <2>2
    <3>2. x <= 0 + Gap \/ \E b \in beats'[f] : x <= b + Gap
      BY <1>1, <1>3, <2>2, Products, UnitsAssumption DEF SendHeartbeats, Recent, TypeOK
    <3>. QED
      BY <3>1, <3>2 DEF Recent
  <2>. QED
    BY <2>1, <2>2
<1>4. Led'
  <2>1. UNCHANGED <<age, heard, reign, silence, campaigning>> /\ leading
    BY DEF SendHeartbeats
  <2>2. ASSUME NEW f \in heard PROVE age[f] >= 0 /\ Recent(age[f], f)'
    BY <2>1, <1>3 DEF Led, TypeOK
  <2>3. ASSUME NEW f \in Follower \ heard PROVE Recent(reign + HeartbeatEvery, f)'
    <3>1. reign + HeartbeatEvery \in Int
      BY Products, UnitsAssumption DEF TypeOK
    <3>. QED
      BY <2>1, <1>3, <3>1 DEF Led
  <2>4. ASSUME NEW f \in heard' PROVE age'[f] >= 0 /\ Recent(age[f], f)'
    BY <2>1, <2>2
  <2>5. ASSUME NEW f \in Follower \ heard' PROVE Recent(reign + HeartbeatEvery, f)'
    BY <2>1, <2>3
  <2>. QED
    BY <2>1, <2>4, <2>5 DEF Led
<1>5. Noticed'
  BY DEF SendHeartbeats, Noticed
<1>. QED
  BY <1>2, <1>4, <1>5 DEF SendHeartbeats, NoUsurper

LEMMA InvAppendEntries ==
    ASSUME Inv, campaigning = {}, NEW f \in Follower, NEW b \in beats[f], AppendEntries(f, b)
    PROVE  Inv'
<1>. USE DEF Inv
<1>1. TypeOK'
  BY DEF AppendEntries, TypeOK
<1>2. ASSUME leading PROVE Led'
  <2>1. ASSUME NEW g \in Follower, g # f, NEW x, Recent(x, g) PROVE Recent(x, g)'
    BY <2>1 DEF AppendEntries, Recent, TypeOK
  <2>2. Recent(age[f], f)'
    BY Products, UnitsAssumption DEF AppendEntries, Recent, TypeOK
  <2>3. ASSUME NEW g \in heard' PROVE age'[g] >= 0 /\ Recent(age[g], g)'
    <3>1. CASE g = f
      BY <2>2, <3>1 DEF AppendEntries, TypeOK
    <3>2. CASE g # f
      <4>1. g \in heard /\ g \in Follower /\ age'[g] = age[g]
        BY <3>2 DEF AppendEntries, TypeOK
      <4>2. age[g] >= 0 /\ Recent(age[g], g)
        BY <1>2, <4>1 DEF Led
      <4>. QED
        BY <2>1, <3>2, <4>1, <4>2
    <3>. QED
      BY <3>1, <3>2
  <2>4. ASSUME NEW g \in Follower \ heard' PROVE Recent(reign + HeartbeatEvery, g)'
    <3>1. g # f /\ g \notin heard /\ reign' = reign
      BY DEF AppendEntries
    <3>2. Recent(reign + HeartbeatEvery, g)
      BY <1>2, <3>1 DEF Led
    <3>. QED
      BY <2>1, <3>1, <3>2
  <2>. QED
    BY <1>2, <2>3, <2>4 DEF AppendEntries, Led
<1>3. ASSUME ~leading PROVE Alone'
  <2>1. \E g \in Follower : age'[g] + MaxDelay >= silence
    <3>1. age'[f] + MaxDelay >= silence
      BY <1>3, UnitsAssumption DEF AppendEntries, Alone, TypeOK
    <3>. QED
      BY <3>1
  <2>. QED
    BY <1>3, <2>1, UnitsAssumption DEF AppendEntries, Alone, TypeOK
<1>4. Noticed'
  BY UnitsAssumption, Products DEF AppendEntries, Noticed, TypeOK
<1>. QED
  BY <1>1, <1>2, <1>3, <1>4 DEF AppendEntries, NoUsurper

LEMMA InvPoll ==
    ASSUME Inv, campaigning = {}, NEW f \in Follower, Poll(f)
    PROVE  Inv'
<1>. USE DEF Inv
<1>1. CASE StartElection(f)
  <2>1. age[f] >= MinTimeout
    <3>1. campaigning' # campaigning
      BY <1>1 DEF StartElection
    <3>2. PICK timeout \in MinTimeout..MaxTimeout : age[f] >= timeout
      BY <3>1 DEF Poll
    <3>. QED
      BY <3>2, UnitsAssumption DEF TypeOK
  <2>2. campaigning' = {f} /\ leading' = leading /\ heard' = heard /\ reign' = reign /\ silence' = silence
    BY <1>1 DEF Poll, StartElection
  <2>3. ASSUME leading PROVE f \notin heard /\ reign <= Settling
    <3>1. f \notin heard
      BY <2>1, <2>3, YoungEnough, UnitsAssumption DEF TypeOK
    <3>. QED
      BY <2>3, <3>1, HeardSoon
  <2>4. ASSUME ~leading PROVE silence >= 0
    BY <2>1, <2>4, UnitsAssumption DEF Alone, TypeOK
  <2>5. TypeOK'
    BY <1>1 DEF Poll, StartElection, TypeOK
  <2>6. NoUsurper'
    BY <2>2, <2>3, <2>4 DEF NoUsurper
  <2>. QED
    BY <2>2, <2>5, <2>6
<1>2. CASE UNCHANGED <<age, campaigning>>
  <2>1. age[f] < MaxTimeout
    BY <1>2, UnitsAssumption DEF Poll, StartElection, TypeOK
  <2>2. TypeOK'
    BY <1>2 DEF Poll, TypeOK
  <2>3. Noticed'
    BY <1>2, <2>1 DEF Poll, Noticed
  <2>4. leading => Led'
    BY <1>2 DEF Poll, Led, Recent
  <2>5. ~leading => Alone'
    BY <1>2 DEF Poll, Alone
  <2>. QED
    BY <1>2, <2>2, <2>3, <2>4, <2>5 DEF Poll, NoUsurper
<1>. QED
  BY <1>1, <1>2 DEF Poll

LEMMA InvLoseLeader == Inv /\ campaigning = {} /\ LoseLeader => Inv'
<1>. SUFFICES ASSUME Inv, campaigning = {}, LoseLeader PROVE Inv'
  OBVIOUS
<1>. USE DEF Inv
<1>1. TypeOK'
  <2>1. leading' \in BOOLEAN
    BY Zenon DEF LoseLeader
  <2>. QED
    BY <2>1 DEF LoseLeader, TypeOK
<1>2. Alone'
  <2>1. PICK f \in heard : age[f] >= 0
    BY DEF LoseLeader, Led
  <2>. QED
    BY <2>1, UnitsAssumption DEF LoseLeader, Alone, TypeOK
<1>3. Noticed'
  BY DEF LoseLeader, Led, Noticed
<1>. QED
  BY <1>1, <1>2, <1>3 DEF LoseLeader, NoUsurper

LEMMA InvTick == Inv /\ campaigning = {} /\ Tick => Inv'
<1>. SUFFICES ASSUME Inv, campaigning = {}, Tick PROVE Inv'
  OBVIOUS
<1>. USE DEF Inv
<1>1. TypeOK'
  <2>1. \A f \in Follower : {b + 1 : b \in beats[f]} \subseteq 0..MaxDelay
    BY UnitsAssumption DEF Tick, TypeOK
  <2>2. reign' \in 0..(Settling + 1)
    BY Products DEF Tick, TypeOK
  <2>. QED
    BY <2>1, <2>2, UnitsAssumption DEF Tick, TypeOK
<1>2. ASSUME leading PROVE Led'
  <2>1. ASSUME NEW f \in Follower, NEW x \in Int, NEW y \in Int, y <= x + 1, Recent(x, f)
        PROVE  Recent(y, f)'
    <3>1. CASE x <= Missed(lost[f]) + idle
      BY <1>2, <2>1, <3>1, Products, UnitsAssumption DEF Tick, Recent, TypeOK
    <3>2. ASSUME NEW b \in beats[f], x <= b + Gap PROVE Recent(y, f)'
      <4>1. b + 1 \in beats'[f]
        BY DEF Tick
      <4>2. y <= b + 1 + Gap
        BY <2>1, <3>2, Products, UnitsAssumption DEF TypeOK
      <4>. QED
        BY <4>1, <4>2 DEF Recent
    <3>. QED
      BY <2>1, <3>1, <3>2 DEF Recent
  <2>2. heard' = heard
    BY DEF Tick
  <2>3. ASSUME NEW f \in heard' PROVE age'[f] >= 0 /\ Recent(age[f], f)'
    <3>1. f \in Follower /\ age[f] >= 0 /\ Recent(age[f], f)
      BY <1>2, <2>2 DEF Led, TypeOK
    <3>2. age'[f] = age[f] + 1 /\ age[f] \in Int /\ age'[f] \in Int
      BY <3>1 DEF Tick, TypeOK
    <3>. QED
      BY <2>1, <3>1, <3>2
  <2>4. ASSUME NEW f \in Follower \ heard' PROVE Recent(reign + HeartbeatEvery, f)'
    <3>1. Recent(reign + HeartbeatEvery, f)
      BY <1>2, <2>2 DEF Led
    <3>2. /\ reign + HeartbeatEvery \in Int /\ reign' + HeartbeatEvery \in Int
          /\ reign' + HeartbeatEvery <= reign + HeartbeatEvery + 1
      BY Products, UnitsAssumption DEF Tick, TypeOK
    <3>. QED
      BY <2>1, <3>1, <3>2
  <2>. QED
    BY <1>2, <2>2, <2>3, <2>4 DEF Tick, Led
<1>3. ASSUME ~leading PROVE Alone'
  <2>1. PICK f \in Follower : age[f] + MaxDelay >= silence
    BY <1>3 DEF Alone
  <2>2. age'[f] + MaxDelay >= silence'
    BY <1>3, <2>1, UnitsAssumption DEF Tick, TypeOK
  <2>3. \A g \in Follower : \A b \in beats'[g] : b >= silence'
    BY <1>3, UnitsAssumption DEF Tick, Alone, TypeOK
  <2>. QED
    BY <1>3, <2>2, <2>3, UnitsAssumption DEF Tick, Alone, TypeOK
<1>4. Noticed'
  BY UnitsAssumption DEF Tick, Noticed, TypeOK
<1>. QED
  BY <1>1, <1>2, <1>3, <1>4 DEF Tick, NoUsurper

LEMMA InvNext == Inv /\ [Next]_vars => Inv'
<1>1. Inv /\ UNCHANGED vars => Inv'
  BY DEF Inv, TypeOK, Led, Recent, Alone, Noticed, NoUsurper, vars
<1>. QED
  BY <1>1, InvSendHeartbeats, InvAppendEntries, InvPoll, InvLoseLeader, InvTick DEF Next

\* The timers' invariant.
THEOREM Invariance == Spec => []Inv
  BY InvInit, InvNext, PTL DEF Spec

\* Every variable keeps its type: no heartbeat outlives the network's delay and
\* the leader never oversleeps.
THEOREM TypeCorrect == Spec => []TypeOK
<1>1. Inv => TypeOK
  BY DEF Inv
<1>. QED
  BY <1>1, Invariance, PTL

\* Nobody who voted for the leader or had a heartbeat of it takes over while it
\* runs, and nobody else once the first heartbeat must have reached everyone:
\* 150 ms cover the losses and delays assumed.  The offsets of Make keep new
\* servers from starting elections at once.
THEOREM Stability == Spec => []NoUsurper
<1>1. Inv => NoUsurper
  BY DEF Inv
<1>. QED
  BY <1>1, Invariance, PTL

\* A dead leader is noticed in time.
THEOREM Noticing == Spec => []Detection
<1>1. Inv => Detection
  <2>. SUFFICES ASSUME Inv, campaigning = {} PROVE silence <= MaxTimeout + MaxDelay
    BY DEF Detection
  <2>1. CASE leading
    BY <2>1, UnitsAssumption DEF Inv, Led
  <2>2. CASE ~leading
    <3>1. PICK f \in Follower : age[f] + MaxDelay >= silence
      BY <2>2 DEF Inv, Alone
    <3>. QED
      BY <2>2, <3>1, UnitsAssumption DEF Inv, Noticed, TypeOK
  <2>. QED
    BY <2>1, <2>2
<1>. QED
  BY <1>1, Invariance, PTL

=============================================================================
