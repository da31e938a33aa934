----------------------------- MODULE RaftTimers -----------------------------
(***************************************************************************)
(* The election timers of raft/raft.go: a leader that sends heartbeats and *)
(* the followers that wait for them.                                       *)
(*                                                                         *)
(* Time is counted in polls of the ticker (10 ms).  A heartbeat takes at   *)
(* most MaxDelay (the 26 ms of an unreliable labrpc) or is lost, at most   *)
(* MaxLosses in a row to one follower.  The model follows the servers up   *)
(* to the first election; what an election does is in RaftElection.        *)
(***************************************************************************)
EXTENDS Integers, FiniteSets

CONSTANTS Follower, HeartbeatEvery, MinTimeout, MaxTimeout, MaxDelay,
          MaxLosses

ASSUME FollowerAssumption == Follower # {} /\ IsFiniteSet(Follower)
ASSUME UnitsAssumption ==
    /\ HeartbeatEvery \in Nat /\ MinTimeout \in Nat /\ MaxTimeout \in Nat
    /\ MaxDelay \in Nat /\ MaxLosses \in Nat
    /\ MinTimeout <= MaxTimeout /\ MaxTimeout <= 2 * MinTimeout

\* The newly elected leader's first heartbeat is not later than a regular one.
ASSUME FirstBeatAssumption == MaxDelay + 1 <= HeartbeatEvery

\* How long the heartbeats of a new leader take to reach every follower.
Settling == MaxLosses * HeartbeatEvery + MaxDelay

\* 150 ms are more than the longest silence of a leader that runs.
ASSUME TimeoutAssumption == (MaxLosses + 1) * HeartbeatEvery + MaxDelay < MinTimeout

VARIABLES
    age,         \* time.Since(rf.electionResetEvent), negative in a new server
    polled,      \* followers whose ticker has run since the last tick
    leading,     \* the leader runs and is connected
    idle,        \* how long the leader's ticker has slept
    beats,       \* ages of the heartbeats on their way to each follower
    lost,        \* heartbeats lost in a row on the way to each follower
    heard,       \* followers that voted for the leader or had a heartbeat of it
    reign,       \* how long ago the leader was elected, up to Settling + 1
    silence,     \* how long nothing has been sent that could reset a timer
    campaigning  \* followers that started an election

vars == <<age, polled, leading, idle, beats, lost, heard, reign, silence, campaigning>>

TypeOK ==
    /\ age \in [Follower -> Int]
    /\ polled \subseteq Follower
    /\ leading \in BOOLEAN
    /\ idle \in 0..HeartbeatEvery
    /\ beats \in [Follower -> SUBSET (0..MaxDelay)]
    /\ lost \in [Follower -> 0..MaxLosses]
    /\ heard \subseteq Follower
    /\ reign \in 0..(Settling + 1)
    /\ silence \in Int
    /\ campaigning \subseteq Follower

-----------------------------------------------------------------------------

\* A leader was just elected: a majority voted for it and reset their timers,
\* which need not be all (votes > totalPeers/2); the others' timers are as Make,
\* an earlier heartbeat or another candidate left them.  Its ticker sends
\* heartbeats now.
Elected ==
    /\ leading = TRUE /\ idle = HeartbeatEvery
    /\ heard \in {voters \in SUBSET Follower :
                   2 * (Cardinality(voters) + 1) > Cardinality(Follower) + 1}
    /\ age \in [Follower -> (-MaxTimeout)..MaxTimeout]
    /\ \A f \in heard : age[f] \in 0..(MaxDelay + 1)
    /\ silence = 0

\* Make sets electionResetEvent 150 to 299 ms ahead; there is no leader.
Made ==
    /\ leading = FALSE /\ idle = 0
    /\ heard = {}
    /\ age \in [Follower -> (-MaxTimeout)..(-MinTimeout)]
    /\ silence = -MaxTimeout

Init ==
    /\ Elected \/ Made
    /\ polled = {}
    /\ beats = [f \in Follower |-> {}]
    /\ lost = [f \in Follower |-> 0]
    /\ reign = 0
    /\ campaigning = {}

\* The leader branch of the ticker: a heartbeat to everyone, then 50 ms of
\* sleep.  Each heartbeat is lost or on its way.
SendHeartbeats ==
    /\ leading /\ idle = HeartbeatEvery
    /\ idle' = 0
    /\ \E losers \in SUBSET {f \in Follower : lost[f] < MaxLosses} :
          /\ lost' = [f \in Follower |-> IF f \in losers THEN lost[f] + 1 ELSE 0]
          /\ beats' = [f \in Follower |-> IF f \in losers THEN beats[f] ELSE beats[f] \cup {0}]
    /\ UNCHANGED <<age, polled, leading, heard, reign, silence, campaigning>>

\* Mutant: a heartbeat of the current term does not reset the timer.
AppendEntriesNoReset(f, b) ==
    /\ beats' = [beats EXCEPT ![f] = @ \ {b}]
    /\ heard' = heard \cup {f}
    /\ UNCHANGED <<age, polled, leading, idle, lost, reign, silence, campaigning>>

\* AppendEntries with the follower's term.
AppendEntries(f, b) ==
    /\ beats' = [beats EXCEPT ![f] = @ \ {b}]
    /\ age' = [age EXCEPT ![f] = 0]
    /\ heard' = heard \cup {f}
    /\ UNCHANGED <<polled, leading, idle, lost, reign, silence, campaigning>>

StartElection(f) ==
    /\ age' = [age EXCEPT ![f] = 0]
    /\ campaigning' = campaigning \cup {f}

\* Mutant: the poll rearms the timer whether or not it has expired.
PollRearms(f) ==
    /\ f \notin polled /\ polled' = polled \cup {f}
    /\ age' = [age EXCEPT ![f] = 0]
    /\ UNCHANGED <<leading, idle, beats, lost, heard, reign, silence, campaigning>>

\* Mutant: startElection locks rf.mu, which the ticker that calls it holds.
PollLocksTwice(f) ==
    /\ f \notin polled /\ polled' = polled \cup {f}
    /\ \E timeout \in MinTimeout..MaxTimeout : age[f] < timeout
    /\ UNCHANGED <<age, leading, idle, beats, lost, heard, reign, silence, campaigning>>

\* The follower branch of the ticker: each poll draws a timeout of its own.
Poll(f) ==
    /\ f \notin polled /\ polled' = polled \cup {f}
    /\ \E timeout \in MinTimeout..MaxTimeout :
          IF age[f] >= timeout THEN StartElection(f) ELSE UNCHANGED <<age, campaigning>>
    /\ UNCHANGED <<leading, idle, beats, lost, heard, reign, silence>>

\* The leader crashes or is cut off; heartbeats on their way still arrive.
LoseLeader ==
    /\ leading /\ leading' = FALSE
    /\ silence' = 0
    /\ UNCHANGED <<age, polled, idle, beats, lost, heard, reign, campaigning>>

\* 10 ms pass: all tickers that sleep no longer have run, and no heartbeat is
\* older than the network lets it be.
Tick ==
    /\ polled = Follower /\ polled' = {}
    /\ leading => idle < HeartbeatEvery
    /\ \A f \in Follower : MaxDelay \notin beats[f]
    /\ age' = [f \in Follower |-> age[f] + 1]
    /\ idle' = IF leading THEN idle + 1 ELSE idle
    /\ beats' = [f \in Follower |-> {b + 1 : b \in beats[f]}]
    /\ reign' = IF leading /\ reign <= Settling THEN reign + 1 ELSE reign
    /\ silence' = IF leading THEN 0 ELSE silence + 1
    /\ UNCHANGED <<leading, lost, heard, campaigning>>

Next ==
    /\ campaigning = {}
    /\ \/ SendHeartbeats
       \/ \E f \in Follower : Poll(f) \/ \E b \in beats[f] : AppendEntries(f, b)
       \/ LoseLeader
       \/ Tick

\* Tickers run, heartbeats arrive or are lost, and time passes.
Fairness ==
    /\ WF_vars(campaigning = {} /\ Tick)
    /\ \A f \in Follower :
          /\ WF_vars(campaigning = {} /\ Poll(f))
          /\ WF_vars(campaigning = {} /\ \E b \in beats[f] : AppendEntries(f, b))

Spec == Init /\ [][Next]_vars /\ Fairness

-----------------------------------------------------------------------------
(* Properties *)

\* A follower that voted for a leader that runs, or had one heartbeat of it, does
\* not take over from it, although heartbeats are late and up to MaxLosses in a
\* row are lost.  One that did neither may, since its timer is old: but only in
\* the time the first heartbeat takes to reach it, after which the leader stays
\* ("does the leader+term stay the same if there is no network failure?",
\* test_test.go:39).  New servers wait for twice the shortest timeout: nobody
\* starts an election in the first 300 ms after Make, which count as negative
\* silence.
NoUsurper ==
    campaigning # {} =>
        IF leading THEN campaigning \cap heard = {} /\ reign <= Settling
        ELSE silence >= 0

\* The death of a leader is noticed: some follower starts an election before
\* MaxTimeout plus the delay of the last heartbeat has passed, far within the
\* second that the tester grants (test_test.go:18).
Detection == campaigning = {} => silence <= MaxTimeout + MaxDelay

\* Without a leader an election starts.
ElectionStarts == ~leading ~> campaigning # {}

=============================================================================
