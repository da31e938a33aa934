----------------------------- MODULE RaftRestart -----------------------------
(***************************************************************************)
(* Raft election under the crashes and restarts of the test harness        *)
(* (raft/config.go: crash1, start1, connect).  A crash cuts the server off *)
(* and kills its Raft object; a restart makes a new one with Make.         *)
(* persist() writes nothing, so the new object starts from nothing.        *)
(***************************************************************************)
EXTENDS RaftElection

CONSTANT MaxRestarted   \* bound of the exploration: servers that are restarted,
                        \* each of them any number of times

ASSUME MaxRestartedAssumption == MaxRestarted \in Nat

VARIABLES up,           \* servers whose Raft object runs and is connected
          restarted,    \* servers that were restarted and forgot what they knew
          orphans       \* requests still on their way whose sender has crashed

life == <<up, restarted, orphans>>
allVars == <<vars, life>>

RestartTypeOK ==
    /\ TypeOK
    /\ up \subseteq Server
    /\ restarted \subseteq Server
    /\ orphans \subseteq Request

-----------------------------------------------------------------------------

RestartInit ==
    /\ Init
    /\ up = Server
    /\ restarted = {}
    /\ orphans = {}

\* crash1: replies the dead object waits for reach nobody; its requests that
\* are under way still reach the voters.
Crash(i) ==
    /\ i \in up
    /\ up' = up \ {i}
    /\ orphans' = orphans \cup {m \in requests : m.from = i}
    /\ requests' = {m \in requests : m.from # i}
    /\ replies' = {m \in replies : m.to # i}
    /\ UNCHANGED <<currentTerm, votedFor, state, votes, heartbeats, restarted>>

\* start1 and connect: Make, and readPersist of a state nobody saved.
Restart(i) ==
    /\ i \notin up
    /\ Cardinality(restarted \cup {i}) <= MaxRestarted
    /\ up' = up \cup {i}
    /\ restarted' = restarted \cup {i}
    /\ currentTerm' = [currentTerm EXCEPT ![i] = 0]
    /\ votedFor' = [votedFor EXCEPT ![i] = None]
    /\ state' = [state EXCEPT ![i] = "follower"]
    /\ votes' = [votes EXCEPT ![i] = [t \in Round |-> {}]]
    /\ UNCHANGED <<requests, replies, heartbeats, orphans>>

\* A voter handles the request of a dead object; its answer is lost.
RequestVoteOfTheDead(m) ==
    /\ m.to \in up
    /\ orphans' = orphans \ {m}
    /\ CastVote(m)
    /\ UNCHANGED <<votes, requests, replies, heartbeats, up, restarted>>

Running ==
    \/ \E i \in up : StartElection(i) \/ SendHeartbeats(i)
    \/ \E m \in requests : m.to \in up /\ RequestVote(m)
    \/ \E m \in replies : HandleVoteReply(m)
    \/ \E h \in heartbeats, v \in up : AppendEntries(h, v)

RestartNext ==
    \/ Running /\ UNCHANGED life
    \/ \E i \in Server : Crash(i) \/ Restart(i)
    \/ \E m \in orphans : RequestVoteOfTheDead(m)

RestartSpec == RestartInit /\ [][RestartNext]_allVars

-----------------------------------------------------------------------------
(* Properties *)

Steady(v) == v \notin restarted

\* A server that was never restarted remembers the votes it gave, even to a
\* candidate that has crashed since.
SteadyVotersRemember ==
    \A v, c \in Server, t \in Round :
        Steady(v) /\ Pledged(v, c, t)
        => t <= currentTerm[v] /\ (t = currentTerm[v] => votedFor[v] = c)

\* Two winners of one round share a voter that was restarted: forgetting votes is
\* the only way to a double win, a crash alone is none.
DoubleWinnersShareAForgetter ==
    \A c, d \in Server, t \in Round :
        Majority(votes[c][t]) /\ Majority(votes[d][t]) /\ c # d
        => \E v \in votes[c][t] \cap votes[d][t] : ~Steady(v)

=============================================================================
