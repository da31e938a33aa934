---------------------------- MODULE RaftElection ----------------------------
(***************************************************************************)
(* Leader election of the Raft lab, raft/raft.go.                          *)
(*                                                                         *)
(* A server is one Raft object; each action is one critical section of     *)
(* rf.mu.  Time is abstracted: a server that is not the leader may start   *)
(* an election whenever its ticker runs (module RaftTimers keeps the       *)
(* election timer).  The network is the one labrpc promises: a call is     *)
(* executed at most once and its reply is delivered at most once, late, in *)
(* any order, or never.  A lost call changes nothing in the caller (ok is  *)
(* false), so a loss is a message that stays undelivered.  Servers run one *)
(* lifetime here; module RaftRestart adds crash and restart.               *)
(***************************************************************************)
EXTENDS Integers, FiniteSets

CONSTANTS Server,    \* the peers of one cluster
          None,      \* votedFor = -1
          MaxTerm,   \* bound of the exploration: no election beyond this term
          MaxRounds  \* bound of the exploration: rounds started by all servers

ASSUME ServerAssumption == IsFiniteSet(Server) /\ None \notin Server
ASSUME BoundAssumption == MaxTerm \in Nat /\ MaxRounds \in Nat

VARIABLES currentTerm, votedFor, state,
          votes,       \* votes[i][t]: who counts in the closure of i's round t
          requests,    \* RequestVote calls on their way to the peer
          replies,     \* RequestVote replies on their way back
          heartbeats   \* <<leader, term>>s for which AppendEntries was sent

vars == <<currentTerm, votedFor, state, votes, requests, replies, heartbeats>>

Term == 0..MaxTerm
Round == 1..MaxTerm

Request == [from: Server, to: Server, term: Round]
Reply == [from: Server, to: Server, round: Round, term: Term, granted: BOOLEAN]
Heartbeat == [leader: Server, term: Term]

TypeOK ==
    /\ currentTerm \in [Server -> Term]
    /\ votedFor \in [Server -> Server \cup {None}]
    /\ state \in [Server -> {"follower", "candidate", "leader"}]
    /\ votes \in [Server -> [Round -> SUBSET Server]]
    /\ requests \subseteq Request
    /\ replies \subseteq Reply
    /\ heartbeats \subseteq Heartbeat

-----------------------------------------------------------------------------

\* c started round t: its own vote is in the round.
Campaigned(c, t) == t \in Round /\ c \in votes[c][t]

Campaigns == {ct \in Server \X Round : Campaigned(ct[1], ct[2])}

\* Mutant: votes >= totalPeers/2.
HalfIsEnough(S) == Cardinality(S) >= Cardinality(Server) \div 2

\* votes > totalPeers/2, with Go's integer division.
Majority(S) == Cardinality(S) > Cardinality(Server) \div 2

\* Mutant: the vote is cleared whatever the term.
VoteAfterForgotten(v, term) == None

\* A newer term clears the vote cast in the old one.
VoteAfter(v, term) == IF term > currentTerm[v] THEN None ELSE votedFor[v]

\* Mutant: votedFor is not looked at.
GrantsAnyone(v, m) == m.term >= currentTerm[v]

\* The call is not out of date, and at its term rf.votedFor == -1 or
\* rf.votedFor == args.CandidateID.
Grants(v, m) == m.term >= currentTerm[v] /\ VoteAfter(v, m.term) \in {None, m.from}

Larger(a, b) == IF a > b THEN a ELSE b

\* Every peer but me gets args of the round.
Invitations(i, term) == {[from |-> i, to |-> p, term |-> term] : p \in Server \ {i}}

-----------------------------------------------------------------------------

\* Make: a fresh Raft object.
Init ==
    /\ currentTerm = [i \in Server |-> 0]
    /\ votedFor = [i \in Server |-> None]
    /\ state = [i \in Server |-> "follower"]
    /\ votes = [i \in Server |-> [t \in Round |-> {}]]
    /\ requests = {} /\ replies = {} /\ heartbeats = {}

\* The ticker finds the election timer expired and runs startElection.
StartElection(i) ==
    LET term == currentTerm[i] + 1
    IN  /\ state[i] # "leader"
        /\ currentTerm[i] < MaxTerm /\ Cardinality(Campaigns) < MaxRounds
        /\ currentTerm' = [currentTerm EXCEPT ![i] = term]
        /\ state' = [state EXCEPT ![i] = "candidate"]
        /\ votedFor' = [votedFor EXCEPT ![i] = i]
        /\ votes' = [votes EXCEPT ![i][term] = {i}]
        /\ requests' = requests \cup Invitations(i, term)
        /\ UNCHANGED <<replies, heartbeats>>

\* The RequestVote handler of m.to: what it does to the server ...
CastVote(m) ==
    LET v == m.to
        term == Larger(m.term, currentTerm[v])
    IN  /\ currentTerm' = [currentTerm EXCEPT ![v] = term]
        /\ state' = [state EXCEPT ![v] = IF term > currentTerm[v] THEN "follower" ELSE @]
        /\ votedFor' = [votedFor EXCEPT ![v] = IF Grants(v, m) THEN m.from ELSE VoteAfter(v, term)]

\* ... and what it answers.
Answer(m) == [from |-> m.to, to |-> m.from, round |-> m.term,
              term |-> Larger(m.term, currentTerm[m.to]), granted |-> Grants(m.to, m)]

RequestVote(m) ==
    /\ requests' = requests \ {m}
    /\ CastVote(m)
    /\ replies' = replies \cup {Answer(m)}
    /\ UNCHANGED <<votes, heartbeats>>

\* Mutant: the goroutine takes over the term and campaigns on.
StepDownCampaignsOn(m) ==
    LET c == m.to
    IN  /\ m.term > currentTerm[c]
        /\ currentTerm' = [currentTerm EXCEPT ![c] = m.term]
        /\ votedFor' = [votedFor EXCEPT ![c] = None]
        /\ UNCHANGED <<state, votes>>

\* The vote goroutine of a round finds that the voter is ahead.
StepDown(m) ==
    LET c == m.to
    IN  /\ m.term > currentTerm[c]
        /\ currentTerm' = [currentTerm EXCEPT ![c] = m.term]
        /\ state' = [state EXCEPT ![c] = "follower"]
        /\ votedFor' = [votedFor EXCEPT ![c] = None]
        /\ UNCHANGED votes

\* The condition under which the goroutine increments votes.  currentTerm in
\* it is the term captured when the round started (m.round), not rf's.
Counts(m) == state[m.to] = "candidate" /\ m.term = m.round /\ m.granted

CountVote(m) ==
    LET c == m.to
        counted == votes[c][m.round] \cup {m.from}
    IN  /\ m.term <= currentTerm[c]
        /\ Counts(m)
        /\ votes' = [votes EXCEPT ![c][m.round] = counted]
        /\ state' = [state EXCEPT ![c] = IF Majority(counted) THEN "leader" ELSE @]
        /\ UNCHANGED <<currentTerm, votedFor>>

DiscardReply(m) ==
    /\ m.term <= currentTerm[m.to]
    /\ ~Counts(m)
    /\ UNCHANGED <<currentTerm, state, votedFor, votes>>

\* The goroutine of startElection after sendRequestVote returned true.
HandleVoteReply(m) ==
    /\ replies' = replies \ {m}
    /\ StepDown(m) \/ CountVote(m) \/ DiscardReply(m)
    /\ UNCHANGED <<requests, heartbeats>>

\* The leader branch of the ticker.  It repeats every 50 ms, so any number of
\* copies of one heartbeat may be on their way: a sent one stays available.
SendHeartbeats(i) ==
    /\ state[i] = "leader"
    /\ heartbeats' = heartbeats \cup {[leader |-> i, term |-> currentTerm[i]]}
    /\ UNCHANGED <<currentTerm, votedFor, state, votes, requests, replies>>

\* The AppendEntries handler of v.  A heartbeat of an older term changes
\* nothing, and the ticker ignores every reply.
AppendEntries(h, v) ==
    /\ v # h.leader
    /\ h.term >= currentTerm[v]
    /\ currentTerm' = [currentTerm EXCEPT ![v] = h.term]
    /\ votedFor' = [votedFor EXCEPT ![v] = VoteAfter(v, h.term)]
    /\ state' = [state EXCEPT ![v] = "follower"]
    /\ UNCHANGED <<votes, requests, replies, heartbeats>>

Next ==
    \/ \E i \in Server : StartElection(i)
    \/ \E m \in requests : RequestVote(m)
    \/ \E m \in replies : HandleVoteReply(m)
    \/ \E i \in Server : SendHeartbeats(i)
    \/ \E h \in heartbeats, v \in Server : AppendEntries(h, v)

Spec == Init /\ [][Next]_vars

-----------------------------------------------------------------------------
(* Properties *)

\* v gave its vote of round t to c: the grant is on its way or counted.
Pledged(v, c, t) ==
    \/ v \in votes[c][t]
    \/ \E m \in replies : m.from = v /\ m.to = c /\ m.round = t /\ m.granted

\* A server never gives two candidates its vote of one term, whatever resets
\* of votedFor in RequestVote, AppendEntries and the vote goroutine come
\* between the two requests.
VoteOnce ==
    \A v, c, d \in Server, t \in Round : Pledged(v, c, t) /\ Pledged(v, d, t) => c = d

\* What a server remembers of the votes it gave: it is not behind the term of
\* any of them, and votedFor still names the candidate while the term lasts.
PledgeRemembered ==
    \A v, c \in Server, t \in Round :
        Pledged(v, c, t) => t <= currentTerm[v] /\ (t = currentTerm[v] => votedFor[v] = c)

\* At most one server collects a majority in the votes variable of a round.
OneWinnerPerRound ==
    \A c, d \in Server, t \in Round : Majority(votes[c][t]) /\ Majority(votes[d][t]) => c = d

\* A leader has a majority in a round of its own that is not after its term.
LeaderHasMajority ==
    \A i \in Server :
        state[i] = "leader" => \E t \in Round : t <= currentTerm[i] /\ Majority(votes[i][t])

\* Two leaders of one term that were both elected in that term's round are one
\* and the same: what is left of election safety in spite of stale votes.
FreshLeadersAgree ==
    \A i, j \in Server :
        /\ state[i] = "leader" /\ state[j] = "leader" /\ currentTerm[i] = currentTerm[j]
        /\ Majority(votes[i][currentTerm[i]]) /\ Majority(votes[j][currentTerm[j]])
        => i = j

\* A candidate or leader is in a term it started itself and holds its own vote
\* in it: whatever moves its term also makes it a follower.
CampaignersOwnTheirTerm ==
    \A i \in Server :
        state[i] # "follower" => votedFor[i] = i /\ Campaigned(i, currentTerm[i])

\* No term comes from nowhere: a term that a server or a message has reached was
\* started by a candidate; a request, a reply and a vote belong to a round their
\* candidate started, and a heartbeat carries a term its leader started.
TermsAreCampaigned ==
    /\ \A i \in Server : currentTerm[i] > 0 => \E c \in Server : Campaigned(c, currentTerm[i])
    /\ \A c \in Server, t \in Round : votes[c][t] # {} => Campaigned(c, t)
    /\ \A m \in requests : Campaigned(m.from, m.term)
    /\ \A m \in replies : /\ Campaigned(m.to, m.round)
                          /\ \E c \in Server : Campaigned(c, m.term)
    /\ \A h \in heartbeats : Campaigned(h.leader, h.term)

VotesKept ==
    \A i \in Server :
        /\ currentTerm'[i] >= currentTerm[i]
        /\ currentTerm'[i] = currentTerm[i] /\ votedFor[i] # None => votedFor'[i] = votedFor[i]

\* No step takes a server back to an older term, or changes or withdraws a vote
\* within a term (RequestVote, AppendEntries and the vote goroutine all write
\* votedFor).
VotesAreFinal == [][VotesKept]_vars

\* What checkOneLeader asserts: a term has at most one leader.
ElectionSafety ==
    \A i, j \in Server :
        state[i] = "leader" /\ state[j] = "leader" /\ currentTerm[i] = currentTerm[j] => i = j

\* The winner of a round, as the abstract election sees it.
Elected(t) == {c \in Server : Majority(votes[c][t])}
Winner == [t \in Round |-> IF Elected(t) = {} THEN None ELSE CHOOSE c \in Elected(t) : TRUE]

\* The rounds of raft.go implement the abstract election.
Election == INSTANCE LeaderElection WITH winner <- Winner
ImplementsElection == Election!Spec

=============================================================================
