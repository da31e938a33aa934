------------------------- MODULE RaftProofs -------------------------
(***************************************************************************)
(* Proofs about RaftElection and RaftRestart, for every Server, None and   *)
(* all bounds.  The argument about the votes is made once, for one voter:  *)
(* a step in which it votes honestly keeps its promises (PromisesKept).    *)
(* Every critical section of raft.go is such a step for everybody; with    *)
(* restarts every step is one for those that were never restarted.         *)
(***************************************************************************)
EXTENDS RaftRestart, FiniteSetTheorems, TLAPS

\* Two majorities of the cluster have a server in common.
LEMMA MajoritiesMeet ==
    ASSUME NEW S \in SUBSET Server, NEW T \in SUBSET Server, Majority(S), Majority(T)
    PROVE  S \cap T # {}
<1>1. /\ Cardinality(S) \in Nat
      /\ Cardinality(T) \in Nat
      /\ Cardinality(Server) \in Nat
  BY ServerAssumption, FS_Subset, FS_CardinalityType
<1>2. Cardinality(S) + Cardinality(T) > Cardinality(Server)
  BY <1>1 DEF Majority
<1>. QED
  BY <1>2, ServerAssumption, FS_MajoritiesIntersect

\* Nobody is no majority.
LEMMA NoMajorityOfNobody == ~ Majority({})
<1>1. Cardinality(Server) \in Nat /\ Cardinality({}) = 0
  BY ServerAssumption, FS_CardinalityType, FS_EmptySet
<1>. QED
  BY <1>1 DEF Majority

\* One vote more leaves a majority a majority.
LEMMA MajorityGrows ==
    ASSUME NEW S \in SUBSET Server, NEW v \in Server, Majority(S)
    PROVE  Majority(S \cup {v})
<1>1. IsFiniteSet(S) /\ Cardinality(S) \in Nat /\ Cardinality(Server) \in Nat
  BY ServerAssumption, FS_Subset, FS_CardinalityType
<1>2. Cardinality(S \cup {v}) \in {Cardinality(S), Cardinality(S) + 1}
  BY <1>1, FS_AddElement
<1>. QED
  BY <1>1, <1>2 DEF Majority

\* A term is a natural number, and the next round of a server below the bound
\* is a round.
LEMMA Terms ==
    /\ Term \subseteq Nat /\ Round \subseteq Term
    /\ \A t \in Term : t < MaxTerm => t + 1 \in Round
    /\ \A t, u \in Term : Larger(t, u) \in Term
    /\ \A t \in Round, u \in Term : Larger(t, u) \in Round
BY BoundAssumption DEF Term, Round, Larger

-----------------------------------------------------------------------------

\* A handled request moves its voter to a term and leaves it a vote.
LEMMA CastVoteTypes ==
    ASSUME TypeOK, NEW m \in Request, CastVote(m)
    PROVE  /\ currentTerm' \in [Server -> Term]
           /\ votedFor' \in [Server -> Server \cup {None}]
           /\ state' \in [Server -> {"follower", "candidate", "leader"}]
<1>1. m.from \in Server /\ m.to \in Server /\ m.term \in Round
  BY DEF Request
<1>2. Larger(m.term, currentTerm[m.to]) \in Term
  BY <1>1, Terms DEF TypeOK
<1>. QED
  BY <1>1, <1>2 DEF CastVote, VoteAfter, TypeOK

\* Every variable keeps its type through every critical section of raft.go.
LEMMA NextKeepsTypes ==
    ASSUME TypeOK, [Next]_vars
    PROVE  TypeOK'
<1>. USE DEF TypeOK
<1>1. ASSUME NEW i \in Server, StartElection(i)
      PROVE  TypeOK'
  <2>. DEFINE term == currentTerm[i] + 1
  <2>1. term \in Round
    BY <1>1, Terms DEF StartElection
  <2>2. Invitations(i, term) \subseteq Request
    BY <2>1 DEF Invitations, Request
  <2>. QED
    BY <1>1, <2>1, <2>2, Terms DEF StartElection
<1>2. ASSUME NEW m \in requests, RequestVote(m)
      PROVE  TypeOK'
  <2>1. m \in Request /\ m.from \in Server /\ m.to \in Server /\ m.term \in Round
    BY DEF Request
  <2>2. Larger(m.term, currentTerm[m.to]) \in Term /\ Grants(m.to, m) \in BOOLEAN
    BY <2>1, Terms DEF Grants
  <2>. DEFINE answer == [from |-> m.to, to |-> m.from, round |-> m.term,
                         term |-> Larger(m.term, currentTerm[m.to]),
                         granted |-> Grants(m.to, m)]
  <2>3. answer \in Reply
    BY <2>1, <2>2, Zenon DEF Reply
  <2>4. CastVote(m) /\ replies' = replies \cup {answer}
    BY <1>2, Zenon DEF RequestVote, Answer
  <2>. QED
    BY <1>2, <2>1, <2>3, <2>4, CastVoteTypes DEF RequestVote
<1>3. ASSUME NEW m \in replies, HandleVoteReply(m)
      PROVE  TypeOK'
  <2>1. m.from \in Server /\ m.to \in Server /\ m.term \in Term /\ m.round \in Round
    BY DEF Reply
  <2>2. /\ replies' \subseteq Reply
        /\ UNCHANGED <<requests, heartbeats>>
    BY <1>3 DEF HandleVoteReply
  <2>3. CASE StepDown(m)
    BY <2>1, <2>2, <2>3 DEF StepDown
  <2>4. CASE CountVote(m)
    <3>1. votes[m.to][m.round] \cup {m.from} \in SUBSET Server
      BY <2>1
    <3>2. votes' \in [Server -> [Round -> SUBSET Server]]
      BY <2>1, <2>4, <3>1 DEF CountVote
    <3>. QED
      BY <2>1, <2>2, <2>4, <3>2 DEF CountVote
  <2>5. CASE DiscardReply(m)
    BY <2>2, <2>5 DEF DiscardReply
  <2>. QED
    BY <1>3, <2>3, <2>4, <2>5 DEF HandleVoteReply
<1>4. ASSUME NEW i \in Server, SendHeartbeats(i)
      PROVE  TypeOK'
  BY <1>4 DEF SendHeartbeats, Heartbeat
<1>5. ASSUME NEW h \in heartbeats, NEW v \in Server, AppendEntries(h, v)
      PROVE  TypeOK'
  BY <1>5 DEF AppendEntries, VoteAfter, Heartbeat
<1>6. CASE UNCHANGED vars
  BY <1>6 DEF vars
<1>. QED
  BY <1>1, <1>2, <1>3, <1>4, <1>5, <1>6 DEF Next

\* The state of a fresh cluster is well typed.
LEMMA InitTypes == Init => TypeOK
BY Terms, BoundAssumption DEF Init, TypeOK, Term

\* Every variable of the Raft objects has its type, always.
THEOREM TypeCorrect == Spec => []TypeOK
<1>1. TypeOK /\ [Next]_vars => TypeOK'
  BY NextKeepsTypes
<1>. QED
  BY <1>1, InitTypes, PTL DEF Spec

-----------------------------------------------------------------------------

\* A request makes its voter forget no vote of the term it stays in.
LEMMA CastVoteKeepsVotes ==
    ASSUME TypeOK, NEW m \in Request, CastVote(m)
    PROVE  VotesKept
<1>1. m.to \in Server /\ m.term \in Int /\ \A w \in Server : currentTerm[w] \in Int
  BY DEF TypeOK, Request, Round, Term
<1>. QED
  BY <1>1 DEF VotesKept, CastVote, Larger, Grants, VoteAfter, TypeOK

\* No critical section takes a server back, or withdraws a vote in its term.
LEMMA NextKeepsVotes ==
    ASSUME TypeOK, [Next]_vars
    PROVE  VotesKept
<1>0. \A w \in Server : currentTerm[w] \in Int
  BY DEF TypeOK, Term
<1>1. ASSUME NEW i \in Server, StartElection(i)
      PROVE  VotesKept
  BY <1>0, <1>1 DEF StartElection, VotesKept, TypeOK
<1>2. ASSUME NEW m \in requests, RequestVote(m)
      PROVE  VotesKept
  BY <1>2, CastVoteKeepsVotes DEF RequestVote, TypeOK
<1>3. ASSUME NEW m \in replies, HandleVoteReply(m)
      PROVE  VotesKept
  <2>1. m.to \in Server /\ m.term \in Int
    BY DEF TypeOK, Reply, Term
  <2>. QED
    BY <1>0, <1>3, <2>1 DEF VotesKept, HandleVoteReply, StepDown, CountVote, DiscardReply, TypeOK
<1>4. ASSUME NEW i \in Server, SendHeartbeats(i)
      PROVE  VotesKept
  BY <1>0, <1>4 DEF VotesKept, SendHeartbeats
<1>5. ASSUME NEW h \in heartbeats, NEW w \in Server, AppendEntries(h, w)
      PROVE  VotesKept
  <2>1. h.term \in Int
    BY DEF TypeOK, Heartbeat, Term
  <2>. QED
    BY <1>0, <1>5, <2>1 DEF VotesKept, AppendEntries, VoteAfter, TypeOK
<1>6. CASE UNCHANGED vars
  BY <1>0, <1>6 DEF VotesKept, vars
<1>. QED
  BY <1>1, <1>2, <1>3, <1>4, <1>5, <1>6 DEF Next

\* Terms only grow, and a vote is final for its term.
THEOREM FinalVotes == Spec => VotesAreFinal
<1>1. TypeOK /\ [Next]_vars => [VotesKept]_vars
  BY NextKeepsVotes
<1>. QED
  BY <1>1, TypeCorrect, PTL DEF Spec, VotesAreFinal

-----------------------------------------------------------------------------

\* A pledge that a step adds is the vote the voter is left with.
NewPledgesAreVotes ==
    \A v, c \in Server, t \in Round :
        Pledged(v, c, t)' => Pledged(v, c, t) \/ (t = currentTerm'[v] /\ votedFor'[v] = c)

\* Every vote is given by the voter itself, in the term of the round: by
\* starting the round or by granting its request; counting a vote adds none.
LEMMA NextPledges ==
    ASSUME TypeOK, [Next]_vars
    PROVE  NewPledgesAreVotes
<1>0. \A v \in Server : currentTerm[v] \in Int
  BY DEF TypeOK, Term
<1>1. ASSUME NEW i \in Server, StartElection(i)
      PROVE  NewPledgesAreVotes
  BY <1>1 DEF StartElection, NewPledgesAreVotes, Pledged, TypeOK
<1>2. ASSUME NEW m \in requests, RequestVote(m)
      PROVE  NewPledgesAreVotes
  <2>1. m.to \in Server /\ m.term \in Int
    BY DEF TypeOK, Request, Round
  <2>2. \A v, c \in Server, t \in Round :
           Pledged(v, c, t)' => \/ Pledged(v, c, t)
                                \/ Grants(m.to, m) /\ v = m.to /\ c = m.from /\ t = m.term
    BY <1>2 DEF RequestVote, Answer, Pledged
  <2>3. Grants(m.to, m) => currentTerm'[m.to] = m.term /\ votedFor'[m.to] = m.from
    <3>1. Grants(m.to, m) => Larger(m.term, currentTerm[m.to]) = m.term
      BY <1>0, <2>1 DEF Grants, Larger
    <3>2. /\ currentTerm' = [currentTerm EXCEPT ![m.to] = Larger(m.term, currentTerm[m.to])]
          /\ Grants(m.to, m) => votedFor' = [votedFor EXCEPT ![m.to] = m.from]
      BY <1>2 DEF RequestVote, CastVote
    <3>. QED
      BY <2>1, <3>1, <3>2 DEF TypeOK
  <2>. QED
    BY <2>2, <2>3 DEF NewPledgesAreVotes
<1>3. ASSUME NEW m \in replies, HandleVoteReply(m)
      PROVE  NewPledgesAreVotes
  <2>1. m.from \in Server /\ m.to \in Server /\ m.round \in Round
    BY DEF TypeOK, Reply
  <2>2. CASE CountVote(m)
    <3>1. Pledged(m.from, m.to, m.round)
      BY <2>2 DEF CountVote, Counts, Pledged
    <3>2. \A v, c \in Server, t \in Round :
             v \in votes'[c][t] => v \in votes[c][t] \/ (v = m.from /\ c = m.to /\ t = m.round)
      BY <2>1, <2>2 DEF CountVote, TypeOK
    <3>. QED
      BY <1>3, <3>1, <3>2 DEF HandleVoteReply, NewPledgesAreVotes, Pledged
  <2>3. CASE UNCHANGED votes
    BY <1>3, <2>3 DEF HandleVoteReply, NewPledgesAreVotes, Pledged
  <2>. QED
    BY <1>3, <2>2, <2>3 DEF HandleVoteReply, StepDown, DiscardReply
<1>4. CASE UNCHANGED <<votes, replies>>
  BY <1>4 DEF NewPledgesAreVotes, Pledged
<1>. QED
  BY <1>1, <1>2, <1>3, <1>4 DEF Next, SendHeartbeats, AppendEntries, vars

\* What voter v knows of its pledges, and that it gave one only in each round.
KeepsPromises(v) ==
    /\ \A c \in Server, t \in Round :
          Pledged(v, c, t) => t <= currentTerm[v] /\ (t = currentTerm[v] => votedFor[v] = c)
    /\ \A c, d \in Server, t \in Round : Pledged(v, c, t) /\ Pledged(v, d, t) => c = d

\* v is not taken back, keeps its vote while its term lasts, and gives no pledge
\* but that vote.
VotesHonestly(v) ==
    /\ currentTerm'[v] >= currentTerm[v]
    /\ currentTerm'[v] = currentTerm[v] /\ votedFor[v] # None => votedFor'[v] = votedFor[v]
    /\ \A c \in Server, t \in Round :
          Pledged(v, c, t)' => Pledged(v, c, t) \/ (t = currentTerm'[v] /\ votedFor'[v] = c)

\* Every critical section is such a step, for every voter.
LEMMA NextIsHonest ==
    ASSUME TypeOK, [Next]_vars
    PROVE  \A v \in Server : VotesHonestly(v)
BY NextKeepsVotes, NextPledges DEF VotesKept, NewPledgesAreVotes, VotesHonestly

\* Such a step keeps the promises of the voter.
LEMMA PromisesKept ==
    ASSUME TypeOK, TypeOK', NEW v \in Server, KeepsPromises(v), VotesHonestly(v)
    PROVE  KeepsPromises(v)'
<1>1. Round \subseteq Int /\ currentTerm[v] \in Int /\ currentTerm'[v] \in Int
  BY DEF TypeOK, Term, Round
<1>2. ASSUME NEW c \in Server, NEW t \in Round, Pledged(v, c, t)'
      PROVE  t <= currentTerm'[v] /\ (t = currentTerm'[v] => votedFor'[v] = c)
  <2>1. CASE Pledged(v, c, t)
    BY <1>1, <2>1, ServerAssumption DEF KeepsPromises, VotesHonestly
  <2>. QED
    BY <1>1, <1>2, <2>1 DEF VotesHonestly
<1>3. ASSUME NEW c \in Server, NEW d \in Server, NEW t \in Round, Pledged(v, c, t)', Pledged(v, d, t)'
      PROVE  c = d
  BY <1>2, <1>3 DEF KeepsPromises, VotesHonestly
<1>. QED
  BY <1>2, <1>3 DEF KeepsPromises

\* The promises of all voters, inductive together.
VoteInv == TypeOK /\ PledgeRemembered /\ VoteOnce

LEMMA VoteInvIsPromises == VoteInv <=> TypeOK /\ \A v \in Server : KeepsPromises(v)
BY DEF VoteInv, PledgeRemembered, VoteOnce, KeepsPromises

\* The promises of the voters are an inductive invariant.
THEOREM VotesAreOnce == Spec => []VoteInv
<1>1. Init => VoteInv
  <2>1. Init => \A v, c \in Server, t \in Round : ~ Pledged(v, c, t)
    BY DEF Init, Pledged
  <2>. QED
    BY <2>1, InitTypes DEF VoteInv, PledgeRemembered, VoteOnce
<1>2. VoteInv /\ [Next]_vars => VoteInv'
  <2>. SUFFICES ASSUME VoteInv, [Next]_vars
                PROVE  TypeOK' /\ \A v \in Server : KeepsPromises(v)'
    BY DEF VoteInv, PledgeRemembered, VoteOnce, KeepsPromises
  <2>1. TypeOK /\ TypeOK'
    BY NextKeepsTypes DEF VoteInv
  <2>2. \A v \in Server : KeepsPromises(v)'
    BY <2>1, VoteInvIsPromises, NextIsHonest, PromisesKept
  <2>. QED
    BY <2>1, <2>2
<1>. QED
  BY <1>1, <1>2, PTL DEF Spec

\* A round has at most one winner, whatever stale votes do to the leaders: two
\* majorities share a voter, and the voter pledged its vote once.
THEOREM OneWinner == Spec => []OneWinnerPerRound
<1>1. VoteInv => OneWinnerPerRound
  <2> SUFFICES ASSUME VoteInv, NEW c \in Server, NEW d \in Server, NEW t \in Round,
                      Majority(votes[c][t]), Majority(votes[d][t])
               PROVE  c = d
    BY DEF OneWinnerPerRound
  <2>1. votes[c][t] \in SUBSET Server /\ votes[d][t] \in SUBSET Server
    BY DEF VoteInv, TypeOK
  <2>2. PICK v \in Server : v \in votes[c][t] /\ v \in votes[d][t]
    BY <2>1, MajoritiesMeet
  <2>. QED
    BY <2>2 DEF VoteInv, VoteOnce, Pledged
<1>. QED
  BY <1>1, VotesAreOnce, PTL

-----------------------------------------------------------------------------

CampaignInv == TypeOK /\ CampaignersOwnTheirTerm /\ TermsAreCampaigned

CampaignStep == CampaignersOwnTheirTerm' /\ TermsAreCampaigned'

\* Somebody started term t.
Started(t) == \E c \in Server : Campaigned(c, t)

\* What TermsAreCampaigned says of one message.
RequestOK(m) == Campaigned(m.from, m.term)
ReplyOK(m) == Campaigned(m.to, m.round) /\ Started(m.term)
HeartbeatOK(h) == Campaigned(h.leader, h.term)

\* A campaign is never undone.
LEMMA CampaignsStay ==
    ASSUME TypeOK, Next
    PROVE  \A c \in Server, t \in Int : Campaigned(c, t) => Campaigned(c, t)'
<1>1. ASSUME NEW i \in Server, StartElection(i), NEW c \in Server, NEW t \in Int, Campaigned(c, t)
      PROVE  Campaigned(c, t)'
  <2>1. currentTerm[i] + 1 \in Round
    BY <1>1, Terms DEF StartElection, TypeOK
  <2>. QED
    BY <1>1, <2>1 DEF StartElection, Campaigned, TypeOK
<1>2. ASSUME NEW m \in replies, HandleVoteReply(m), NEW c \in Server, NEW t \in Int, Campaigned(c, t)
      PROVE  Campaigned(c, t)'
  <2>1. m.to \in Server /\ m.round \in Round
    BY DEF TypeOK, Reply
  <2>. QED
    BY <1>2, <2>1 DEF HandleVoteReply, StepDown, CountVote, DiscardReply, Campaigned, TypeOK
<1>3. CASE UNCHANGED votes
  BY <1>3 DEF Campaigned
<1>. QED
  BY <1>1, <1>2, <1>3 DEF Next, RequestVote, SendHeartbeats, AppendEntries

\* Candidates and leaders are in a term they started, and every term and round
\* in use was started by a candidate.
THEOREM Campaigning == Spec => []CampaignInv
<1>1. Init => CampaignInv
  <2>1. Init => TypeOK
    BY Terms, BoundAssumption DEF Init, TypeOK, Term
  <2>2. Init => CampaignersOwnTheirTerm /\ TermsAreCampaigned
    BY BoundAssumption DEF Init, CampaignersOwnTheirTerm, TermsAreCampaigned
  <2>. QED
    BY <2>1, <2>2 DEF CampaignInv
<1>2. TypeOK' /\ CampaignInv /\ [Next]_vars => CampaignInv'
  <2>. SUFFICES ASSUME TypeOK', CampaignInv, Next
                PROVE  CampaignStep
    BY DEF CampaignInv, vars, CampaignersOwnTheirTerm, TermsAreCampaigned, Campaigned,
           CampaignStep
  <2>0. /\ TypeOK
        /\ Round \subseteq Int /\ Term \subseteq Int
        /\ \A v \in Server : currentTerm[v] \in Int /\ currentTerm'[v] \in Int
        /\ \A c \in Server, t \in Int : Campaigned(c, t) => Campaigned(c, t)'
        /\ \A t \in Int : Started(t) => Started(t)'
    BY CampaignsStay DEF CampaignInv, TypeOK, Term, Round, Started
  <2>a. /\ \A m \in requests : RequestOK(m)'
        /\ \A m \in replies : ReplyOK(m)'
        /\ \A h \in heartbeats : HeartbeatOK(h)'
    BY <2>0 DEF CampaignInv, TermsAreCampaigned, RequestOK, ReplyOK, HeartbeatOK, Started,
                TypeOK, Request, Reply, Heartbeat
  <2>b. \A v \in Server, t \in Int : t = currentTerm[v] /\ t > 0 => Started(t)'
    BY <2>0 DEF CampaignInv, TermsAreCampaigned, Started
  <2>c. \A c \in Server, t \in Round : votes[c][t] # {} => Campaigned(c, t)'
    BY <2>0 DEF CampaignInv, TermsAreCampaigned
  <2>d. \A v \in Server : state[v] # "follower" => votedFor[v] = v
    BY DEF CampaignInv, CampaignersOwnTheirTerm
  <2>e. \A v \in Server, t \in Int :
           state[v] # "follower" /\ t = currentTerm[v] => Campaigned(v, t)'
    BY <2>0 DEF CampaignInv, CampaignersOwnTheirTerm
  <2>f. ASSUME /\ \A m \in requests' : RequestOK(m)'
               /\ \A m \in replies' : ReplyOK(m)'
               /\ \A h \in heartbeats' : HeartbeatOK(h)'
               /\ \A v \in Server, t \in Int : t = currentTerm'[v] /\ t > 0 => Started(t)'
               /\ \A c \in Server, t \in Round : votes'[c][t] # {} => Campaigned(c, t)'
        PROVE  TermsAreCampaigned'
    BY <2>0, <2>f DEF TermsAreCampaigned, RequestOK, ReplyOK, HeartbeatOK, Started
  <2>g. ASSUME \A v \in Server, t \in Int :
                  state'[v] # "follower" /\ t = currentTerm'[v]
                  => votedFor'[v] = v /\ Campaigned(v, t)'
        PROVE  CampaignersOwnTheirTerm'
    BY <2>0, <2>g DEF CampaignersOwnTheirTerm
  <2>1. ASSUME NEW i \in Server, StartElection(i)
        PROVE  CampaignStep
    <3>1. PICK term \in Round : term = currentTerm[i] + 1
      BY <2>0, <2>1, Terms DEF StartElection, TypeOK
    <3>2. /\ votes' = [votes EXCEPT ![i][term] = {i}]
          /\ currentTerm' = [currentTerm EXCEPT ![i] = term]
          /\ requests' = requests \cup Invitations(i, term)
      BY <2>1, <3>1 DEF StartElection
    <3>3. Campaigned(i, term)'
      BY <2>0, <3>1, <3>2 DEF Campaigned, TypeOK
    <3>4. CampaignersOwnTheirTerm'
      BY <2>0, <2>1, <2>d, <2>e, <2>g, <3>2, <3>3 DEF StartElection, TypeOK
    <3>5. \A m \in requests' : RequestOK(m)'
      BY <2>a, <3>2, <3>3 DEF Invitations, RequestOK
    <3>6. \A v \in Server, t \in Int : t = currentTerm'[v] /\ t > 0 => Started(t)'
      BY <2>0, <2>b, <3>2, <3>3 DEF Started, TypeOK
    <3>7. \A c \in Server, t \in Round : votes'[c][t] # {} => Campaigned(c, t)'
      BY <2>0, <2>c, <3>1, <3>2, <3>3 DEF TypeOK
    <3>. QED
      BY <2>1, <2>a, <2>f, <3>4, <3>5, <3>6, <3>7 DEF StartElection, CampaignStep
  <2>2. ASSUME NEW m \in requests, RequestVote(m)
        PROVE  CampaignStep
    <3>. DEFINE term == Larger(m.term, currentTerm[m.to])
                answer == [from |-> m.to, to |-> m.from, round |-> m.term, term |-> term,
                           granted |-> Grants(m.to, m)]
    <3>1. m.from \in Server /\ m.to \in Server /\ m.term \in Round /\ term \in Int
      BY <2>0 DEF TypeOK, Request, Larger
    <3>2. \A t \in Int : t = term => t > 0 /\ Started(t)'
      BY <2>0, <2>a, <2>b, <3>1 DEF RequestOK, Started, Larger, Round
    <3>a. PICK a : a = answer
      OBVIOUS
    <3>3. /\ replies' = replies \cup {a}
          /\ requests' = requests \ {m}
          /\ currentTerm' = [currentTerm EXCEPT ![m.to] = term]
          /\ UNCHANGED <<votes, heartbeats>>
      BY <2>2, <3>a, Zenon DEF RequestVote, CastVote, Answer
    <3>4. ReplyOK(a)'
      <4>1. a.to = m.from /\ a.round = m.term /\ a.term = term
        BY <3>a
      <4>. QED
        BY <2>a, <3>1, <3>2, <4>1 DEF RequestOK, ReplyOK
    <3>5. CampaignersOwnTheirTerm'
      BY <2>0, <2>2, <2>d, <2>e, <2>g, <3>1, ServerAssumption
         DEF RequestVote, CastVote, Larger, VoteAfter, Grants, TypeOK
    <3>6. \A v \in Server, t \in Int : t = currentTerm'[v] /\ t > 0 => Started(t)'
      BY <2>0, <2>b, <3>1, <3>2, <3>3 DEF TypeOK
    <3>. QED
      BY <2>a, <2>c, <2>f, <3>3, <3>4, <3>5, <3>6 DEF CampaignStep
  <2>3. ASSUME NEW m \in replies, HandleVoteReply(m)
        PROVE  CampaignStep
    <3>1. m.to \in Server /\ m.round \in Round /\ m.term \in Int /\ m.round \in Int
      BY <2>0 DEF TypeOK, Reply
    <3>2. Campaigned(m.to, m.round)' /\ Started(m.term)'
      BY <2>a DEF ReplyOK
    <3>3. CampaignersOwnTheirTerm'
      BY <2>0, <2>3, <2>d, <2>e, <2>g, <3>1
         DEF HandleVoteReply, StepDown, CountVote, DiscardReply, Counts, TypeOK
    <3>4. \A v \in Server, t \in Int : t = currentTerm'[v] /\ t > 0 => Started(t)'
      BY <2>0, <2>3, <2>b, <3>1, <3>2
         DEF HandleVoteReply, StepDown, CountVote, DiscardReply, TypeOK
    <3>5. \A c \in Server, t \in Round : votes'[c][t] # {} => Campaigned(c, t)'
      <4>1. votes' = votes \/ \E counted : votes' = [votes EXCEPT ![m.to][m.round] = counted]
        BY <2>3, Zenon DEF HandleVoteReply, StepDown, CountVote, DiscardReply
      <4>2. \A c \in Server, t \in Round : votes'[c][t] = votes[c][t] \/ (c = m.to /\ t = m.round)
        <5>1. votes = [c \in Server |-> votes[c]] /\ \A c \in Server : votes[c] = [t \in Round |-> votes[c][t]]
          BY <2>0 DEF TypeOK
        <5>2. CASE votes' = votes
          BY <5>2
        <5>3. ASSUME NEW counted, votes' = [votes EXCEPT ![m.to][m.round] = counted]
              PROVE  \A c \in Server, t \in Round : votes'[c][t] = votes[c][t] \/ (c = m.to /\ t = m.round)
          BY <5>1, <5>3
        <5>. QED
          BY <4>1, <5>2, <5>3
      <4>. QED
        BY <2>c, <3>2, <4>2
    <3>. QED
      BY <2>3, <2>a, <2>f, <3>3, <3>4, <3>5 DEF HandleVoteReply, CampaignStep
  <2>4. ASSUME NEW i \in Server, SendHeartbeats(i)
        PROVE  CampaignStep
    <3>1. PICK t \in Int : t = currentTerm[i]
      BY <2>0
    <3>2. HeartbeatOK([leader |-> i, term |-> t])'
      BY <2>4, <2>e, <3>1 DEF SendHeartbeats, HeartbeatOK
    <3>. QED
      BY <2>4, <2>a, <2>b, <2>c, <2>d, <2>e, <2>f, <2>g, <3>1, <3>2
         DEF SendHeartbeats, CampaignStep
  <2>5. ASSUME NEW h \in heartbeats, NEW v \in Server, AppendEntries(h, v)
        PROVE  CampaignStep
    <3>1. h.leader \in Server /\ h.term \in Int /\ Started(h.term)'
      BY <2>a, <2>0 DEF TypeOK, Heartbeat, HeartbeatOK, Started
    <3>2. CampaignersOwnTheirTerm'
      BY <2>0, <2>5, <2>d, <2>e, <2>g DEF AppendEntries, TypeOK
    <3>3. \A w \in Server, t \in Int : t = currentTerm'[w] /\ t > 0 => Started(t)'
      BY <2>0, <2>5, <2>b, <3>1 DEF AppendEntries, TypeOK
    <3>. QED
      BY <2>5, <2>a, <2>c, <2>f, <3>2, <3>3 DEF AppendEntries, CampaignStep
  <2>. QED
    BY <2>1, <2>2, <2>3, <2>4, <2>5 DEF Next
<1>. QED
  BY <1>1, <1>2, TypeCorrect, PTL DEF Spec, CampaignInv

\* A server that takes over a term by a request, a heartbeat or a reply no longer
\* campaigns: the part of it that the runs check.
THEOREM OwnTerms == Spec => []CampaignersOwnTheirTerm
BY Campaigning, PTL DEF CampaignInv

\* The same for the leaders elected in the round of their current term.
THEOREM FreshLeaders == Spec => []FreshLeadersAgree
<1>1. CampaignInv /\ OneWinnerPerRound => FreshLeadersAgree
  <2> SUFFICES ASSUME OneWinnerPerRound, NEW i \in Server, NEW j \in Server,
                      state[i] = "leader", currentTerm[i] = currentTerm[j],
                      Majority(votes[i][currentTerm[i]]), Majority(votes[j][currentTerm[j]]),
                      currentTerm[i] \in Round
               PROVE  i = j
    BY DEF FreshLeadersAgree, CampaignInv, CampaignersOwnTheirTerm, Campaigned
  <2>. QED
    BY DEF OneWinnerPerRound
<1>. QED
  BY <1>1, Campaigning, OneWinner, PTL

\* A leader was made by a majority of one of its own rounds.
THEOREM LeadersAreElected == Spec => []LeaderHasMajority
<1>1. Init => LeaderHasMajority
  BY DEF Init, LeaderHasMajority
<1>2. TypeOK /\ LeaderHasMajority /\ [Next]_vars => LeaderHasMajority'
  <2>. SUFFICES ASSUME TypeOK, LeaderHasMajority, [Next]_vars
                PROVE  LeaderHasMajority'
    OBVIOUS
  <2>1. CASE \E i \in Server : StartElection(i)
    BY <2>1 DEF StartElection, LeaderHasMajority, TypeOK
  <2>2. ASSUME NEW m \in requests, RequestVote(m)
        PROVE  LeaderHasMajority'
    <3>1. m.to \in Server /\ m.term \in Int /\ \A v \in Server : currentTerm[v] \in Int
      BY DEF TypeOK, Request, Round, Term
    <3>. QED
      BY <2>2, <3>1 DEF RequestVote, CastVote, Larger, LeaderHasMajority, TypeOK
  <2>3. ASSUME NEW m \in replies, HandleVoteReply(m)
        PROVE  LeaderHasMajority'
    <3>1. m.to \in Server /\ m.round \in Round
      BY DEF TypeOK, Reply
    <3>2. CASE StepDown(m)
      BY <3>1, <3>2 DEF StepDown, LeaderHasMajority, TypeOK
    <3>3. CASE CountVote(m)
      BY <3>1, <3>3 DEF CountVote, Counts, LeaderHasMajority, TypeOK
    <3>4. CASE DiscardReply(m)
      BY <3>4 DEF DiscardReply, LeaderHasMajority
    <3>. QED
      BY <2>3, <3>2, <3>3, <3>4 DEF HandleVoteReply
  <2>4. CASE \E i \in Server : SendHeartbeats(i)
    BY <2>4 DEF SendHeartbeats, LeaderHasMajority
  <2>5. CASE \E h \in heartbeats, v \in Server : AppendEntries(h, v)
    BY <2>5 DEF AppendEntries, LeaderHasMajority, TypeOK
  <2>6. CASE UNCHANGED vars
    BY <2>6 DEF vars, LeaderHasMajority
  <2>. QED
    BY <2>1, <2>2, <2>3, <2>4, <2>5, <2>6 DEF Next
<1>. QED
  BY <1>1, <1>2, TypeCorrect, PTL DEF Spec

-----------------------------------------------------------------------------

\* The server that has the majority of a round is the round's winner.
LEMMA WinnerIsElected ==
    ASSUME OneWinnerPerRound, NEW t \in Round, NEW c \in Elected(t)
    PROVE  Winner[t] = c
<1>1. \A d \in Elected(t) : d = c
  BY DEF OneWinnerPerRound, Elected
<1>. QED
  BY <1>1 DEF Winner

\* A round keeps its winner when it keeps those elected in it.
LEMMA WinnerDepends ==
    /\ Winner = [u \in Round |-> Winner[u]] /\ Winner' = [u \in Round |-> Winner'[u]]
    /\ \A u \in Round : Elected(u)' = Elected(u) => Winner'[u] = Winner[u]
<1>1. /\ Winner = [u \in Round |-> Winner[u]]
      /\ Winner' = [u \in Round |-> Winner'[u]]
  BY DEF Winner
<1>2. ASSUME NEW u \in Round, Elected(u)' = Elected(u) PROVE Winner'[u] = Winner[u]
  <2>1. Winner[u] = IF Elected(u) = {} THEN None ELSE CHOOSE d \in Elected(u) : TRUE
    BY DEF Winner
  <2>2. Winner'[u] = IF Elected(u)' = {} THEN None ELSE CHOOSE d \in Elected(u)' : TRUE
    BY DEF Winner
  <2>. QED
    BY <1>2, <2>1, <2>2
<1>. QED
  BY <1>1, <1>2

\* The step adds votes to round t of c at most.
AddsVotes(c, t) ==
    /\ \A d \in Server, u \in Round : d # c \/ u # t => votes'[d][u] = votes[d][u]
    /\ Majority(votes[c][t]) => Majority(votes'[c][t])

\* Such a step is a step of the abstract election, or leaves it where it is.
LEMMA VotesAddedWin ==
    ASSUME OneWinnerPerRound, OneWinnerPerRound', NEW c \in Server, NEW t \in Round,
           AddsVotes(c, t)
    PROVE  Election!Next \/ UNCHANGED Winner
<1>. USE DEF AddsVotes
<1>1. \A u \in Round : u # t => Elected(u)' = Elected(u)
  BY DEF Elected, Majority
<1>2. Elected(t) \subseteq Elected(t)'
  BY DEF Elected, Majority
<1>3. \A u \in Round : u # t => Winner'[u] = Winner[u]
  BY <1>1, WinnerDepends
<1>5. CASE Winner'[t] = Winner[t]
  BY <1>3, <1>5, WinnerDepends, Zenon
<1>6. CASE Winner'[t] # Winner[t]
  <2>1. Elected(t) = {}
    <3>1. SUFFICES ASSUME NEW d \in Elected(t) PROVE FALSE
      OBVIOUS
    <3>2. Winner[t] = d
      BY WinnerIsElected
    <3>3. \A e \in Elected(t)' : e = d
      BY <1>2 DEF OneWinnerPerRound, Elected
    <3>4. Winner'[t] = d
      BY <1>2, <3>3 DEF Winner
    <3>. QED
      BY <1>6, <3>2, <3>4
  <2>2. Winner[t] = None
    BY <2>1 DEF Winner
  <2>3. PICK d \in Server : d = Winner'[t]
    <3>1. Elected(t)' # {}
      BY <1>6, <2>2 DEF Winner
    <3>. QED
      BY <3>1 DEF Winner, Elected
  <2>4. Winner' = [Winner EXCEPT ![t] = d]
    BY <1>3, <2>3, WinnerDepends
  <2>. QED
    BY <2>2, <2>3, <2>4 DEF Election!Next, Election!Win
<1>. QED
  BY <1>5, <1>6

\* raft.go's rounds implement the abstract election: a round is won once, and
\* its winner never changes.
THEOREM Refinement == Spec => ImplementsElection
<1>1. Init => Election!Init
  <2>. SUFFICES ASSUME Init PROVE  Winner = [t \in Round |-> None]
    BY DEF Election!Init
  <2>1. \A c \in Server, t \in Round : ~ Majority(votes[c][t])
    BY NoMajorityOfNobody DEF Init
  <2>. QED
    BY <2>1 DEF Winner, Elected
<1>2. /\ VoteInv /\ CampaignInv /\ OneWinnerPerRound /\ OneWinnerPerRound' /\ [Next]_vars
      => [Election!Next]_Winner
  <2>. SUFFICES ASSUME VoteInv, CampaignInv, OneWinnerPerRound, OneWinnerPerRound', [Next]_vars
                PROVE  Election!Next \/ UNCHANGED Winner
    OBVIOUS
  <2>. USE DEF CampaignInv
  <2>1. ASSUME NEW i \in Server, StartElection(i)
        PROVE  Election!Next \/ UNCHANGED Winner
    <3>1. PICK t \in Round : t = currentTerm[i] + 1
      BY <2>1, Terms DEF StartElection, TypeOK
    <3>2. votes' = [votes EXCEPT ![i][t] = {i}]
      BY <2>1, <3>1 DEF StartElection
    <3>3. votes[i][t] = {}
      <4>1. ~ Pledged(i, i, t)
        BY <3>1, TypeOK DEF VoteInv, PledgeRemembered, TypeOK, Term
      <4>. QED
        BY <4>1 DEF TermsAreCampaigned, Campaigned, Pledged
    <3>4. ~ Majority(votes[i][t])
      BY <3>3, NoMajorityOfNobody
    <3>5. AddsVotes(i, t)
      BY <3>2, <3>4 DEF AddsVotes, TypeOK
    <3>. QED
      BY <3>1, <3>5, VotesAddedWin
  <2>2. ASSUME NEW m \in replies, CountVote(m)
        PROVE  Election!Next \/ UNCHANGED Winner
    <3>1. m.from \in Server /\ m.to \in Server /\ m.round \in Round
      BY DEF TypeOK, Reply
    <3>2. votes' = [votes EXCEPT ![m.to][m.round] = votes[m.to][m.round] \cup {m.from}]
      BY <2>2 DEF CountVote
    <3>3. Majority(votes[m.to][m.round]) => Majority(votes'[m.to][m.round])
      <4>1. votes[m.to][m.round] \in SUBSET Server
        BY <3>1 DEF TypeOK
      <4>2. Majority(votes[m.to][m.round]) => Majority(votes[m.to][m.round] \cup {m.from})
        BY <3>1, <4>1, MajorityGrows, Zenon
      <4>3. votes'[m.to][m.round] = votes[m.to][m.round] \cup {m.from}
        BY <3>1, <3>2 DEF TypeOK
      <4>. QED
        BY <4>2, <4>3
    <3>4. AddsVotes(m.to, m.round)
      BY <3>1, <3>2, <3>3 DEF AddsVotes, TypeOK
    <3>. QED
      BY <3>1, <3>4, VotesAddedWin
  <2>3. CASE UNCHANGED votes
    <3>1. \A u \in Round : Elected(u)' = Elected(u)
      BY <2>3 DEF Elected, Majority
    <3>. QED
      BY <3>1, WinnerDepends, Zenon
  <2>. QED
    BY <2>1, <2>2, <2>3 DEF Next, vars, RequestVote, HandleVoteReply, StepDown, DiscardReply,
                            SendHeartbeats, AppendEntries
<1>. QED
  BY <1>1, <1>2, VotesAreOnce, Campaigning, OneWinner, PTL DEF Spec, ImplementsElection, Election!Spec

-----------------------------------------------------------------------------
(***************************************************************************)
(* Crash and restart (RaftRestart).  A restarted server has forgotten its  *)
(* votes, the others have not: what holds of every voter of RaftElection   *)
(* still holds of those that were never restarted.                         *)
(***************************************************************************)

\* What runs between the crashes is the election.
LEMMA RunningIsNext == up \subseteq Server /\ Running => Next
BY DEF Running, Next

LEMMA RestartKeepsTypes ==
    ASSUME RestartTypeOK, [RestartNext]_allVars
    PROVE  RestartTypeOK'
<1>. USE DEF RestartTypeOK
<1>1. CASE Running /\ UNCHANGED life
  BY <1>1, RunningIsNext, NextKeepsTypes DEF life
<1>2. ASSUME NEW i \in Server, Crash(i)
      PROVE  RestartTypeOK'
  BY <1>2 DEF Crash, TypeOK
<1>3. ASSUME NEW i \in Server, Restart(i)
      PROVE  RestartTypeOK'
  <2>1. 0 \in Term /\ restarted' \subseteq Server
    BY <1>3, BoundAssumption DEF Restart, Term
  <2>2. votes' \in [Server -> [Round -> SUBSET Server]]
    BY <1>3 DEF Restart, TypeOK
  <2>. QED
    BY <1>3, <2>1, <2>2 DEF Restart, TypeOK
<1>4. ASSUME NEW m \in orphans, RequestVoteOfTheDead(m)
      PROVE  RestartTypeOK'
  BY <1>4, CastVoteTypes DEF RequestVoteOfTheDead, TypeOK
<1>5. CASE UNCHANGED allVars
  BY <1>5 DEF allVars, vars, life, TypeOK
<1>. QED
  BY <1>1, <1>2, <1>3, <1>4, <1>5 DEF RestartNext

\* Every variable keeps its type under crash and restart.
THEOREM RestartTypes == RestartSpec => []RestartTypeOK
<1>1. RestartInit => RestartTypeOK
  BY InitTypes DEF RestartInit, RestartTypeOK
<1>. QED
  BY <1>1, RestartKeepsTypes, PTL DEF RestartSpec

\* Only a restart makes a voter forget: any other step, and any step of another
\* server, is an honest one of the voter.
LEMMA RestartIsHonest ==
    ASSUME RestartTypeOK, [RestartNext]_allVars, NEW v \in Server, Steady(v)'
    PROVE  Steady(v) /\ VotesHonestly(v)
<1>0. TypeOK /\ currentTerm[v] \in Int
  BY DEF RestartTypeOK, TypeOK, Term
<1>1. CASE Running /\ UNCHANGED life
  BY <1>0, <1>1, RunningIsNext, NextIsHonest DEF life, Steady, RestartTypeOK
<1>2. ASSUME NEW i \in Server, Crash(i)
      PROVE  Steady(v) /\ VotesHonestly(v)
  BY <1>0, <1>2 DEF Crash, Steady, VotesHonestly, Pledged
<1>3. ASSUME NEW i \in Server, Restart(i)
      PROVE  Steady(v) /\ VotesHonestly(v)
  <2>1. v # i /\ Steady(v)
    BY <1>0, <1>3 DEF Restart, Steady, RestartTypeOK
  <2>2. currentTerm'[v] = currentTerm[v] /\ votedFor'[v] = votedFor[v]
    BY <1>3, <2>1 DEF Restart, TypeOK
  <2>3. \A c \in Server, t \in Round : Pledged(v, c, t)' => Pledged(v, c, t)
    BY <1>0, <1>3 DEF Restart, Pledged, TypeOK
  <2>. QED
    BY <1>0, <2>1, <2>2, <2>3 DEF VotesHonestly
<1>4. ASSUME NEW m \in orphans, RequestVoteOfTheDead(m)
      PROVE  Steady(v) /\ VotesHonestly(v)
  <2>1. m \in Request /\ CastVote(m)
    BY <1>4 DEF RequestVoteOfTheDead, RestartTypeOK
  <2>2. VotesKept
    BY <1>0, <2>1, CastVoteKeepsVotes
  <2>3. \A c \in Server, t \in Round : Pledged(v, c, t)' => Pledged(v, c, t)
    BY <1>4 DEF RequestVoteOfTheDead, Pledged
  <2>. QED
    BY <1>4, <2>2, <2>3 DEF RequestVoteOfTheDead, Steady, VotesHonestly, VotesKept
<1>5. CASE UNCHANGED allVars
  BY <1>0, <1>5 DEF allVars, vars, life, Steady, VotesHonestly, Pledged
<1>. QED
  BY <1>1, <1>2, <1>3, <1>4, <1>5 DEF RestartNext

\* The promises of the voters that were never restarted, inductive with the types.
SteadyInv == RestartTypeOK /\ \A v \in Server : Steady(v) => KeepsPromises(v)

\* A voter that was never restarted gave one vote in a term, and remembers it.
THEOREM SteadyPromises == RestartSpec => []SteadyInv
<1>1. RestartInit => SteadyInv
  <2>1. RestartInit => \A v, c \in Server, t \in Round : ~ Pledged(v, c, t)
    BY DEF RestartInit, Init, Pledged
  <2>2. RestartInit => RestartTypeOK
    BY InitTypes DEF RestartInit, RestartTypeOK
  <2>. QED
    BY <2>1, <2>2 DEF SteadyInv, KeepsPromises
<1>2. SteadyInv /\ [RestartNext]_allVars => SteadyInv'
  <2>. SUFFICES ASSUME SteadyInv, [RestartNext]_allVars
                PROVE  SteadyInv'
    OBVIOUS
  <2>1. RestartTypeOK /\ RestartTypeOK' /\ TypeOK /\ TypeOK'
    BY RestartKeepsTypes DEF SteadyInv, RestartTypeOK
  <2>2. ASSUME NEW v \in Server, Steady(v)'
        PROVE  KeepsPromises(v)'
    <3>1. Steady(v) /\ VotesHonestly(v)
      BY <2>1, <2>2, RestartIsHonest
    <3>. QED
      BY <2>1, <3>1, PromisesKept DEF SteadyInv
  <2>. QED
    BY <2>1, <2>2 DEF SteadyInv
<1>. QED
  BY <1>1, <1>2, PTL DEF RestartSpec

\* What SteadyVotersRemember says, whatever the crashes and restarts of others.
THEOREM SteadyMemory == RestartSpec => []SteadyVotersRemember
<1>1. SteadyInv => SteadyVotersRemember
  BY DEF SteadyInv, SteadyVotersRemember, KeepsPromises
<1>. QED
  BY <1>1, SteadyPromises, PTL

\* Two winners of one round need a voter that forgot: the majorities meet, and
\* were every common voter steady, one would have voted for both.
THEOREM DoubleWinners == RestartSpec => []DoubleWinnersShareAForgetter
<1>1. SteadyInv => DoubleWinnersShareAForgetter
  <2>. SUFFICES ASSUME SteadyInv, NEW c \in Server, NEW d \in Server, NEW t \in Round,
                       Majority(votes[c][t]), Majority(votes[d][t]), c # d
                PROVE  \E v \in votes[c][t] \cap votes[d][t] : ~ Steady(v)
    BY DEF DoubleWinnersShareAForgetter
  <2>1. votes[c][t] \in SUBSET Server /\ votes[d][t] \in SUBSET Server
    BY DEF SteadyInv, RestartTypeOK, TypeOK
  <2>2. PICK v \in Server : v \in votes[c][t] /\ v \in votes[d][t]
    BY <2>1, MajoritiesMeet
  <2>3. ~ KeepsPromises(v)
    BY <2>2 DEF KeepsPromises, Pledged
  <2>. QED
    BY <2>2, <2>3 DEF SteadyInv
<1>. QED
  BY <1>1, SteadyPromises, PTL

=============================================================================
