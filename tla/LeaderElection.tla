--------------------------- MODULE LeaderElection ---------------------------
(***************************************************************************)
(* What an election promises (raft/raft.go, and checkOneLeader in          *)
(* raft/config.go): a round is won by at most one server, and once won it  *)
(* stays with its winner.  Rounds are won in any order, or never.          *)
(***************************************************************************)
CONSTANTS Server, Round, None

VARIABLE winner   \* winner[r]: who collected a majority in round r, or None

Init == winner = [r \in Round |-> None]

Win(i, r) ==
    /\ winner[r] = None
    /\ winner' = [winner EXCEPT ![r] = i]

Next == \E i \in Server, r \in Round : Win(i, r)

Spec == Init /\ [][Next]_winner

=============================================================================
