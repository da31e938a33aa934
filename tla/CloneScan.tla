----------------------------- MODULE CloneScan -----------------------------
(***************************************************************************)
(* The scan of detect_clones (cdup/src/detect.py): all statements of a     *)
(* program in one sequence, a separator after each segment, and one pass   *)
(* that follows, for every offset, the run of equal statements that is     *)
(* being read at that distance.                                            *)
(*                                                                         *)
(* Positions count from 1.  A statement is [seg, stmt, norm, norm1]: its   *)
(* place and its normalised texts; a separator has segment 0.              *)
(***************************************************************************)
EXTENDS Integers, Sequences, FiniteSets

CONSTANTS MinLength,   \* shortest clone that is reported
          MaxFreq,     \* statements seen more often match nothing; 0: no limit
          Texts        \* normalised statements

ASSUME ScanAssumption == MinLength \in Nat \ {0} /\ MaxFreq \in Nat

Places == [seg : Nat, stmt : Nat, norm : Texts, norm1 : Texts]

VARIABLES flat,    \* the statements
          pos,     \* the entry to be read next
          active,  \* offset -> length of the run that ends before pos
          found    \* the runs that have ended: [a, b, len]

scanVars == <<flat, pos, active, found>>

IsStatement(i) == i \in DOMAIN flat /\ flat[i].seg # 0

SameText(i, j) == flat[i].norm = flat[j].norm

\* The inverted index: a text's positions, unless there are too many.
Index(norm) ==
    LET at == {i \in DOMAIN flat : IsStatement(i) /\ flat[i].norm = norm}
    IN  IF MaxFreq > 0 /\ Cardinality(at) > MaxFreq THEN {} ELSE at

Matches(i) == IF IsStatement(i) THEN {j \in Index(flat[i].norm) : j > i} ELSE {}

Offsets(i) == {j - i : j \in Matches(i)}

Closed(ended) ==
    {[a |-> pos - active[o], b |-> pos - active[o] + o, len |-> active[o]] :
        o \in {p \in ended : active[p] >= MinLength}}

Load(entries) ==
    /\ flat' = entries
    /\ pos' = 1
    /\ active' = [o \in {} |-> 0]
    /\ found' = {}

\* Mutant: runs go on over a separator.
ScanSeparatorOpen ==
    /\ pos \in DOMAIN flat /\ ~IsStatement(pos)
    /\ pos' = pos + 1
    /\ UNCHANGED <<flat, active, found>>

ScanSeparator ==
    /\ pos \in DOMAIN flat /\ ~IsStatement(pos)
    /\ found' = found \cup Closed(DOMAIN active)
    /\ active' = [o \in {} |-> 0]
    /\ pos' = pos + 1
    /\ UNCHANGED flat

ScanStatement ==
    /\ IsStatement(pos)
    /\ found' = found \cup Closed(DOMAIN active \ Offsets(pos))
    /\ active' = [o \in Offsets(pos) |-> IF o \in DOMAIN active THEN active[o] + 1 ELSE 1]
    /\ pos' = pos + 1
    /\ UNCHANGED flat

\* The runs that reach the end of the sequence; none when it ends in a
\* separator, as the sequences of programs do.
EndScan ==
    /\ pos = Len(flat) + 1
    /\ found' = found \cup Closed(DOMAIN active)
    /\ active' = [o \in {} |-> 0]
    /\ pos' = pos + 1
    /\ UNCHANGED flat

ScanDone == pos = Len(flat) + 2

ScanInit == flat \in Seq(Places) /\ pos = 1 /\ active = [o \in {} |-> 0] /\ found = {}

ScanNext == ScanSeparator \/ ScanStatement \/ EndScan \/ \E entries \in Seq(Places) : Load(entries)

ScanSpec == ScanInit /\ [][ScanNext]_scanVars

(***************************************************************************)
(* What a scan is for.  Two statements match when both have the same text  *)
(* and it is not too frequent; a run of matches at one offset is maximal   *)
(* when it can be continued at neither end.                                *)
(***************************************************************************)
Match(i, o) == o > 0 /\ i + o \in Matches(i)

RunOf(a, o, len) ==
    /\ len > 0
    /\ \A k \in a .. a + len - 1 : Match(k, o)
    /\ ~Match(a - 1, o)

Ended(a, o, len) == RunOf(a, o, len) /\ ~Match(a + len, o) /\ a + len < pos

(***************************************************************************)
(* The scan has found the maximal runs of at least MinLength that end      *)
(* before the place it reads, and nothing else: no clone is missed, none   *)
(* is cut short, counted twice or carried over the end of a segment.       *)
(***************************************************************************)
ScanSound ==
    \A r \in found : r.len >= MinLength /\ Ended(r.a, r.b - r.a, r.len)

ScanComplete ==
    \A a \in 1 .. pos - 1 :
        \A o \in Offsets(a), len \in MinLength .. pos - a - 1 :
            Ended(a, o, len) => [a |-> a, b |-> a + o, len |-> len] \in found

ScanExact == ScanSound /\ ScanComplete
=============================================================================
