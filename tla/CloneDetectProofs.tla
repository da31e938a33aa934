------------------------- MODULE CloneDetectProofs -------------------------
(***************************************************************************)
(* Of the detect command, for all source files, options, least lengths and *)
(* limits of frequency: the scan is exact, the classes of its runs lose    *)
(* nothing and repeat nothing, the data-flow graph joins every read to the *)
(* latest write, and the near misses are whole components.                 *)
(***************************************************************************)
EXTENDS CloneDetect, NaturalsInduction, WellFoundedInduction, FiniteSetTheorems, TLAPS

(***************************************************************************)
(* The scan.  The inductive invariant says what the runs being followed    *)
(* are: one for every offset at which the last statement read has a match, *)
(* as long as the run that ends there.                                     *)
(***************************************************************************)
IsList(s) == Len(s) \in Nat /\ DOMAIN s = 1 .. Len(s)

ScanTypeOK ==
    /\ IsList(flat)
    /\ pos \in 1 .. Len(flat) + 2

(***************************************************************************)
(* For each offset the run that ends with the statement before pos.        *)
(***************************************************************************)
ActiveExact ==
    /\ DOMAIN active = Offsets(pos - 1)
    /\ \A o \in DOMAIN active : /\ active[o] \in 1 .. pos - 1
                                /\ RunOf(pos - active[o], o, active[o])

FoundTypeOK == \A r \in found : r = [a |-> r.a, b |-> r.b, len |-> r.len] /\ r.a \in Nat /\ r.b \in Nat /\ r.len \in Nat

ScanInv == ScanTypeOK /\ ActiveExact /\ FoundTypeOK /\ ScanExact

\* Matches as the proofs use them.
LEMMA OffsetsAreMatches ==
    ASSUME ScanTypeOK, NEW i \in Int
    PROVE  /\ Offsets(i) \subseteq Nat \ {0}
           /\ \A o \in Int : o \in Offsets(i) <=> Match(i, o)
           /\ \A o \in Int : Match(i, o) => i \in 1 .. Len(flat)
<1>1. Matches(i) \subseteq {j \in Int : j > i}
  BY DEF Matches, Index, IsStatement, ScanTypeOK
<1>2. Offsets(i) \subseteq Nat \ {0}
  BY <1>1 DEF Offsets
<1>3. ASSUME NEW o \in Int PROVE o \in Offsets(i) <=> Match(i, o)
  <2>1. o \in Offsets(i) => i + o \in Matches(i)
    BY <1>1 DEF Offsets
  <2>2. Match(i, o) => o = (i + o) - i
    OBVIOUS
  <2> QED  BY <2>1, <2>2, <1>2 DEF Offsets, Match
<1>4. ASSUME NEW o \in Int, Match(i, o) PROVE i \in 1 .. Len(flat)
  BY <1>4 DEF Match, Matches, IsStatement, ScanTypeOK
<1> QED  BY <1>2, <1>3, <1>4

LEMMA UnchangedMatches ==
    ASSUME flat' = flat
    PROVE  /\ \A i : Offsets(i)' = Offsets(i)
           /\ \A i, o : Match(i, o)' = Match(i, o)
           /\ \A a, o, len : RunOf(a, o, len)' = RunOf(a, o, len)
BY DEF Offsets, Match, RunOf, Matches, Index, IsStatement

\* Two maximal runs at one offset that meet are one run.
LEMMA RunsAreUnique ==
    ASSUME NEW o \in Int, NEW p \in Int, NEW m \in Nat \ {0}, NEW n \in Nat \ {0},
           RunOf(p - m, o, m), RunOf(p - n, o, n)
    PROVE  m = n
<1>1. CASE m < n
  <2>1. p - m - 1 \in p - n .. p - n + n - 1
    BY <1>1
  <2> QED  BY <2>1 DEF RunOf
<1>2. CASE n < m
  <2>1. p - n - 1 \in p - m .. p - m + m - 1
    BY <1>2
  <2> QED  BY <2>1 DEF RunOf
<1> QED  BY <1>1, <1>2

(***************************************************************************)
(* What one entry does: the offsets in next go on, the others have ended.  *)
(***************************************************************************)
Step(next) ==
    /\ found' = found \cup Closed(DOMAIN active \ next)
    /\ active' = [o \in next |-> IF o \in DOMAIN active THEN active[o] + 1 ELSE 1]
    /\ pos' = pos + 1
    /\ flat' = flat

LEMMA EveryScanIsAStep ==
    ASSUME ScanInv, ScanStatement \/ ScanSeparator \/ EndScan
    PROVE  Step(Offsets(pos)) /\ pos <= Len(flat) + 1
<1>1. ScanStatement => Step(Offsets(pos)) /\ pos <= Len(flat) + 1
  BY DEF ScanStatement, Step, ScanInv, ScanTypeOK, IsStatement
<1>2. ~IsStatement(pos) => Offsets(pos) = {}
  BY DEF Offsets, Matches
<1>3. ScanSeparator \/ EndScan => ~IsStatement(pos) /\ pos <= Len(flat) + 1
  BY DEF ScanSeparator, EndScan, IsStatement, ScanInv, ScanTypeOK
<1>4. ScanSeparator \/ EndScan => Step({})
  <2>1. DOMAIN active \ {} = DOMAIN active
    OBVIOUS
  <2>2. [o \in {} |-> 0] = [o \in {} |-> IF o \in DOMAIN active THEN active[o] + 1 ELSE 1]
    OBVIOUS
  <2> QED  BY <2>1, <2>2 DEF ScanSeparator, EndScan, Step
<1> QED  BY <1>1, <1>2, <1>3, <1>4

LEMMA ActiveStaysExact ==
    ASSUME ScanInv, Step(Offsets(pos)), pos <= Len(flat) + 1
    PROVE  ScanTypeOK' /\ ActiveExact'
<1>1. flat' = flat /\ pos' = pos + 1 /\ pos \in Nat /\ pos \in Int /\ pos' \in Int /\ pos - 1 \in Int
  BY DEF Step, ScanInv, ScanTypeOK
<1>2. ScanTypeOK'
  BY <1>1 DEF ScanInv, ScanTypeOK
<1>3. DOMAIN active' = Offsets(pos)
  BY DEF Step
<1>4. Offsets(pos - 1)' = Offsets(pos)
  <2>1. pos' - 1 = pos
    BY <1>1
  <2> QED  BY <1>1, <2>1 DEF Offsets, Matches, Index, IsStatement
<1>5. ASSUME NEW o \in DOMAIN active'
      PROVE  active'[o] \in 1 .. pos' - 1 /\ RunOf(pos' - active'[o], o, active'[o])
  <2>1. o \in Offsets(pos) /\ o \in Int /\ Match(pos, o)
    BY <1>1, <1>3, OffsetsAreMatches DEF ScanInv
  <2>2. active'[o] = IF o \in DOMAIN active THEN active[o] + 1 ELSE 1
    BY <2>1 DEF Step
  <2>3. CASE o \in DOMAIN active
    <3>1. active[o] \in 1 .. pos - 1 /\ RunOf(pos - active[o], o, active[o])
      BY <2>3 DEF ScanInv, ActiveExact
    <3>2. active'[o] \in 1 .. pos' - 1 /\ pos' - active'[o] = pos - active[o]
      BY <2>2, <2>3, <3>1, <1>1
    <3>3. \A k \in pos - active[o] .. pos - active[o] + (active[o] + 1) - 1 :
             k = pos \/ k \in pos - active[o] .. pos - active[o] + active[o] - 1
      BY <3>1, <1>1
    <3>4. RunOf(pos - active[o], o, active[o] + 1)
      <4> HIDE DEF Match
      <4> QED BY <2>1, <3>1, <3>3 DEF RunOf
    <3> QED  BY <2>2, <2>3, <3>2, <3>4
  <2>4. CASE o \notin DOMAIN active
    <3>1. ~Match(pos - 1, o)
      BY <2>4, <2>1, <1>1, OffsetsAreMatches DEF ScanInv, ActiveExact
    <3>2. \A k \in pos .. pos + 1 - 1 : k = pos
      BY <1>1
    <3>3. RunOf(pos, o, 1)
      BY <2>1, <3>1, <3>2 DEF RunOf
    <3>4. active'[o] = 1 /\ pos' - 1 = pos /\ 1 \in 1 .. pos' - 1
      BY <2>2, <2>4, <1>1 DEF ScanInv, ScanTypeOK
    <3> QED  BY <3>3, <3>4
  <2> QED  BY <2>3, <2>4
<1>6. ASSUME NEW o \in DOMAIN active' PROVE RunOf(pos - active[o], o, active[o])'
  <2>1. RunOf(pos' - active'[o], o, active'[o])
    BY <1>5, <1>6
  <2>2. \A k \in pos' - active'[o] .. pos' - active'[o] + active'[o] - 1 : Match(k, o)'
    BY <1>1, <2>1, UnchangedMatches DEF RunOf
  <2>3. Match(pos - active[o] - 1, o)' = Match(pos' - active'[o] - 1, o)
    BY <1>1 DEF Match, Matches, Index, IsStatement
  <2> QED  BY <2>1, <2>2, <2>3 DEF RunOf
<1> QED  BY <1>2, <1>3, <1>4, <1>5, <1>6 DEF ActiveExact

LEMMA FoundStaysSound ==
    ASSUME ScanInv, Step(Offsets(pos)), pos <= Len(flat) + 1
    PROVE  FoundTypeOK' /\ ScanSound'
<1>1. flat' = flat /\ pos' = pos + 1 /\ pos \in Nat /\ pos \in Int /\ pos - 1 \in Int
  BY DEF Step, ScanInv, ScanTypeOK
<1>2. ASSUME NEW r \in found'
      PROVE  /\ r = [a |-> r.a, b |-> r.b, len |-> r.len] /\ r.a \in Nat /\ r.b \in Nat /\ r.len \in Nat
             /\ r.len >= MinLength
             /\ RunOf(r.a, r.b - r.a, r.len) /\ ~Match(r.a + r.len, r.b - r.a) /\ r.a + r.len < pos + 1
  <2>1. CASE r \in found
    BY <2>1, <1>1 DEF ScanInv, FoundTypeOK, ScanExact, ScanSound, Ended
  <2>2. CASE r \in Closed(DOMAIN active \ Offsets(pos))
    <3>1. PICK o \in DOMAIN active \ Offsets(pos) :
             /\ active[o] >= MinLength
             /\ r = [a |-> pos - active[o], b |-> pos - active[o] + o, len |-> active[o]]
      BY <2>2 DEF Closed
    <3>2. o \in Nat /\ o \in Int
      BY <1>1, OffsetsAreMatches DEF ScanInv, ActiveExact
    <3>3. active[o] \in 1 .. pos - 1 /\ RunOf(pos - active[o], o, active[o])
      BY <3>1 DEF ScanInv, ActiveExact
    <3>4. r.b - r.a = o /\ r.a + r.len = pos /\ r.len = active[o] /\ r.a = pos - active[o] /\ r.a \in Nat /\ r.b \in Nat
      BY <3>1, <3>2, <3>3, <1>1
    <3>5. ~Match(pos, o)
      BY <3>1, <3>2, <1>1, OffsetsAreMatches DEF ScanInv
    <3>6. r = [a |-> r.a, b |-> r.b, len |-> r.len]
      BY <3>1
    <3>7. r.len \in Nat /\ r.len >= MinLength /\ r.a + r.len < pos + 1
      <4>1. r.len \in Nat
        BY <3>3, <3>4, <1>1
      <4>2. active[o] >= MinLength
        BY <3>1
      <4>3. r.a + r.len = pos /\ pos < pos + 1
        BY <3>4, <1>1
      <4> QED  BY <4>1, <4>2, <4>3, <3>4
    <3>8. RunOf(r.a, r.b - r.a, r.len) /\ ~Match(r.a + r.len, r.b - r.a)
      BY <3>3, <3>4, <3>5
    <3> QED  BY <3>4, <3>6, <3>7, <3>8
  <2> QED  BY <2>1, <2>2 DEF Step
<1>3. \A r \in found' : RunOf(r.a, r.b - r.a, r.len)' /\ ~Match(r.a + r.len, r.b - r.a)'
  BY <1>1, <1>2, UnchangedMatches
<1> QED  BY <1>1, <1>2, <1>3 DEF FoundTypeOK, ScanSound, Ended

LEMMA FoundStaysComplete ==
    ASSUME ScanInv, Step(Offsets(pos)), pos <= Len(flat) + 1
    PROVE  ScanComplete'
<1>1. flat' = flat /\ pos' = pos + 1 /\ pos \in Nat /\ pos \in Int /\ pos - 1 \in Int
  BY DEF Step, ScanInv, ScanTypeOK
<1>2. MinLength \in Nat \ {0}
  BY ScanAssumption
<1>3. SUFFICES ASSUME NEW a \in 1 .. pos, NEW o \in Offsets(a), NEW len \in MinLength .. pos - a,
                      RunOf(a, o, len), ~Match(a + len, o)
               PROVE  [a |-> a, b |-> a + o, len |-> len] \in found'
  BY <1>1, UnchangedMatches DEF ScanComplete, Ended
<1>4. a \in Int /\ o \in Int /\ len \in Nat \ {0} /\ o \in Nat \ {0}
  BY <1>2, <1>3, OffsetsAreMatches DEF ScanInv
<1>5. CASE a + len < pos
  <2>1. a \in 1 .. pos - 1 /\ len \in MinLength .. pos - a - 1
    BY <1>1, <1>2, <1>4, <1>5
  <2>2. [a |-> a, b |-> a + o, len |-> len] \in found
    BY <2>1, <1>3, <1>5 DEF ScanInv, ScanExact, ScanComplete, Ended
  <2> QED  BY <2>2 DEF Step
<1>6. CASE a + len = pos
  <2>1. pos - 1 \in a .. a + len - 1
    BY <1>4, <1>6, <1>1
  <2>2. Match(pos - 1, o) /\ ~Match(pos, o)
    BY <2>1, <1>3, <1>6 DEF RunOf
  <2>3. o \in DOMAIN active \ Offsets(pos)
    BY <2>2, <1>1, <1>4, OffsetsAreMatches DEF ScanInv, ActiveExact
  <2>4. active[o] \in 1 .. pos - 1 /\ RunOf(pos - active[o], o, active[o])
    BY <2>3 DEF ScanInv, ActiveExact
  <2>5. a = pos - len
    BY <1>4, <1>6, <1>1
  <2>6. active[o] = len
    BY <2>4, <2>5, <1>3, <1>4, <1>1, RunsAreUnique
  <2>7. [a |-> a, b |-> a + o, len |-> len] \in Closed(DOMAIN active \ Offsets(pos))
    BY <2>3, <2>5, <2>6, <1>2, <1>3 DEF Closed
  <2> QED  BY <2>7 DEF Step
<1> QED  BY <1>3, <1>4, <1>5, <1>6, <1>1

(***************************************************************************)
(* A new program starts the scan over.                                     *)
(***************************************************************************)
LEMMA FreshScan ==
    ASSUME IsList(flat), pos = 1, active = [o \in {} |-> 0], found = {}
    PROVE  ScanInv
<1>1. Offsets(0) = {}
  BY DEF Offsets, Matches, IsStatement
<1>2. ScanTypeOK
  BY DEF ScanTypeOK
<1>3. ActiveExact
  BY <1>1 DEF ActiveExact
<1> QED  BY <1>2, <1>3 DEF ScanInv, FoundTypeOK, ScanExact, ScanSound, ScanComplete

LEMMA FreshScanNext ==
    ASSUME IsList(flat)', pos' = 1, active' = [o \in {} |-> 0], found' = {}
    PROVE  ScanInv'
<1>1. Offsets(0)' = {}
  BY DEF Offsets, Matches, IsStatement
<1>2. ScanTypeOK'
  BY DEF ScanTypeOK
<1>3. ActiveExact'
  BY <1>1 DEF ActiveExact
<1> QED  BY <1>2, <1>3 DEF ScanInv, FoundTypeOK, ScanExact, ScanSound, ScanComplete

LEMMA ScanStays == ASSUME ScanInv, UNCHANGED scanVars PROVE ScanInv'
<1>1. flat' = flat /\ pos' = pos /\ active' = active /\ found' = found
  BY DEF scanVars
<1>2. ScanTypeOK' /\ FoundTypeOK'
  BY <1>1 DEF ScanInv, ScanTypeOK, FoundTypeOK
<1>3. Offsets(pos - 1)' = Offsets(pos - 1)
  BY <1>1 DEF Offsets, Matches, Index, IsStatement
<1>4. ASSUME NEW o \in DOMAIN active PROVE RunOf(pos - active[o], o, active[o])' = RunOf(pos - active[o], o, active[o])
  BY <1>1 DEF RunOf, Match, Matches, Index, IsStatement
<1>5. ActiveExact'
  BY <1>1, <1>3, <1>4 DEF ScanInv, ActiveExact
<1>6. ScanExact'
  BY <1>1, UnchangedMatches DEF ScanInv, ScanExact, ScanSound, ScanComplete, Ended
<1> QED  BY <1>2, <1>5, <1>6 DEF ScanInv

(***************************************************************************)
(* Every state of every scan: the runs found are the maximal runs of equal *)
(* statements that have ended, of at least the minimum length.             *)
(***************************************************************************)
THEOREM ScanIsExact == ScanSpec => []ScanExact
<1>1. ScanInit => ScanInv
  BY FreshScan DEF ScanInit, IsList
<1>2. ScanInv /\ [ScanNext]_scanVars => ScanInv'
  <2> SUFFICES ASSUME ScanInv, [ScanNext]_scanVars PROVE ScanInv'
    OBVIOUS
  <2>1. CASE ScanStatement \/ ScanSeparator \/ EndScan
    BY <2>1, EveryScanIsAStep, ActiveStaysExact, FoundStaysSound, FoundStaysComplete DEF ScanInv, ScanExact
  <2>2. CASE \E entries \in Seq(Places) : Load(entries)
    BY <2>2, FreshScanNext DEF Load, IsList
  <2>3. CASE UNCHANGED scanVars
    BY <2>3, ScanStays
  <2> QED  BY <2>1, <2>2, <2>3 DEF ScanNext
<1>3. ScanInv => ScanExact
  BY DEF ScanInv
<1> QED  BY <1>1, <1>2, <1>3, PTL DEF ScanSpec

(***************************************************************************)
(* Numbers and recursive functions on them.                                *)
(***************************************************************************)
LEMMA LeastNumber == ASSUME NEW S \in SUBSET Nat, S # {} PROVE \E n \in S : \A m \in S : n <= m
<1>. DEFINE Less == OpToRel(<, Nat)
<1>1. IsWellFoundedOn(Less, Nat)
  BY NatLessThanWellFounded
<1>2. \A m, n \in Nat : <<m, n>> \in Less <=> m < n
  BY DEF OpToRel
<1>. HIDE DEF Less
<1>3. PICK n \in S : \A m \in S : ~(<<m, n>> \in Less)
  BY <1>1, WFMin
<1>4. ASSUME NEW m \in S PROVE n <= m
  <2>1. m \in Nat /\ n \in Nat
    OBVIOUS
  <2>2. ~(m < n)
    BY <1>2, <1>3, <2>1
  <2>. QED
    BY <2>1, <2>2
<1>. QED
  BY <1>3, <1>4

\* A set of numbers that has 0, and with a number the next, has all numbers up to n.
LEMMA Climbs ==
    ASSUME NEW n \in Nat, NEW S, 0 \in S, \A i \in 0 .. n - 1 : i \in S => i + 1 \in S
    PROVE  0 .. n \subseteq S
<1>. SUFFICES ASSUME (0 .. n) \ S # {} PROVE FALSE
  OBVIOUS
<1>1. PICK k \in (0 .. n) \ S : \A m \in (0 .. n) \ S : k <= m
  <2>1. (0 .. n) \ S \in SUBSET Nat
    OBVIOUS
  <2>. QED
    BY <2>1, LeastNumber
<1>2. k # 0 /\ k - 1 \in 0 .. n - 1 /\ k = (k - 1) + 1
  OBVIOUS
<1>3. k - 1 \in S
  BY <1>1, <1>2
<1>. QED
  BY <1>2, <1>3

\* What a function on numbers computes from the value before.
Follows(f, n, a, F) == f = [i \in 0 .. n |-> IF i = 0 THEN a ELSE F[<<i, f[i - 1]>>]]

LEMMA Recursion ==
    ASSUME NEW n \in Nat, NEW A, NEW a \in A, NEW F \in [(1 .. n) \X A -> A]
    PROVE  \E f \in [0 .. n -> A] : Follows(f, n, a, F)
<1>. DEFINE S == {k \in 0 .. n : \E f \in [0 .. k -> A] : f[0] = a /\ \A i \in 1 .. k : f[i] = F[<<i, f[i - 1]>>]}
<1>1. 0 \in S
  <2>. DEFINE f == [i \in 0 .. 0 |-> a]
  <2>1. f \in [0 .. 0 -> A] /\ f[0] = a
    OBVIOUS
  <2>2. 1 .. 0 = {} /\ 0 \in 0 .. n
    OBVIOUS
  <2>. HIDE DEF f
  <2>. QED
    BY <2>1, <2>2
<1>2. ASSUME NEW k \in 0 .. n - 1, k \in S PROVE k + 1 \in S
  <2>1. PICK f \in [0 .. k -> A] : f[0] = a /\ \A i \in 1 .. k : f[i] = F[<<i, f[i - 1]>>]
    BY <1>2
  <2>. DEFINE new == F[<<k + 1, f[k]>>]
              g   == [i \in 0 .. k + 1 |-> IF i = k + 1 THEN new ELSE f[i]]
  <2>2. new \in A
    <3>1. k + 1 \in 1 .. n /\ k \in 0 .. k
      OBVIOUS
    <3>2. f[k] \in A
      BY <3>1
    <3>. QED
      BY <3>1, <3>2
  <2>. HIDE DEF new
  <2>3. g \in [0 .. k + 1 -> A] /\ g[0] = a
    BY <2>1, <2>2
  <2>4. ASSUME NEW i \in 1 .. k + 1 PROVE g[i] = F[<<i, g[i - 1]>>]
    <3>1. i - 1 \in 0 .. k /\ g[i - 1] = f[i - 1]
      OBVIOUS
    <3>2. CASE i = k + 1
      <4>1. g[i] = new /\ i - 1 = k
        BY <3>2
      <4>. QED
        BY <3>1, <3>2, <4>1 DEF new
    <3>3. CASE i # k + 1
      <4>1. i \in 1 .. k /\ g[i] = f[i]
        BY <3>3
      <4>. QED
        BY <2>1, <3>1, <4>1
    <3>. QED
      BY <3>2, <3>3
  <2>5. k + 1 \in 0 .. n
    OBVIOUS
  <2>. HIDE DEF g
  <2>. QED
    BY <2>3, <2>4, <2>5
<1>3. n \in S
  <2>. HIDE DEF S
  <2>. QED
    BY <1>1, <1>2, Climbs
<1>4. PICK f \in [0 .. n -> A] : f[0] = a /\ \A i \in 1 .. n : f[i] = F[<<i, f[i - 1]>>]
  BY <1>3
<1>5. \A i \in 0 .. n : f[i] = IF i = 0 THEN a ELSE F[<<i, f[i - 1]>>]
  BY <1>4
<1>6. f = [i \in 0 .. n |-> IF i = 0 THEN a ELSE F[<<i, f[i - 1]>>]]
  BY <1>5
<1>. QED
  BY <1>6 DEF Follows

(***************************************************************************)
(* FlattenSeq: what each of the sequences adds.                            *)
(***************************************************************************)
Accumulates(f, T, ss) ==
    /\ f \in [1 .. Len(ss) -> Seq(T)]
    /\ \A i \in 1 .. Len(ss) : f[i] = IF i = 1 THEN ss[i] ELSE f[i - 1] \o ss[i]

LEMMA Flattened ==
    ASSUME NEW T, NEW ss \in Seq(Seq(T)), ss # <<>>
    PROVE  \E f : Accumulates(f, T, ss) /\ FlattenSeq(ss) = f[Len(ss)]
<1>1. PICK n \in Nat : n = Len(ss) - 1
  OBVIOUS
<1>2. Len(ss) = n + 1 /\ Len(ss) # 0 /\ \A i \in 1 .. n + 1 : ss[i] \in Seq(T)
  BY <1>1
<1>. DEFINE F == [p \in (1 .. n) \X Seq(T) |-> p[2] \o ss[p[1] + 1]]
<1>3. F \in [(1 .. n) \X Seq(T) -> Seq(T)]
  <2>. SUFFICES ASSUME NEW p \in (1 .. n) \X Seq(T) PROVE p[2] \o ss[p[1] + 1] \in Seq(T)
    OBVIOUS
  <2>1. p[2] \in Seq(T) /\ ss[p[1] + 1] \in Seq(T)
    BY <1>2
  <2>. QED
    BY <2>1
<1>. HIDE DEF F
<1>4. PICK g \in [0 .. n -> Seq(T)] : Follows(g, n, ss[1], F)
  <2>1. ss[1] \in Seq(T)
    BY <1>2
  <2>. QED
    BY <1>3, <2>1, Recursion
<1>. DEFINE f == [i \in 1 .. n + 1 |-> g[i - 1]]
<1>5. ASSUME NEW i \in 1 .. n + 1 PROVE f[i] = IF i = 1 THEN ss[i] ELSE f[i - 1] \o ss[i]
  <2>1. i - 1 \in 0 .. n /\ g[i - 1] = IF i - 1 = 0 THEN ss[1] ELSE F[<<i - 1, g[(i - 1) - 1]>>]
    BY <1>4 DEF Follows
  <2>2. CASE i = 1
    BY <2>1, <2>2
  <2>3. CASE i # 1
    <3>1. i - 1 \in 1 .. n /\ i - 1 \in 1 .. n + 1 /\ (i - 1) - 1 \in 0 .. n /\ (i - 1) + 1 = i
      BY <2>3
    <3>2. F[<<i - 1, g[(i - 1) - 1]>>] = g[(i - 1) - 1] \o ss[i]
      BY <3>1 DEF F
    <3>3. f[i] = g[i - 1] /\ f[i - 1] = g[(i - 1) - 1]
      BY <3>1
    <3>. HIDE DEF f
    <3>5. i - 1 # 0
      BY <2>3
    <3>6. g[i - 1] = F[<<i - 1, g[(i - 1) - 1]>>]
      BY <2>1, <3>5
    <3>4. g[i - 1] = f[i - 1] \o ss[i]
      BY <3>2, <3>3, <3>6
    <3>. QED
      BY <2>3, <3>3, <3>4
  <2>. QED
    BY <2>2, <2>3
<1>6. f \in [1 .. Len(ss) -> Seq(T)]
  <2>. SUFFICES ASSUME NEW i \in 1 .. n + 1 PROVE g[i - 1] \in Seq(T)
    BY <1>2
  <2>1. i - 1 \in 0 .. n
    OBVIOUS
  <2>. QED
    BY <2>1
<1>7. f = [i \in 1 .. Len(ss) |-> f[i]]
  BY <1>2
<1>. HIDE DEF f
<1>. DEFINE P(h) == h = [i \in 1 .. Len(ss) |-> IF i = 1 THEN ss[i] ELSE h[i - 1] \o ss[i]]
            flatten == CHOOSE h : P(h)
<1>8. P(f)
  BY <1>2, <1>5, <1>7
<1>9. P(flatten)
  <2>. HIDE DEF P
  <2>. QED
    BY <1>8, Zenon
<1>10. FlattenSeq(ss) = flatten[Len(ss)]
  BY <1>2, Zenon DEF FlattenSeq
<1>. HIDE DEF flatten
<1>11. flatten \in [1 .. Len(ss) -> Seq(T)]
  <2>. SUFFICES ASSUME NEW i \in 1 .. Len(ss) PROVE flatten[i] \in Seq(T)
    BY <1>9
  <2>. DEFINE S == {k \in Nat : k + 1 \in 1 .. Len(ss) => flatten[k + 1] \in Seq(T)}
  <2>1. 0 \in S
    BY <1>2, <1>9
  <2>2. ASSUME NEW k \in 0 .. n - 1, k \in S PROVE k + 1 \in S
    <3>1. k + 1 \in 1 .. Len(ss) /\ (k + 1) + 1 \in 1 .. Len(ss) /\ ((k + 1) + 1) - 1 = k + 1 /\ (k + 1) + 1 # 1
      BY <1>2
    <3>2. flatten[(k + 1) + 1] = flatten[k + 1] \o ss[(k + 1) + 1]
      BY <1>9, <3>1
    <3>3. flatten[k + 1] \in Seq(T) /\ ss[(k + 1) + 1] \in Seq(T)
      BY <1>2, <2>2, <3>1
    <3>4. flatten[(k + 1) + 1] \in Seq(T)
      BY <3>2, <3>3
    <3>. QED
      BY <3>4
  <2>3. 0 .. n \subseteq S
    <3>. HIDE DEF S
    <3>. QED
      BY <2>1, <2>2, Climbs
  <2>4. i - 1 \in 0 .. n /\ (i - 1) + 1 = i
    BY <1>2
  <2>. QED
    BY <2>3, <2>4
<1>12. \A i \in 1 .. Len(ss) : flatten[i] = IF i = 1 THEN ss[i] ELSE flatten[i - 1] \o ss[i]
  BY <1>9
<1>. QED
  BY <1>10, <1>11, <1>12 DEF Accumulates

LEMMA FlatIsASequence == ASSUME NEW T, NEW ss \in Seq(Seq(T)) PROVE FlattenSeq(ss) \in Seq(T)
<1>1. CASE ss = <<>>
  BY <1>1 DEF FlattenSeq
<1>2. CASE ss # <<>>
  <2>1. PICK f : Accumulates(f, T, ss) /\ FlattenSeq(ss) = f[Len(ss)]
    BY <1>2, Flattened
  <2>2. Len(ss) \in 1 .. Len(ss)
    BY <1>2
  <2>. QED
    BY <2>1, <2>2 DEF Accumulates
<1>. QED
  BY <1>1, <1>2

(***************************************************************************)
(* How the statements lie in the sequence that is scanned: those of a      *)
(* segment side by side, in their order, and no two segments touch.        *)
(***************************************************************************)
Numbered(s) == \A i \in DOMAIN s : s[i].seg \in Nat /\ s[i].stmt \in Nat

Spaced(s) == \A i, j \in DOMAIN s : s[i].seg # 0 /\ s[i].seg = s[j].seg => j - i = s[j].stmt - s[i].stmt

Apart(s) == \A i, j \in DOMAIN s : j = i + 1 /\ s[i].seg # 0 /\ s[j].seg # 0 => s[i].seg = s[j].seg

Layout(s) == IsList(s) /\ Numbered(s) /\ Spaced(s) /\ Apart(s)

\* The statements of the segments up to m, with the last separator.
Closes(s, m) == Layout(s) /\ Len(s) > 0 /\ s[Len(s)].seg = 0 /\ \A i \in DOMAIN s : s[i].seg \in 0 .. m

\* The statements of one segment, with its separator.
Block(b, g) ==
    /\ IsList(b) /\ Len(b) > 0 /\ b[Len(b)].seg = 0 /\ b[Len(b)].stmt = 0
    /\ \A i \in 1 .. Len(b) - 1 : b[i].seg = g /\ b[i].stmt = i

LEMMA BlockCloses == ASSUME NEW g \in Nat \ {0}, NEW b, Block(b, g) PROVE Closes(b, g)
<1>0. Len(b) \in Nat /\ Len(b) > 0 /\ DOMAIN b = 1 .. Len(b)
  BY DEF Block, IsList
<1>1. PICK n \in Nat : n = Len(b) - 1 /\ Len(b) = n + 1 /\ DOMAIN b = 1 .. n + 1
  <2>1. Len(b) - 1 \in Nat /\ Len(b) = (Len(b) - 1) + 1
    BY <1>0
  <2>. QED
    BY <1>0, <2>1
<1>2. b[n + 1].seg = 0 /\ b[n + 1].stmt = 0 /\ \A i \in 1 .. n : b[i].seg = g /\ b[i].stmt = i
  BY <1>1 DEF Block
<1>3. \A i \in 1 .. n + 1 : i = n + 1 \/ i \in 1 .. n
  OBVIOUS
<1>4. Numbered(b)
  BY <1>1, <1>2, <1>3 DEF Numbered
<1>5. Spaced(b)
  BY <1>1, <1>2, <1>3 DEF Spaced
<1>6. Apart(b)
  BY <1>1, <1>2, <1>3 DEF Apart
<1>7. \A i \in DOMAIN b : b[i].seg \in 0 .. g
  BY <1>1, <1>2, <1>3
<1>. QED
  BY <1>1, <1>2, <1>4, <1>5, <1>6, <1>7 DEF Closes, Layout, IsList

LEMMA BlocksClose ==
    ASSUME NEW T, NEW s \in Seq(T), NEW b \in Seq(T), NEW m \in Nat, Closes(s, m), Block(b, m + 1)
    PROVE  Closes(s \o b, m + 1)
<1>1. PICK n \in Nat \ {0} : n = Len(s) /\ DOMAIN s = 1 .. n
  BY DEF Closes
<1>2. PICK k \in Nat \ {0} : k = Len(b) /\ DOMAIN b = 1 .. k
  BY DEF Block
<1>. DEFINE q == s \o b
<1>3. Len(q) = n + k /\ DOMAIN q = 1 .. n + k
  BY <1>1, <1>2
<1>4. \A i \in 1 .. n : q[i] = s[i]
  BY <1>1, <1>2
<1>5. \A i \in n + 1 .. n + k : q[i] = b[i - n]
  BY <1>1, <1>2
<1>. HIDE DEF q
<1>6. Closes(b, m + 1)
  BY BlockCloses
<1>7. \A i \in 1 .. n + k : i \in 1 .. n \/ (i \in n + 1 .. n + k /\ i - n \in 1 .. k)
  OBVIOUS
<1>8. \A i \in 1 .. n : s[i].seg \in 0 .. m /\ s[i].stmt \in Nat
  BY <1>1 DEF Closes, Layout, Numbered
<1>9. \A i \in 1 .. k : (b[i].seg = 0 \/ b[i].seg = m + 1) /\ b[i].stmt \in Nat
  <2>1. \A i \in 1 .. k : i = k \/ i \in 1 .. k - 1
    OBVIOUS
  <2>. QED
    BY <1>2, <2>1 DEF Block
<1>10. Numbered(q) /\ \A i \in DOMAIN q : q[i].seg \in 0 .. m + 1
  <2>. SUFFICES ASSUME NEW i \in 1 .. n + k PROVE q[i].seg \in 0 .. m + 1 /\ q[i].stmt \in Nat
    BY <1>3 DEF Numbered
  <2>1. CASE i \in 1 .. n
    <3>1. s[i].seg \in 0 .. m /\ s[i].stmt \in Nat /\ q[i] = s[i]
      BY <1>4, <1>8, <2>1
    <3>. QED
      BY <3>1
  <2>2. CASE i \in n + 1 .. n + k
    <3>1. i - n \in 1 .. k /\ q[i] = b[i - n]
      BY <1>5, <2>2
    <3>. QED
      BY <1>9, <3>1
  <2>. QED
    BY <1>7, <2>1, <2>2
<1>11. Spaced(q)
  <2>. SUFFICES ASSUME NEW i \in 1 .. n + k, NEW j \in 1 .. n + k, q[i].seg # 0, q[i].seg = q[j].seg
                PROVE  j - i = q[j].stmt - q[i].stmt
    BY <1>3 DEF Spaced
  <2>1. CASE i \in 1 .. n /\ j \in 1 .. n
    BY <1>1, <1>4, <2>1 DEF Closes, Layout, Spaced
  <2>2. CASE i \in n + 1 .. n + k /\ j \in n + 1 .. n + k
    <3>1. i - n \in 1 .. k /\ j - n \in 1 .. k /\ (j - n) - (i - n) = j - i
      BY <2>2
    <3>2. q[i] = b[i - n] /\ q[j] = b[j - n]
      BY <1>5, <2>2
    <3>3. (j - n) - (i - n) = b[j - n].stmt - b[i - n].stmt
      BY <1>2, <1>6, <3>1, <3>2 DEF Closes, Layout, Spaced
    <3>. QED
      BY <3>1, <3>2, <3>3
  <2>3. CASE i \in 1 .. n /\ j \in n + 1 .. n + k
    <3>1. j - n \in 1 .. k /\ q[i] = s[i] /\ q[j] = b[j - n]
      BY <1>4, <1>5, <2>3
    <3>. QED
      BY <1>8, <1>9, <2>3, <3>1
  <2>4. CASE i \in n + 1 .. n + k /\ j \in 1 .. n
    <3>1. i - n \in 1 .. k /\ q[j] = s[j] /\ q[i] = b[i - n]
      BY <1>4, <1>5, <2>4
    <3>. QED
      BY <1>8, <1>9, <2>4, <3>1
  <2>. QED
    BY <1>7, <2>1, <2>2, <2>3, <2>4
<1>12. Apart(q)
  <2>. SUFFICES ASSUME NEW i \in 1 .. n + k, i + 1 \in 1 .. n + k, q[i].seg # 0, q[i + 1].seg # 0
                PROVE  q[i].seg = q[i + 1].seg
    BY <1>3 DEF Apart
  <2>1. CASE i \in 1 .. n - 1
    <3>1. i \in 1 .. n /\ i + 1 \in 1 .. n
      BY <2>1
    <3>2. q[i] = s[i] /\ q[i + 1] = s[i + 1]
      BY <1>4, <3>1
    <3>3. \A x, y \in 1 .. n : y = x + 1 /\ s[x].seg # 0 /\ s[y].seg # 0 => s[x].seg = s[y].seg
      <4>1. Apart(s)
        BY DEF Closes, Layout
      <4>. QED
        BY <1>1, <4>1, Zenon DEF Apart
    <3>4. s[i].seg # 0 /\ s[i + 1].seg # 0
      BY <3>2
    <3>5. s[i].seg = s[i + 1].seg
      BY <3>1, <3>3, <3>4
    <3>. QED
      BY <3>2, <3>5
  <2>2. CASE i = n
    BY <1>1, <1>4, <2>2 DEF Closes
  <2>3. CASE i \in n + 1 .. n + k
    <3>1. i - n \in 1 .. k /\ (i + 1) - n \in 1 .. k /\ (i + 1) - n = (i - n) + 1 /\ i + 1 \in n + 1 .. n + k
      BY <2>3
    <3>2. q[i] = b[i - n] /\ q[i + 1] = b[(i + 1) - n]
      BY <1>5, <2>3, <3>1
    <3>3. \A x, y \in 1 .. k : y = x + 1 /\ b[x].seg # 0 /\ b[y].seg # 0 => b[x].seg = b[y].seg
      <4>1. Apart(b)
        BY <1>6 DEF Closes, Layout
      <4>. QED
        BY <1>2, <4>1, Zenon DEF Apart
    <3>4. b[i - n].seg # 0 /\ b[(i + 1) - n].seg # 0
      BY <3>2
    <3>5. b[i - n].seg = b[(i + 1) - n].seg
      BY <3>1, <3>3, <3>4
    <3>. QED
      BY <3>2, <3>5
  <2>. QED
    BY <2>1, <2>2, <2>3
<1>13. q[n + k].seg = 0
  <2>1. n + k \in n + 1 .. n + k /\ (n + k) - n = k
    OBVIOUS
  <2>. QED
    BY <1>2, <1>5, <2>1 DEF Block
<1>. QED
  BY <1>3, <1>10, <1>11, <1>12, <1>13 DEF Closes, Layout, IsList, q

EntryOf(segs, two, g, i) ==
    [seg |-> g, stmt |-> i, norm |-> Filled(segs, g, i, two, BlockTypes(segs, two)),
     norm1 |-> Filled(segs, g, i, FALSE, BlockTypes(segs, two))]

BlockOf(segs, two, g) == Append([i \in DOMAIN segs[g].stmts |-> EntryOf(segs, two, g, i)], Separator)

Entries(segs, two) == {EntryOf(segs, two, x[1], x[2]) : x \in Nat \X Nat} \cup {Separator}

LEMMA FlatIsLaidOut ==
    ASSUME NEW segs, NEW two, IsProgram(segs)
    PROVE  /\ FlatOf(segs, two) \in Seq(Entries(segs, two)) /\ Layout(FlatOf(segs, two))
           /\ FlatOf(segs, two) # <<>> => FlatOf(segs, two)[Len(FlatOf(segs, two))].seg = 0
<1>. DEFINE T  == Entries(segs, two)
            ss == [g \in DOMAIN segs |-> BlockOf(segs, two, g)]
<1>1. PICK n \in Nat : n = Len(segs) /\ DOMAIN segs = 1 .. n
  BY DEF IsProgram
<1>2. ASSUME NEW g \in 1 .. n PROVE BlockOf(segs, two, g) \in Seq(T) /\ Block(BlockOf(segs, two, g), g)
  <2>1. segs[g].stmts \in Seq(Range(segs[g].stmts))
    BY <1>1 DEF IsProgram
  <2>2. PICK k \in Nat : k = Len(segs[g].stmts) /\ DOMAIN segs[g].stmts = 1 .. k
    BY <2>1
  <2>. DEFINE e == [i \in 1 .. k |-> EntryOf(segs, two, g, i)]
              b == BlockOf(segs, two, g)
  <2>3. \A i \in 1 .. k : EntryOf(segs, two, g, i) \in T
    <3>. SUFFICES ASSUME NEW i \in 1 .. k PROVE EntryOf(segs, two, g, i) \in T
      OBVIOUS
    <3>1. <<g, i>> \in Nat \X Nat /\ <<g, i>>[1] = g /\ <<g, i>>[2] = i
      OBVIOUS
    <3>. QED
      BY <3>1, Zenon DEF Entries
  <2>4. Separator \in T
    BY DEF Entries
  <2>5. \A i \in 1 .. k : EntryOf(segs, two, g, i).seg = g /\ EntryOf(segs, two, g, i).stmt = i
    BY DEF EntryOf
  <2>6. Separator.seg = 0 /\ Separator.stmt = 0
    BY DEF Separator
  <2>7. b = Append(e, Separator)
    BY <2>2 DEF BlockOf
  <2>. HIDE DEF T, b
  <2>8. e \in Seq(T) /\ Len(e) = k /\ \A i \in 1 .. k : e[i] = EntryOf(segs, two, g, i)
    BY <2>3
  <2>. HIDE DEF e
  <2>9. /\ b \in Seq(T) /\ Len(b) = k + 1 /\ DOMAIN b = 1 .. k + 1
        /\ b[k + 1] = Separator /\ \A i \in 1 .. k : b[i] = e[i]
    BY <2>4, <2>7, <2>8
  <2>10. Block(b, g)
    <3>1. \A i \in 1 .. k : b[i].seg = g /\ b[i].stmt = i
      BY <2>5, <2>8, <2>9
    <3>. QED
      BY <2>6, <2>9, <3>1 DEF Block, IsList
  <2>. QED
    BY <2>9, <2>10 DEF b
<1>3. FlatOf(segs, two) = FlattenSeq(ss)
  BY DEF FlatOf, BlockOf, EntryOf
<1>. HIDE DEF T
<1>4. ss \in Seq(Seq(T)) /\ Len(ss) = n /\ \A g \in 1 .. n : ss[g] = BlockOf(segs, two, g)
  BY <1>1, <1>2
<1>. HIDE DEF ss
<1>5. FlattenSeq(ss) \in Seq(T)
  BY <1>4, FlatIsASequence
<1>6. CASE n = 0
  <2>1. ss = <<>> /\ FlattenSeq(ss) = <<>>
    BY <1>4, <1>6 DEF FlattenSeq
  <2>2. Layout(<<>>)
    BY DEF Layout, IsList, Numbered, Spaced, Apart
  <2>. QED
    BY <1>3, <1>5, <2>1, <2>2 DEF T
<1>7. CASE n # 0
  <2>1. ss # <<>>
    BY <1>4, <1>7
  <2>2. PICK f : Accumulates(f, T, ss) /\ FlattenSeq(ss) = f[n]
    BY <1>4, <2>1, Flattened
  <2>3. \A g \in 1 .. n : f[g] \in Seq(T) /\ f[g] = IF g = 1 THEN ss[g] ELSE f[g - 1] \o ss[g]
    BY <1>4, <2>2 DEF Accumulates
  <2>. DEFINE S == {k \in Nat : k + 1 \in 1 .. n => Closes(f[k + 1], k + 1)}
  <2>4. 0 \in S
    <3>1. 1 \in 1 .. n /\ 0 + 1 = 1 /\ 1 \in Nat \ {0}
      BY <1>7
    <3>2. f[1] = BlockOf(segs, two, 1) /\ Block(BlockOf(segs, two, 1), 1)
      BY <1>2, <1>4, <2>3, <3>1
    <3>3. Closes(f[1], 1)
      BY <3>1, <3>2, BlockCloses
    <3>. QED
      BY <3>1, <3>3
  <2>5. ASSUME NEW k \in 0 .. n - 1 - 1, k \in S PROVE k + 1 \in S
    <3>1. k + 1 \in 1 .. n /\ (k + 1) + 1 \in 1 .. n /\ ((k + 1) + 1) - 1 = k + 1 /\ (k + 1) + 1 # 1 /\ k + 1 \in Nat
      OBVIOUS
    <3>2. Closes(f[k + 1], k + 1)
      BY <2>5, <3>1
    <3>3. f[(k + 1) + 1] = f[k + 1] \o ss[(k + 1) + 1] /\ f[k + 1] \in Seq(T)
      BY <2>3, <3>1
    <3>4. ss[(k + 1) + 1] \in Seq(T) /\ Block(ss[(k + 1) + 1], (k + 1) + 1)
      BY <1>2, <1>4, <3>1
    <3>5. Closes(f[k + 1] \o ss[(k + 1) + 1], (k + 1) + 1)
      BY <3>1, <3>2, <3>3, <3>4, BlocksClose
    <3>6. Closes(f[(k + 1) + 1], (k + 1) + 1)
      BY <3>3, <3>5
    <3>. QED
      BY <3>1, <3>6
  <2>6. 0 .. n - 1 \subseteq S
    <3>1. n - 1 \in Nat
      BY <1>7
    <3>. HIDE DEF S
    <3>. QED
      BY <2>4, <2>5, <3>1, Climbs
  <2>7. n - 1 \in 0 .. n - 1 /\ (n - 1) + 1 = n /\ n \in 1 .. n
    BY <1>7
  <2>8. Closes(f[n], n)
    BY <2>6, <2>7
  <2>. QED
    BY <1>3, <1>5, <2>2, <2>8 DEF T, Closes
<1>. QED
  BY <1>6, <1>7

(***************************************************************************)
(* Runs.  What the scan finds are pairs of runs of statements with the     *)
(* same texts; a run lies in one segment, and its place there gives it     *)
(* back.                                                                   *)
(***************************************************************************)
IsRun(f, start, len) ==
    /\ start \in Nat /\ len \in Nat \ {0}
    /\ \A k \in start .. start + len - 1 : k \in DOMAIN f /\ f[k].seg # 0

RunPair(f, p) == IsRun(f, p.a, p.len) /\ IsRun(f, p.b, p.len)

LEMMA FoundAreRuns == ASSUME ScanInv, NEW p \in found PROVE RunPair(flat, p)
<1>1. p.a \in Nat /\ p.b \in Nat /\ p.len \in Nat
  BY DEF ScanInv, FoundTypeOK
<1>2. p.len > 0 /\ \A k \in p.a .. p.a + p.len - 1 : Match(k, p.b - p.a)
  BY DEF ScanInv, ScanExact, ScanSound, Ended, RunOf
<1>3. \A k \in Int : Match(k, p.b - p.a) => IsStatement(k) /\ IsStatement(k + (p.b - p.a))
  BY DEF Match, Matches, Index
<1>4. \A k \in p.a .. p.a + p.len - 1 : k \in DOMAIN flat /\ flat[k].seg # 0
  BY <1>1, <1>2, <1>3 DEF IsStatement
<1>5. ASSUME NEW k \in p.b .. p.b + p.len - 1 PROVE k \in DOMAIN flat /\ flat[k].seg # 0
  <2>1. k - (p.b - p.a) \in p.a .. p.a + p.len - 1 /\ k - (p.b - p.a) \in Int /\ (k - (p.b - p.a)) + (p.b - p.a) = k
    BY <1>1
  <2>2. IsStatement(k)
    BY <1>2, <1>3, <2>1
  <2>. QED
    BY <2>2 DEF IsStatement
<1>. QED
  BY <1>1, <1>2, <1>4, <1>5 DEF RunPair, IsRun

LEMMA RunInASegment ==
    ASSUME NEW f, Layout(f), NEW start, NEW len, IsRun(f, start, len)
    PROVE  /\ f[start].seg \in Nat \ {0} /\ f[start].stmt \in Nat
           /\ \A k \in start .. start + len - 1 : f[k].seg = f[start].seg /\ f[k].stmt = f[start].stmt + (k - start)
<1>1. /\ start \in Nat /\ len \in Nat \ {0} /\ len - 1 \in Nat
      /\ \A k \in start .. start + len - 1 : k \in DOMAIN f /\ f[k].seg # 0
  BY DEF IsRun
<1>2. start \in start .. start + len - 1
  BY <1>1
<1>3. f[start].seg \in Nat \ {0} /\ f[start].stmt \in Nat
  BY <1>1, <1>2 DEF Layout, Numbered
<1>. DEFINE S == {k \in Nat : start + k \in start .. start + len - 1 => f[start + k].seg = f[start].seg}
<1>4. 0 \in S
  BY <1>1
<1>5. ASSUME NEW k \in 0 .. len - 1 - 1, k \in S PROVE k + 1 \in S
  <2>1. start + k \in start .. start + len - 1 /\ start + (k + 1) \in start .. start + len - 1
        /\ start + (k + 1) = (start + k) + 1 /\ k + 1 \in Nat
    BY <1>1
  <2>2. f[start + k].seg = f[start].seg
    BY <1>5, <2>1
  <2>3. f[start + k].seg = f[start + (k + 1)].seg
    <3>1. Apart(f)
      BY DEF Layout
    <3>2. start + k \in DOMAIN f /\ start + (k + 1) \in DOMAIN f /\ f[start + k].seg # 0 /\ f[start + (k + 1)].seg # 0
      BY <1>1, <2>1
    <3>. QED
      BY <2>1, <3>1, <3>2, Zenon DEF Apart
  <2>4. f[start + (k + 1)].seg = f[start].seg
    BY <2>2, <2>3
  <2>. QED
    BY <2>1, <2>4
<1>6. 0 .. len - 1 \subseteq S
  <2>. HIDE DEF S
  <2>. QED
    BY <1>1, <1>4, <1>5, Climbs
<1>7. ASSUME NEW k \in start .. start + len - 1 PROVE f[k].seg = f[start].seg /\ f[k].stmt = f[start].stmt + (k - start)
  <2>1. k - start \in 0 .. len - 1 /\ start + (k - start) = k
    BY <1>1
  <2>2. f[k].seg = f[start].seg
    BY <1>6, <2>1
  <2>3. k - start = f[k].stmt - f[start].stmt
    <3>1. Spaced(f)
      BY DEF Layout
    <3>2. k \in DOMAIN f /\ start \in DOMAIN f /\ f[start].seg # 0
      BY <1>1, <1>2
    <3>. QED
      BY <2>2, <3>1, <3>2, Zenon DEF Spaced
  <2>4. f[k].stmt \in Nat
    BY <1>1 DEF Layout, Numbered
  <2>. QED
    BY <1>1, <1>3, <2>2, <2>3, <2>4
<1>. QED
  BY <1>3, <1>7

LEMMA PlaceOfARun ==
    ASSUME NEW f, Layout(f), NEW start, NEW len, IsRun(f, start, len), NEW o, o = Occurrence(f, start, len)
    PROVE  /\ o.seg \in Nat \ {0} /\ o.from \in Nat /\ o.to \in Nat /\ o.to = o.from + len - 1
           /\ {i \in DOMAIN f : f[i].seg = o.seg /\ f[i].stmt \in o.from .. o.to} = start .. start + len - 1
<1>1. /\ start \in Nat /\ len \in Nat \ {0} /\ len - 1 \in Nat
      /\ \A k \in start .. start + len - 1 : k \in DOMAIN f /\ f[k].seg # 0
  BY DEF IsRun
<1>2. start \in start .. start + len - 1 /\ start + len - 1 \in start .. start + len - 1
  BY <1>1
<1>3. o.seg = f[start].seg /\ o.from = f[start].stmt /\ o.to = f[start + len - 1].stmt
  BY DEF Occurrence
<1>4. o.seg \in Nat \ {0} /\ o.from \in Nat /\ o.to \in Nat /\ o.to = o.from + len - 1
  BY <1>1, <1>2, <1>3, RunInASegment
<1>5. ASSUME NEW i \in DOMAIN f, f[i].seg = o.seg, f[i].stmt \in o.from .. o.to PROVE i \in start .. start + len - 1
  <2>1. start \in DOMAIN f /\ i \in Nat
    BY <1>1, <1>2 DEF Layout, IsList
  <2>2. i - start = f[i].stmt - f[start].stmt
    <3>1. Spaced(f)
      BY DEF Layout
    <3>2. f[start].seg # 0 /\ f[start].seg = f[i].seg
      BY <1>3, <1>4, <1>5
    <3>. QED
      BY <2>1, <3>1, <3>2, Zenon DEF Spaced
  <2>3. f[i].stmt \in Nat
    BY DEF Layout, Numbered
  <2>. QED
    BY <1>1, <1>3, <1>4, <1>5, <2>1, <2>2, <2>3
<1>6. ASSUME NEW i \in start .. start + len - 1
      PROVE  i \in DOMAIN f /\ f[i].seg = o.seg /\ f[i].stmt \in o.from .. o.to
  <2>1. f[i].seg = f[start].seg /\ f[i].stmt = f[start].stmt + (i - start)
    BY RunInASegment
  <2>. QED
    BY <1>1, <1>3, <1>4, <2>1
<1>. QED
  BY <1>4, <1>5, <1>6

LEMMA ExactTextOfARun ==
    ASSUME NEW f, Layout(f), NEW start, NEW len, IsRun(f, start, len)
    PROVE  Len(ExactText(f, Occurrence(f, start, len))) = len
<1>. DEFINE o == Occurrence(f, start, len)
            inside == {i \in DOMAIN f : f[i].seg = o.seg /\ f[i].stmt \in o.from .. o.to}
<1>1. start \in Nat /\ len \in Nat \ {0}
  BY DEF IsRun
<1>2. inside = start .. start + len - 1
  BY PlaceOfARun
<1>. HIDE DEF o
<1>3. Cardinality(inside) = len
  <2>. HIDE DEF inside
  <2>1. Cardinality(start .. start + len - 1) = IF start > start + len - 1 THEN 0 ELSE (start + len - 1) - start + 1
    BY <1>1, FS_Interval
  <2>. QED
    BY <1>1, <1>2, <2>1
<1>4. ExactText(f, o) = [k \in 1 .. Cardinality(inside) |-> f[Min(inside) + k - 1].norm1]
  BY DEF ExactText
<1>. HIDE DEF inside
<1>5. ExactText(f, o) = [k \in 1 .. len |-> f[Min(inside) + k - 1].norm1]
  BY <1>3, <1>4
<1>. QED
  BY <1>1, <1>5 DEF o

(***************************************************************************)
(* Classes.  Every occurrence of a class is a run of the class's length,   *)
(* so that the occurrences tell how long the class is.                     *)
(***************************************************************************)
ClassOn(f, c) ==
    /\ c.type \in {"I", "II"} /\ c.occs # {}
    /\ \A o \in c.occs : \E start \in Nat : IsRun(f, start, c.len) /\ o = Occurrence(f, start, c.len)

LEMMA LengthOfAClass ==
    ASSUME NEW f, Layout(f), NEW c, ClassOn(f, c)
    PROVE  /\ c.len \in 1 .. Len(f)
           /\ \A o \in c.occs : o.seg \in Nat \ {0} /\ o.from \in Nat /\ o.to \in Nat /\ c.len = o.to - o.from + 1
<1>1. ASSUME NEW o \in c.occs
      PROVE  /\ o.seg \in Nat \ {0} /\ o.from \in Nat /\ o.to \in Nat /\ c.len = o.to - o.from + 1
             /\ c.len \in 1 .. Len(f)
  <2>1. PICK start \in Nat : IsRun(f, start, c.len) /\ o = Occurrence(f, start, c.len)
    BY DEF ClassOn
  <2>2. o.seg \in Nat \ {0} /\ o.from \in Nat /\ o.to \in Nat /\ o.to = o.from + c.len - 1
    BY <2>1, PlaceOfARun
  <2>3. c.len \in Nat \ {0} /\ start + c.len - 1 \in DOMAIN f
    <3>1. c.len \in Nat \ {0} /\ \A k \in start .. start + c.len - 1 : k \in DOMAIN f
      BY <2>1 DEF IsRun
    <3>2. start + c.len - 1 \in start .. start + c.len - 1
      BY <3>1
    <3>. QED
      BY <3>1, <3>2
  <2>4. start \in DOMAIN f /\ DOMAIN f = 1 .. Len(f) /\ Len(f) \in Nat
    <3>1. start \in start .. start + c.len - 1
      BY <2>3
    <3>. QED
      BY <2>1, <3>1 DEF IsRun, Layout, IsList
  <2>5. c.len = o.to - o.from + 1
    BY <2>2, <2>3
  <2>6. c.len \in 1 .. Len(f)
    BY <2>3, <2>4
  <2>. QED
    BY <2>2, <2>5, <2>6
<1>2. \E o : o \in c.occs
  BY DEF ClassOn
<1>. QED
  BY <1>1, <1>2

LEMMA GroupedAreClasses ==
    ASSUME NEW f, Layout(f), NEW pairs, \A p \in pairs : RunPair(f, p), NEW type \in {"I", "II"}
    PROVE  /\ \A c \in Grouped(type, f, pairs) : ClassOn(f, c) /\ c.type = type
           /\ \A p \in pairs : \E c \in Grouped(type, f, pairs) :
                 Occurrence(f, p.a, p.len) \in c.occs /\ Occurrence(f, p.b, p.len) \in c.occs
<1>1. \A p \in pairs : Len(TextOf(f, p)) = p.len
  BY DEF TextOf, RunPair, IsRun
<1>2. ASSUME NEW c \in Grouped(type, f, pairs) PROVE ClassOn(f, c) /\ c.type = type
  <2>1. PICK p \in pairs : c = Class(type, TextOf(f, p), SameContent(f, pairs, TextOf(f, p)))
    BY DEF Grouped
  <2>2. c.type = type /\ c.len = p.len /\ c.occs = SameContent(f, pairs, TextOf(f, p))
    BY <1>1, <2>1 DEF Class
  <2>3. Occurrence(f, p.a, p.len) \in c.occs
    BY <2>2 DEF SameContent
  <2>4. ASSUME NEW o \in c.occs
        PROVE \E start \in Nat : IsRun(f, start, c.len) /\ o = Occurrence(f, start, c.len)
    <3>1. PICK q \in pairs : /\ TextOf(f, q) = TextOf(f, p)
                             /\ o = Occurrence(f, q.a, q.len) \/ o = Occurrence(f, q.b, q.len)
      BY <2>2 DEF SameContent
    <3>2. q.len = c.len
      BY <1>1, <2>2, <3>1
    <3>3. IsRun(f, q.a, q.len) /\ IsRun(f, q.b, q.len) /\ q.a \in Nat /\ q.b \in Nat
      BY DEF RunPair, IsRun
    <3>. QED
      BY <3>1, <3>2, <3>3
  <2>. QED
    BY <2>2, <2>3, <2>4 DEF ClassOn
<1>3. ASSUME NEW p \in pairs
      PROVE  \E c \in Grouped(type, f, pairs) : Occurrence(f, p.a, p.len) \in c.occs /\ Occurrence(f, p.b, p.len) \in c.occs
  <2>. DEFINE c == Class(type, TextOf(f, p), SameContent(f, pairs, TextOf(f, p)))
  <2>1. c \in Grouped(type, f, pairs)
    BY DEF Grouped
  <2>2. c.occs = SameContent(f, pairs, TextOf(f, p))
    BY DEF Class
  <2>3. Occurrence(f, p.a, p.len) \in c.occs /\ Occurrence(f, p.b, p.len) \in c.occs
    BY <2>2 DEF SameContent
  <2>. QED
    BY <2>1, <2>3
<1>. QED
  BY <1>2, <1>3

LEMMA EmbeddedAreClasses ==
    ASSUME NEW f, Layout(f), NEW classes, \A c \in classes : ClassOn(f, c)
    PROVE  \A c \in Embedded(f, classes) : ClassOn(f, c) /\ c.type = "I"
<1>. SUFFICES ASSUME NEW c \in Embedded(f, classes) PROVE ClassOn(f, c) /\ c.type = "I"
  OBVIOUS
<1>. DEFINE Exact(d, text) == {o \in d.occs : ExactText(f, o) = text}
            Pairs == {p \in classes \X {ExactText(f, o) : o \in UNION {d.occs : d \in classes}} :
                         Cardinality(Exact(p[1], p[2])) >= 2}
            Part(text) == UNION {Exact(p[1], text) : p \in {q \in Pairs : q[2] = text}}
<1>1. PICK text : (\E p \in Pairs : p[2] = text) /\ c = Class("I", text, Part(text))
  <2>1. Embedded(f, classes) = {Class("I", text, Part(text)) : text \in {p[2] : p \in Pairs}}
    BY Zenon DEF Embedded
  <2>. HIDE DEF Pairs, Part
  <2>. QED
    BY <2>1, Zenon
<1>2. c.type = "I" /\ c.len = Len(text) /\ c.occs = Part(text)
  BY <1>1 DEF Class
<1>3. ASSUME NEW o \in c.occs PROVE \E start \in Nat : IsRun(f, start, c.len) /\ o = Occurrence(f, start, c.len)
  <2>1. PICK d \in classes : o \in d.occs /\ ExactText(f, o) = text
    BY <1>2
  <2>2. PICK start \in Nat : IsRun(f, start, d.len) /\ o = Occurrence(f, start, d.len)
    BY <2>1 DEF ClassOn
  <2>3. d.len = c.len
    BY <1>2, <2>1, <2>2, ExactTextOfARun
  <2>. QED
    BY <2>2, <2>3
<1>4. c.occs # {}
  <2>1. PICK p \in Pairs : p[2] = text
    BY <1>1
  <2>2. Cardinality(Exact(p[1], text)) >= 2
    BY <2>1
  <2>3. Exact(p[1], text) # {}
    <3>. SUFFICES ASSUME Exact(p[1], text) = {} PROVE FALSE
      OBVIOUS
    <3>1. Cardinality({}) >= 2
      BY <2>2
    <3>. QED
      BY <3>1, FS_EmptySet
  <2>4. Exact(p[1], text) \subseteq Part(text)
    <3>. HIDE DEF Exact, Pairs
    <3>. QED
      BY <2>1, Zenon
  <2>. QED
    BY <1>2, <2>3, <2>4
<1>. QED
  BY <1>2, <1>3, <1>4 DEF ClassOn

(***************************************************************************)
(* The maximal filter.  A class is treated at its own length and nowhere   *)
(* else; what is dropped lies in classes that stay.                        *)
(***************************************************************************)
LEMMA GreatestNumber ==
    ASSUME NEW n \in Nat, NEW S, S \subseteq 0 .. n, S # {}
    PROVE  Max(S) \in S /\ \A x \in S : x <= Max(S)
<1>. DEFINE R == {n - x : x \in S}
<1>1. R \in SUBSET Nat /\ R # {}
  OBVIOUS
<1>2. PICK r \in R : \A m \in R : r <= m
  BY <1>1, LeastNumber
<1>3. n - r \in S /\ \A x \in S : n - r >= x
  BY <1>1, <1>2
<1>4. Max(S) \in S /\ \A x \in S : Max(S) >= x
  BY <1>3, Zenon DEF Max
<1>5. \A x \in S : x \in Int
  OBVIOUS
<1>. QED
  BY <1>4, <1>5

SizedClasses(classes, n) == \A c \in classes : c.type \in {"I", "II"} /\ c.len \in 1 .. n

LEMMA LongestIsLongest ==
    ASSUME NEW n \in Nat, NEW classes, SizedClasses(classes, n)
    PROVE  LongestOf(classes) \in Nat /\ \A c \in classes : c.len \in 1 .. LongestOf(classes)
<1>. DEFINE S == {c.len : c \in classes} \cup {0}
<1>1. S \subseteq 0 .. n /\ S # {}
  BY DEF SizedClasses
<1>2. LongestOf(classes) \in S /\ \A x \in S : x <= LongestOf(classes)
  <2>1. LongestOf(classes) = Max(S)
    BY DEF LongestOf
  <2>. HIDE DEF S
  <2>. QED
    BY <1>1, <2>1, GreatestNumber
<1>3. LongestOf(classes) \in Nat
  <2>1. \A x \in S : x \in Nat
    BY <1>1
  <2>. HIDE DEF S
  <2>. QED
    BY <1>2, <2>1, Zenon
<1>4. ASSUME NEW c \in classes PROVE c.len \in 1 .. LongestOf(classes)
  <2>1. c.len \in S /\ c.len \in Nat /\ c.len >= 1
    BY DEF SizedClasses
  <2>. HIDE DEF S
  <2>. QED
    BY <1>2, <1>3, <2>1
<1>. QED
  BY <1>3, <1>4

\* One length of the filter: type I, then type II.
KeepBoth(classes, kept, len) == Keep(classes, Keep(classes, kept, len, "I"), len, "II")

LEMMA KeptStepByStep ==
    ASSUME NEW n \in Nat, NEW classes, SizedClasses(classes, n)
    PROVE  /\ Kept(classes) \in [0 .. LongestOf(classes) -> SUBSET classes]
           /\ Kept(classes)[0] = {}
           /\ \A k \in 1 .. LongestOf(classes) :
                 Kept(classes)[k] = KeepBoth(classes, Kept(classes)[k - 1], LongestOf(classes) - k + 1)
<1>. DEFINE longest == LongestOf(classes)
<1>1. longest \in Nat
  BY LongestIsLongest
<1>. DEFINE F == [p \in (1 .. longest) \X SUBSET classes |-> KeepBoth(classes, p[2], longest - p[1] + 1)]
            Filter(g) == g = [k \in 0 .. longest |-> IF k = 0 THEN {} ELSE KeepBoth(classes, g[k - 1], longest - k + 1)]
            filter == CHOOSE g : Filter(g)
<1>. HIDE DEF longest
<1>2. \A kept \in SUBSET classes : \A len : KeepBoth(classes, kept, len) \in SUBSET classes
  BY DEF KeepBoth, Keep
<1>3. F \in [(1 .. longest) \X SUBSET classes -> SUBSET classes]
  BY <1>2
<1>4. \A k \in 1 .. longest, kept \in SUBSET classes : F[<<k, kept>>] = KeepBoth(classes, kept, longest - k + 1)
  OBVIOUS
<1>. HIDE DEF F
<1>5. PICK g \in [0 .. longest -> SUBSET classes] : Follows(g, longest, {}, F)
  BY <1>1, <1>3, Recursion
<1>6. Filter(g)
  <2>1. \A k \in 0 .. longest : g[k] = IF k = 0 THEN {} ELSE KeepBoth(classes, g[k - 1], longest - k + 1)
    <3>. SUFFICES ASSUME NEW k \in 0 .. longest
                  PROVE  g[k] = IF k = 0 THEN {} ELSE KeepBoth(classes, g[k - 1], longest - k + 1)
      OBVIOUS
    <3>1. g[k] = IF k = 0 THEN {} ELSE F[<<k, g[k - 1]>>]
      BY <1>5 DEF Follows
    <3>2. CASE k = 0
      BY <3>1, <3>2
    <3>3. CASE k # 0
      <4>1. k \in 1 .. longest /\ k - 1 \in 0 .. longest
        BY <1>1, <3>3
      <4>2. g[k - 1] \in SUBSET classes
        BY <4>1
      <4>. QED
        BY <1>4, <3>1, <3>3, <4>1, <4>2
    <3>. QED
      BY <3>2, <3>3
  <2>. QED
    BY <2>1
<1>7. Filter(filter)
  <2>. HIDE DEF Filter
  <2>. QED
    BY <1>6, Zenon
<1>8. Kept(classes) = filter
  BY Zenon DEF Kept, KeepBoth, longest
<1>. HIDE DEF filter
<1>9. /\ DOMAIN filter = 0 .. longest /\ filter[0] = {}
      /\ \A k \in 1 .. longest : filter[k] = KeepBoth(classes, filter[k - 1], longest - k + 1)
  <2>1. 0 \in 0 .. longest /\ \A k \in 1 .. longest : k \in 0 .. longest /\ k # 0
    BY <1>1
  <2>. QED
    BY <1>7, <2>1
<1>. DEFINE S == {k \in Nat : k \in 0 .. longest => filter[k] \in SUBSET classes}
<1>10. 0 \in S
  BY <1>9
<1>11. ASSUME NEW k \in 0 .. longest - 1, k \in S PROVE k + 1 \in S
  <2>1. k + 1 \in 1 .. longest /\ (k + 1) - 1 = k /\ k \in 0 .. longest /\ k + 1 \in Nat
    BY <1>1
  <2>2. filter[k] \in SUBSET classes
    BY <1>11, <2>1
  <2>3. filter[k + 1] \in SUBSET classes
    BY <1>2, <1>9, <2>1, <2>2
  <2>. QED
    BY <2>1, <2>3
<1>12. 0 .. longest \subseteq S
  <2>. HIDE DEF S
  <2>. QED
    BY <1>1, <1>10, <1>11, Climbs
<1>13. \A k \in 0 .. longest : filter[k] \in SUBSET classes
  BY <1>12
<1>. HIDE DEF Filter
<1>14. filter \in [0 .. longest -> SUBSET classes]
  <2>1. filter = [k \in 0 .. longest |-> filter[k]]
    BY <1>7 DEF Filter
  <2>. QED
    BY <1>13, <2>1
<1>. QED
  BY <1>8, <1>9, <1>14 DEF longest

LEMMA KeptGrows ==
    ASSUME NEW n \in Nat, NEW classes, SizedClasses(classes, n)
    PROVE  \A k \in 0 .. LongestOf(classes) : Kept(classes)[k] \subseteq Maximal(classes)
<1>. DEFINE longest == LongestOf(classes)
            kept    == Kept(classes)
<1>1. longest \in Nat
  BY LongestIsLongest
<1>2. \A k \in 1 .. longest : kept[k - 1] \subseteq kept[k]
  <2>1. \A k \in 1 .. longest : kept[k] = KeepBoth(classes, kept[k - 1], longest - k + 1)
    BY KeptStepByStep
  <2>2. \A S, len : S \subseteq KeepBoth(classes, S, len)
    BY DEF KeepBoth, Keep
  <2>. HIDE DEF longest, kept
  <2>. QED
    BY <2>1, <2>2
<1>3. Maximal(classes) = kept[longest]
  BY DEF Maximal
<1>. HIDE DEF longest, kept
<1>. SUFFICES ASSUME NEW k \in 0 .. longest PROVE kept[k] \subseteq kept[longest]
  BY <1>3 DEF longest, kept
<1>. DEFINE S == {j \in Nat : k + j \in 0 .. longest => kept[k] \subseteq kept[k + j]}
<1>4. 0 \in S
  OBVIOUS
<1>5. ASSUME NEW j \in 0 .. longest - k - 1, j \in S PROVE j + 1 \in S
  <2>1. k + j \in 0 .. longest /\ k + (j + 1) \in 1 .. longest /\ (k + (j + 1)) - 1 = k + j /\ j + 1 \in Nat
    BY <1>1
  <2>2. kept[k] \subseteq kept[k + j] /\ kept[k + j] \subseteq kept[k + (j + 1)]
    BY <1>2, <1>5, <2>1
  <2>. QED
    BY <2>1, <2>2
<1>6. 0 .. longest - k \subseteq S
  <2>1. longest - k \in Nat
    BY <1>1
  <2>. HIDE DEF S
  <2>. QED
    BY <1>4, <1>5, <2>1, Climbs
<1>7. longest - k \in 0 .. longest - k /\ k + (longest - k) = longest /\ longest \in 0 .. longest
  BY <1>1
<1>8. longest - k \in S
  BY <1>6, <1>7
<1>. QED
  BY <1>7, <1>8

\* Where a class that stays was kept: at its length, and not before.
LEMMA KeptAtItsLength ==
    ASSUME NEW n \in Nat, NEW classes, SizedClasses(classes, n), NEW c \in Maximal(classes)
    PROVE  /\ c \in classes
           /\ c \notin Kept(classes)[LongestOf(classes) - c.len]
           /\ c \in KeepBoth(classes, Kept(classes)[LongestOf(classes) - c.len], c.len)
<1>. DEFINE longest == LongestOf(classes)
            kept    == Kept(classes)
<1>1. longest \in Nat /\ \A d \in classes : d.len \in 1 .. longest
  BY LongestIsLongest
<1>2. /\ \A k \in 0 .. longest : kept[k] \in SUBSET classes
      /\ kept[0] = {}
      /\ \A k \in 1 .. longest : kept[k] = KeepBoth(classes, kept[k - 1], longest - k + 1)
  <2>1. /\ kept \in [0 .. longest -> SUBSET classes]
        /\ kept[0] = {}
        /\ \A k \in 1 .. longest : kept[k] = KeepBoth(classes, kept[k - 1], longest - k + 1)
    BY KeptStepByStep
  <2>. HIDE DEF longest, kept
  <2>2. \A k \in 0 .. longest : kept[k] \in SUBSET classes
    BY <2>1
  <2>. QED
    BY <2>1, <2>2
<1>3. Maximal(classes) = kept[longest]
  BY DEF Maximal
<1>. HIDE DEF longest, kept
<1>. DEFINE S == {k \in 0 .. longest : c \in kept[k]}
<1>4. S \in SUBSET Nat /\ S # {}
  <2>1. longest \in 0 .. longest
    BY <1>1
  <2>. QED
    BY <1>3, <2>1
<1>5. PICK k \in S : \A m \in S : k <= m
  <2>. HIDE DEF S
  <2>. QED
    BY <1>4, LeastNumber
<1>6. k \in 1 .. longest /\ k - 1 \in 0 .. longest /\ c \in kept[k]
  <2>1. k # 0
    BY <1>2
  <2>. QED
    BY <1>1, <2>1
<1>7. c \notin kept[k - 1]
  BY <1>1, <1>5, <1>6
<1>8. c \in KeepBoth(classes, kept[k - 1], longest - k + 1)
  BY <1>2, <1>6
<1>9. c \in classes /\ c.len = longest - k + 1
  BY <1>7, <1>8 DEF KeepBoth, Keep
<1>10. longest - c.len = k - 1
  BY <1>1, <1>6, <1>9
<1>. QED
  BY <1>7, <1>8, <1>9, <1>10 DEF longest, kept

LEMMA MaximalCovers ==
    ASSUME NEW f, Layout(f), NEW classes, \A c \in classes : ClassOn(f, c),
           NEW c \in classes, NEW o \in c.occs
    PROVE  \E e \in Occurrences(Maximal(classes)) : Inside(o, e)
<1>. DEFINE longest == LongestOf(classes)
            kept    == Kept(classes)
            k       == longest - c.len + 1
<1>1. Len(f) \in Nat /\ SizedClasses(classes, Len(f))
  BY LengthOfAClass DEF SizedClasses, ClassOn, Layout, IsList
<1>2. longest \in Nat /\ c.len \in 1 .. longest
  BY <1>1, LongestIsLongest
<1>3. k \in 1 .. longest /\ k - 1 \in 0 .. longest /\ k \in 0 .. longest /\ longest - k + 1 = c.len
  BY <1>2
<1>4. kept[k] = KeepBoth(classes, kept[k - 1], c.len)
  BY <1>1, <1>3, KeptStepByStep
<1>5. kept[k - 1] \subseteq Maximal(classes) /\ kept[k] \subseteq Maximal(classes)
  BY <1>1, <1>3, KeptGrows
<1>. HIDE DEF longest, kept, k
<1>6. \A a, b : Inside(a, b) <=> a.seg = b.seg /\ b.from <= a.from /\ a.to <= b.to
  BY DEF Inside
<1>7. CASE c \in Maximal(classes)
  <2>1. Inside(o, o)
    <3>1. o.from \in Nat /\ o.to \in Nat
      BY LengthOfAClass
    <3>. QED
      BY <3>1 DEF Inside
  <2>. QED
    BY <1>7, <2>1 DEF Occurrences
<1>8. CASE c \notin Maximal(classes)
  <2>. DEFINE first == Keep(classes, kept[k - 1], c.len, "I")
  <2>1. first \subseteq kept[k]
    BY <1>4 DEF KeepBoth, Keep
  <2>2. Covered(c, kept[k - 1]) \/ Covered(c, first)
    <3>1. c.type = "I" \/ c.type = "II"
      BY DEF ClassOn
    <3>2. CASE c.type = "I"
      <4>1. c \notin first
        BY <1>5, <1>8, <2>1
      <4>. QED
        BY <3>2, <4>1 DEF Keep
    <3>3. CASE c.type = "II"
      <4>1. c \notin KeepBoth(classes, kept[k - 1], c.len)
        BY <1>4, <1>5, <1>8
      <4>. QED
        BY <3>3, <4>1 DEF KeepBoth, Keep
    <3>. QED
      BY <3>1, <3>2, <3>3
  <2>. HIDE DEF first
  <2>3. PICK by : by \subseteq Maximal(classes) /\ Covered(c, by)
    BY <1>5, <2>1, <2>2
  <2>4. \E e \in Occurrences({d \in by : c.type = "I" => d.type = "I"}) : Inside(o, e)
    BY <2>3 DEF Covered
  <2>. QED
    BY <2>3, <2>4 DEF Occurrences
<1>. QED
  BY <1>7, <1>8

LEMMA MaximalTakesOneType ==
    ASSUME NEW f, Layout(f), NEW classes, \A c \in classes : ClassOn(f, c),
           NEW c \in Maximal(classes), NEW d \in Maximal(classes), c.occs = d.occs
    PROVE  c.type = d.type
<1>1. Len(f) \in Nat /\ SizedClasses(classes, Len(f))
  BY LengthOfAClass DEF SizedClasses, ClassOn, Layout, IsList
<1>2. ASSUME NEW x \in Maximal(classes), NEW y \in Maximal(classes), x.occs = y.occs, x.type = "I", y.type = "II"
      PROVE  FALSE
  <2>. DEFINE kept(z) == Kept(classes)[LongestOf(classes) - z.len]
  <2>1. /\ x \in classes /\ x \notin kept(x) /\ x \in KeepBoth(classes, kept(x), x.len)
        /\ y \in classes /\ y \notin kept(y) /\ y \in KeepBoth(classes, kept(y), y.len)
    <3>1. ASSUME NEW z \in Maximal(classes)
          PROVE  z \in classes /\ z \notin kept(z) /\ z \in KeepBoth(classes, kept(z), z.len)
      BY <1>1, KeptAtItsLength, Zenon
    <3>. HIDE DEF kept
    <3>. QED
      BY <3>1, Zenon
  <2>2. x.len = y.len
    <3>1. PICK o : o \in x.occs
      BY <2>1 DEF ClassOn
    <3>2. x.len = o.to - o.from + 1 /\ y.len = o.to - o.from + 1
      BY <1>2, <2>1, <3>1, LengthOfAClass
    <3>. QED
      BY <3>2
  <2>. DEFINE before == kept(x)
              first  == Keep(classes, before, x.len, "I")
  <2>3. before = kept(y)
    BY <2>2
  <2>. HIDE DEF before
  <2>4. x \in first
    BY <1>2, <2>1 DEF KeepBoth, Keep, before
  <2>5. ~Covered(y, first)
    <3>1. y \notin first
      BY <1>2, <2>1, <2>3 DEF Keep
    <3>2. y \in Keep(classes, first, x.len, "II")
      BY <2>1, <2>2, <2>3 DEF KeepBoth
    <3>. QED
      BY <3>1, <3>2 DEF Keep
  <2>6. PICK o \in y.occs : ~ \E e \in Occurrences({z \in first : y.type = "I" => z.type = "I"}) : Inside(o, e)
    BY <2>5 DEF Covered
  <2>7. o \in Occurrences({z \in first : y.type = "I" => z.type = "I"})
    BY <1>2, <2>4 DEF Occurrences
  <2>8. Inside(o, o)
    <3>1. o.from \in Nat /\ o.to \in Nat
      BY <2>1, LengthOfAClass
    <3>. QED
      BY <3>1 DEF Inside
  <2>. QED
    BY <2>6, <2>7, <2>8
<1>3. c \in classes /\ d \in classes
  BY <1>1, KeptAtItsLength
<1>4. c.type \in {"I", "II"} /\ d.type \in {"I", "II"}
  BY <1>3 DEF ClassOn
<1>. QED
  BY <1>2, <1>4

(***************************************************************************)
(* What the command makes of the runs of a scan.                           *)
(***************************************************************************)
LEMMA AllAreClasses ==
    ASSUME NEW f, Layout(f), NEW pairs, \A p \in pairs : RunPair(f, p), NEW two \in BOOLEAN
    PROVE  /\ \A c \in AllClasses(f, pairs, two) : ClassOn(f, c)
           /\ ~two => \A c \in AllClasses(f, pairs, two) : c.type = "I"
           /\ \A p \in pairs : \E c \in AllClasses(f, pairs, two) :
                 Occurrence(f, p.a, p.len) \in c.occs /\ Occurrence(f, p.b, p.len) \in c.occs
<1>1. CASE two
  <2>1. /\ \A c \in Grouped("II", f, pairs) : ClassOn(f, c)
        /\ \A p \in pairs : \E c \in Grouped("II", f, pairs) :
              Occurrence(f, p.a, p.len) \in c.occs /\ Occurrence(f, p.b, p.len) \in c.occs
    <3>1. "II" \in {"I", "II"}
      OBVIOUS
    <3>. QED
      BY <3>1, GroupedAreClasses
  <2>2. \A c \in Embedded(f, Grouped("II", f, pairs)) : ClassOn(f, c)
    BY <2>1, EmbeddedAreClasses
  <2>3. AllClasses(f, pairs, two) = Grouped("II", f, pairs) \cup Embedded(f, Grouped("II", f, pairs))
    BY <1>1 DEF AllClasses
  <2>. QED
    BY <1>1, <2>1, <2>2, <2>3
<1>2. CASE ~two
  <2>1. /\ \A c \in Grouped("I", f, pairs) : ClassOn(f, c) /\ c.type = "I"
        /\ \A p \in pairs : \E c \in Grouped("I", f, pairs) :
              Occurrence(f, p.a, p.len) \in c.occs /\ Occurrence(f, p.b, p.len) \in c.occs
    <3>1. "I" \in {"I", "II"}
      OBVIOUS
    <3>. QED
      BY <3>1, GroupedAreClasses
  <2>2. AllClasses(f, pairs, two) = Grouped("I", f, pairs)
    BY <1>2 DEF AllClasses
  <2>. QED
    BY <2>1, <2>2
<1>. QED
  BY <1>1, <1>2

LEMMA ClassesAreLarge ==
    ASSUME NEW f, NEW pairs, NEW two \in BOOLEAN, NEW maximal \in BOOLEAN, NEW overlaps \in BOOLEAN
    PROVE  /\ Classes(f, pairs, two, maximal, overlaps) \subseteq Large(AllClasses(f, pairs, two), maximal)
           /\ ~overlaps => Classes(f, pairs, two, maximal, overlaps) = Large(AllClasses(f, pairs, two), maximal)
<1>1. CASE two
  BY <1>1 DEF Classes, AllClasses, Large
<1>2. CASE ~two
  BY <1>2 DEF Classes, AllClasses, Large
<1>. QED
  BY <1>1, <1>2

\* Only repetitions go with the filter for overlaps.
LEMMA OverlapsAreFound ==
    ASSUME NEW f, NEW pairs, NEW two \in BOOLEAN, NEW maximal \in BOOLEAN, NEW overlaps \in BOOLEAN,
           NEW c \in Large(AllClasses(f, pairs, two), maximal), overlaps => ~OverlapsItself(c)
    PROVE  c \in Classes(f, pairs, two, maximal, overlaps)
BY DEF Classes

LEMMA MaximalAreClasses ==
    ASSUME NEW f, Layout(f), NEW classes, \A c \in classes : ClassOn(f, c)
    PROVE  Maximal(classes) \subseteq classes
<1>1. Len(f) \in Nat /\ SizedClasses(classes, Len(f))
  BY LengthOfAClass DEF SizedClasses, ClassOn, Layout, IsList
<1>. QED
  BY <1>1, KeptAtItsLength

LEMMA ClassesOfTypeI ==
    ASSUME NEW f, Layout(f), NEW pairs, \A p \in pairs : RunPair(f, p),
           NEW maximal \in BOOLEAN, NEW overlaps \in BOOLEAN
    PROVE  \A c \in Classes(f, pairs, FALSE, maximal, overlaps) : c.type = "I"
<1>. DEFINE all == AllClasses(f, pairs, FALSE)
<1>1. \A c \in all : ClassOn(f, c) /\ c.type = "I"
  BY AllAreClasses
<1>2. Classes(f, pairs, FALSE, maximal, overlaps) \subseteq Maximal(all) \cup all
  BY ClassesAreLarge DEF Large
<1>. HIDE DEF all
<1>3. Maximal(all) \subseteq all
  BY <1>1, MaximalAreClasses
<1>. QED
  BY <1>1, <1>2, <1>3

LEMMA ClassesLoseNothing ==
    ASSUME NEW f, Layout(f), NEW pairs, \A p \in pairs : RunPair(f, p),
           NEW two \in BOOLEAN, NEW maximal \in BOOLEAN, NEW p \in pairs, NEW start \in {"a", "b"}
    PROVE  \E o \in Occurrences(Large(AllClasses(f, pairs, two), maximal)) : Inside(Occurrence(f, p[start], p.len), o)
<1>. DEFINE all   == AllClasses(f, pairs, two)
            here  == Occurrence(f, p[start], p.len)
<1>1. Large(all, maximal) = IF maximal THEN Maximal(all) ELSE all
  BY DEF Large
<1>2. \A c \in all : ClassOn(f, c)
  BY AllAreClasses
<1>3. PICK c \in all : here \in c.occs
  <2>1. \E c \in all : Occurrence(f, p.a, p.len) \in c.occs /\ Occurrence(f, p.b, p.len) \in c.occs
    BY AllAreClasses
  <2>2. here = Occurrence(f, p.a, p.len) \/ here = Occurrence(f, p.b, p.len)
    OBVIOUS
  <2>. HIDE DEF all, here
  <2>. QED
    BY <2>1, <2>2
<1>. HIDE DEF all, here
<1>4. CASE maximal
  <2>1. \E o \in Occurrences(Maximal(all)) : Inside(here, o)
    BY <1>2, <1>3, MaximalCovers
  <2>. QED
    BY <1>1, <1>4, <2>1 DEF here, all
<1>5. CASE ~maximal
  <2>1. here \in Occurrences(all)
    BY <1>3 DEF Occurrences
  <2>2. Inside(here, here)
    <3>1. here.from \in Nat /\ here.to \in Nat
      BY <1>2, <1>3, LengthOfAClass
    <3>. QED
      BY <3>1 DEF Inside
  <2>. QED
    BY <1>1, <1>5, <2>1, <2>2 DEF here, all
<1>. QED
  BY <1>4, <1>5

LEMMA ClassesTakeOneType ==
    ASSUME NEW f, Layout(f), NEW pairs, \A p \in pairs : RunPair(f, p), NEW two \in BOOLEAN
    PROVE  \A c, d \in Maximal(AllClasses(f, pairs, two)) : c.occs = d.occs => c.type = d.type
<1>. DEFINE all == AllClasses(f, pairs, two)
<1>1. \A x \in all : ClassOn(f, x)
  BY AllAreClasses
<1>. HIDE DEF all
<1>. QED
  BY <1>1, MaximalTakesOneType DEF all

(***************************************************************************)
(* The merge of programs is a program.                                     *)
(***************************************************************************)
SegmentsOf(files) == {Moved(files, x[1], x[2])[x[3]] : x \in (DOMAIN files) \X Nat \X Nat}

LEMMA MovedProgram ==
    ASSUME NEW files, NEW n \in DOMAIN files, IsProgram(files[n].segs), NEW s \in Seq(SegmentsOf(files)), IsProgram(s)
    PROVE  s \o Moved(files, n, Len(s)) \in Seq(SegmentsOf(files)) /\ IsProgram(s \o Moved(files, n, Len(s)))
<1>. DEFINE segs  == files[n].segs
            moved == Moved(files, n, Len(s))
            T     == SegmentsOf(files)
            FieldSets == {"type", "parent", "scope", "memory", "stmts", "constants", "file"}
            Good(x, g) == /\ DOMAIN x = FieldSets /\ x.parent \in 1 .. g
                          /\ \A part \in {"memory", "stmts", "constants"} : x[part] \in Seq(Range(x[part]))
                          /\ \A i \in DOMAIN x.stmts : x.stmts[i].toks \in Seq(Range(x.stmts[i].toks))
<1>1. PICK k \in Nat : k = Len(segs) /\ DOMAIN segs = 1 .. k
  BY DEF IsProgram
<1>2. PICK m \in Nat : m = Len(s) /\ DOMAIN s = 1 .. m
  OBVIOUS
<1>3. moved = [g \in 1 .. k |-> [segs[g] EXCEPT !.parent = @ + m, !.file = n]]
  BY <1>1, <1>2 DEF Moved
<1>4. ASSUME NEW g \in 1 .. k PROVE moved[g] \in T /\ Good(moved[g], m + g)
  <2>1. moved[g] = [segs[g] EXCEPT !.parent = @ + m, !.file = n]
    BY <1>3
  <2>2. Good(segs[g], g)
    BY <1>1 DEF IsProgram
  <2>3. moved[g].parent = segs[g].parent + m /\ DOMAIN moved[g] = FieldSets /\ moved[g].stmts = segs[g].stmts
        /\ \A part \in {"memory", "stmts", "constants"} : moved[g][part] = segs[g][part]
    BY <2>1, <2>2
  <2>4. segs[g].parent + m \in 1 .. m + g
    BY <2>2
  <2>5. Good(moved[g], m + g)
    BY <2>2, <2>3, <2>4
  <2>6. moved[g] \in T
    <3>1. Len(s) \in Nat /\ g \in Nat
      BY <1>2
    <3>. DEFINE x == <<n, Len(s), g>>
    <3>2. x \in (DOMAIN files) \X Nat \X Nat
      BY <3>1, Zenon
    <3>3. x[1] = n /\ x[2] = Len(s) /\ x[3] = g
      OBVIOUS
    <3>. HIDE DEF x
    <3>. QED
      BY <3>2, <3>3, Zenon DEF SegmentsOf
  <2>. QED
    BY <2>5, <2>6
<1>. HIDE DEF T, Good
<1>5. moved \in Seq(T) /\ Len(moved) = k
  <2>. HIDE DEF moved
  <2>1. moved = [g \in 1 .. k |-> moved[g]]
    BY <1>3
  <2>. QED
    BY <1>4, <2>1
<1>6. \A g \in 1 .. m : Good(s[g], g)
  BY <1>2 DEF IsProgram, Good
<1>. HIDE DEF moved, segs
<1>. DEFINE q == s \o moved
<1>7. q \in Seq(T) /\ Len(q) = m + k /\ DOMAIN q = 1 .. m + k
  BY <1>2, <1>5 DEF T
<1>8. \A g \in 1 .. m : q[g] = s[g]
  BY <1>2, <1>5
<1>9. \A g \in m + 1 .. m + k : q[g] = moved[g - m]
  BY <1>2, <1>5
<1>. HIDE DEF q
<1>10. ASSUME NEW g \in DOMAIN q PROVE Good(q[g], g)
  <2>1. CASE g \in 1 .. m
    BY <1>6, <1>8, <2>1
  <2>2. CASE g \in m + 1 .. m + k
    <3>1. g - m \in 1 .. k /\ m + (g - m) = g
      BY <2>2
    <3>. QED
      BY <1>4, <1>9, <2>2, <3>1
  <2>3. g \in 1 .. m \/ g \in m + 1 .. m + k
    BY <1>7
  <2>. QED
    BY <2>1, <2>2, <2>3
<1>11. q \in Seq(Range(q))
  <2>1. \A g \in 1 .. m + k : q[g] \in Range(q)
    BY <1>7 DEF Range
  <2>. QED
    BY <1>7, <2>1
<1>. QED
  BY <1>7, <1>10, <1>11 DEF IsProgram, Good, q, moved, T

LEMMA MergedProgram ==
    ASSUME NEW files, \A k \in DOMAIN files : IsProgram(files[k].segs), NEW ord \in Seq(DOMAIN files)
    PROVE  IsProgram(MergeFiles(files, ord))
<1>. DEFINE A == {s \in Seq(SegmentsOf(files)) : IsProgram(s)}
            F == [p \in (1 .. Len(ord)) \X A |-> p[2] \o Moved(files, ord[p[1]], Len(p[2]))]
            Merges(g) == g = [k \in 0 .. Len(ord) |-> IF k = 0 THEN <<>> ELSE g[k - 1] \o Moved(files, ord[k], Len(g[k - 1]))]
            merged == CHOOSE g : Merges(g)
<1>1. Len(ord) \in Nat /\ \A k \in 1 .. Len(ord) : ord[k] \in DOMAIN files
  OBVIOUS
<1>2. \A k \in 1 .. Len(ord), s \in A : s \o Moved(files, ord[k], Len(s)) \in A
  BY <1>1, MovedProgram
<1>3. <<>> \in A
  BY DEF IsProgram
<1>. HIDE DEF A
<1>4. F \in [(1 .. Len(ord)) \X A -> A]
  BY <1>2
<1>5. \A k \in 1 .. Len(ord), s \in A : F[<<k, s>>] = s \o Moved(files, ord[k], Len(s))
  OBVIOUS
<1>. HIDE DEF F
<1>6. PICK g \in [0 .. Len(ord) -> A] : Follows(g, Len(ord), <<>>, F)
  BY <1>1, <1>3, <1>4, Recursion
<1>7. Merges(g)
  <2>1. ASSUME NEW k \in 0 .. Len(ord)
        PROVE  g[k] = IF k = 0 THEN <<>> ELSE g[k - 1] \o Moved(files, ord[k], Len(g[k - 1]))
    <3>1. g[k] = IF k = 0 THEN <<>> ELSE F[<<k, g[k - 1]>>]
      BY <1>6 DEF Follows
    <3>2. CASE k = 0
      BY <3>1, <3>2
    <3>3. CASE k # 0
      <4>1. k \in 1 .. Len(ord) /\ k - 1 \in 0 .. Len(ord)
        BY <1>1, <3>3
      <4>2. g[k - 1] \in A
        BY <4>1
      <4>. QED
        BY <1>5, <3>1, <3>3, <4>1, <4>2
    <3>. QED
      BY <3>2, <3>3
  <2>. QED
    BY <2>1
<1>8. Merges(merged)
  <2>. HIDE DEF Merges
  <2>. QED
    BY <1>7, Zenon
<1>9. MergeFiles(files, ord) = merged[Len(ord)]
  BY Zenon DEF MergeFiles
<1>. HIDE DEF merged
<1>10. /\ merged[0] = <<>>
       /\ \A k \in 1 .. Len(ord) : merged[k] = merged[k - 1] \o Moved(files, ord[k], Len(merged[k - 1]))
  <2>1. 0 \in 0 .. Len(ord) /\ \A k \in 1 .. Len(ord) : k \in 0 .. Len(ord) /\ k # 0
    BY <1>1
  <2>. QED
    BY <1>8, <2>1
<1>. HIDE DEF Merges
<1>. DEFINE S == {k \in Nat : k \in 0 .. Len(ord) => merged[k] \in A}
<1>11. 0 \in S
  BY <1>3, <1>10
<1>12. ASSUME NEW k \in 0 .. Len(ord) - 1, k \in S PROVE k + 1 \in S
  <2>1. k + 1 \in 1 .. Len(ord) /\ (k + 1) - 1 = k /\ k \in 0 .. Len(ord) /\ k + 1 \in Nat
    BY <1>1
  <2>2. merged[k] \in A
    BY <1>12, <2>1
  <2>3. merged[k + 1] \in A
    BY <1>2, <1>10, <2>1, <2>2
  <2>. QED
    BY <2>1, <2>3
<1>13. 0 .. Len(ord) \subseteq S
  <2>. HIDE DEF S
  <2>. QED
    BY <1>1, <1>11, <1>12, Climbs
<1>14. merged[Len(ord)] \in A
  <2>1. Len(ord) \in 0 .. Len(ord)
    BY <1>1
  <2>. QED
    BY <1>13, <2>1
<1>. QED
  BY <1>9, <1>14 DEF A

(***************************************************************************)
(* The command.  Types I and II come in their order, so that the sequence  *)
(* and the runs of the last scan are those the last results were made of.  *)
(***************************************************************************)
Passes == DOMAIN results \cap {1, 2}

\* The types of scans that are still to come.
Coming == todo \cap {1, 2}

CmdTypeOK ==
    /\ pick \in DOMAIN Cases
    /\ IsProgram(ir)
    /\ todo \subseteq 1 .. 4
    /\ phase \in {"start", "exit", "detect", "scan", "done"}

PassesInOrder ==
    /\ \A t \in Passes, u \in Coming : t < u
    /\ phase = "scan" => running \in Coming /\ \A u \in Coming : running <= u

\* What the last scan found is in the results.
LastScanCounts ==
    phase \in {"start", "detect"} /\ ScanDone =>
        \E t \in Passes : /\ \A u \in Passes : u <= t
                          /\ results[t] = Classes(flat, found, t = 2, Case.maximal, Case.overlaps)

ResultsOK ==
    /\ Case.maximal => \A t \in Passes : \A c, d \in results[t] : c.occs = d.occs => c.type = d.type
    /\ 1 \in DOMAIN results => \A c \in results[1] : c.type = "I"

ReportOK == IF phase = "done" THEN report = Reported(results) ELSE report = {}

CmdInv ==
    /\ CmdTypeOK /\ ScanInv /\ Layout(flat)
    /\ PassesInOrder /\ LastScanCounts /\ ResultsOK /\ ReportOK

LEMMA CaseOK ==
    ASSUME pick \in DOMAIN Cases
    PROVE  /\ Case.types \subseteq 1 .. 4 /\ Case.maximal \in BOOLEAN /\ Case.overlaps \in BOOLEAN
           /\ Case.files \in Seq(Range(Case.files))
           /\ \A k \in DOMAIN Case.files : IsProgram(Case.files[k].segs)
BY CasesAssumption DEF Case

LEMMA LeastIsMin == ASSUME NEW S \in SUBSET Nat, S # {} PROVE Min(S) \in S /\ \A x \in S : Min(S) <= x
<1>1. \E n \in S : \A m \in S : n <= m
  BY LeastNumber
<1>2. Min(S) \in S /\ \A x \in S : Min(S) =< x
  BY <1>1, Zenon DEF Min
<1>. QED
  BY <1>2

LEMMA CmdStarts == CmdInit => CmdInv
<1>. SUFFICES ASSUME CmdInit PROVE CmdInv
  OBVIOUS
<1>1. /\ pick \in DOMAIN Cases /\ ir = <<>> /\ todo = Case.types /\ results = [t \in {} |-> {}]
      /\ report = {} /\ phase = "start" /\ flat = <<>> /\ pos = 1 /\ active = [o \in {} |-> 0] /\ found = {}
  BY DEF CmdInit
<1>2. IsProgram(ir)
  BY <1>1 DEF IsProgram
<1>3. CmdTypeOK
  BY <1>1, <1>2, CaseOK DEF CmdTypeOK
<1>4. ScanInv
  BY <1>1, FreshScan DEF IsList
<1>5. Layout(flat)
  BY <1>1 DEF Layout, IsList, Numbered, Spaced, Apart
<1>6. Passes = {}
  BY <1>1 DEF Passes
<1>7. PassesInOrder
  BY <1>1, <1>6 DEF PassesInOrder
<1>8. LastScanCounts
  BY <1>1 DEF LastScanCounts, ScanDone
<1>9. ResultsOK
  BY <1>1, <1>6 DEF ResultsOK
<1>10. ReportOK
  BY <1>1 DEF ReportOK
<1>. QED
  BY <1>3, <1>4, <1>5, <1>7, <1>8, <1>9, <1>10 DEF CmdInv

LEMMA CmdParses == ASSUME CmdInv, ParseFiles PROVE CmdInv'
<1>1. /\ phase = "start" /\ phase' \in {"exit", "detect"}
      /\ UNCHANGED <<pick, todo, running, results, report, scanVars>>
  BY DEF ParseFiles
<1>2. IsProgram(ir')
  <2>0. PICK parsed \in SUBSET DOMAIN Case.files : \E ord \in SetToSeqs(parsed) : ir' = MergeFiles(Case.files, ord)
    BY DEF ParseFiles
  <2>1. PICK ord \in SetToSeqs(parsed) : ir' = MergeFiles(Case.files, ord)
    BY <2>0
  <2>2. Case.files \in Seq(Range(Case.files)) /\ \A k \in DOMAIN Case.files : IsProgram(Case.files[k].segs)
    BY CaseOK DEF CmdInv, CmdTypeOK
  <2>3. IsFiniteSet(parsed)
    <3>1. PICK n \in Nat : DOMAIN Case.files = 1 .. n
      BY <2>2
    <3>2. IsFiniteSet(1 .. n)
      BY FS_Interval
    <3>. QED
      BY <3>1, <3>2, FS_Subset
  <2>4. Cardinality(parsed) \in Nat
    BY <2>3, FS_CardinalityType
  <2>5. ord \in [1 .. Cardinality(parsed) -> parsed]
    BY <2>1, Zenon DEF SetToSeqs
  <2>6. ord \in Seq(DOMAIN Case.files)
    BY <2>4, <2>5
  <2>. QED
    BY <2>1, <2>2, <2>6, MergedProgram
<1>3. CmdTypeOK'
  BY <1>1, <1>2 DEF CmdInv, CmdTypeOK
<1>4. ScanInv'
  BY <1>1, ScanStays DEF CmdInv
<1>5. flat' = flat /\ pos' = pos /\ found' = found
  BY <1>1 DEF scanVars
<1>6. Layout(flat')
  BY <1>5 DEF CmdInv
<1>7. PassesInOrder'
  BY <1>1 DEF CmdInv, PassesInOrder, Passes, Coming
<1>8. Case' = Case
  BY <1>1 DEF Case
<1>9. LastScanCounts'
  BY <1>1, <1>5, <1>8 DEF CmdInv, LastScanCounts, Passes, ScanDone
<1>10. ResultsOK'
  BY <1>1, <1>8 DEF CmdInv, ResultsOK, Passes
<1>11. ReportOK'
  BY <1>1 DEF CmdInv, ReportOK
<1>. QED
  BY <1>3, <1>4, <1>6, <1>7, <1>9, <1>10, <1>11 DEF CmdInv

LEMMA CmdStartsAScan == ASSUME CmdInv, StartScan PROVE CmdInv'
<1>1. /\ phase = "detect" /\ phase' = "scan" /\ running' = Next124 /\ Next124 \in {1, 2} /\ todo \ {3} # {}
      /\ Load(FlatOf(ir, Next124 = 2))
      /\ UNCHANGED <<pick, ir, todo, results, report>>
  BY DEF StartScan
<1>2. Layout(FlatOf(ir, Next124 = 2))
  BY FlatIsLaidOut DEF CmdInv, CmdTypeOK
<1>3. Layout(flat')
  BY <1>1, <1>2 DEF Load
<1>4. ScanInv'
  BY <1>1, <1>3, FreshScanNext DEF Load, Layout, IsList
<1>5. CmdTypeOK'
  BY <1>1 DEF CmdInv, CmdTypeOK
<1>6. Next124 \in todo \ {3} /\ \A u \in todo \ {3} : Next124 <= u
  <2>1. todo \ {3} \in SUBSET Nat
    BY DEF CmdInv, CmdTypeOK
  <2>. QED
    BY <1>1, <2>1, LeastIsMin DEF Next124
<1>7. PassesInOrder'
  BY <1>1, <1>6 DEF CmdInv, PassesInOrder, Passes, Coming
<1>8. Case' = Case
  BY <1>1 DEF Case
<1>9. LastScanCounts'
  BY <1>1 DEF LastScanCounts
<1>10. ResultsOK'
  BY <1>1, <1>8 DEF CmdInv, ResultsOK, Passes
<1>11. ReportOK'
  BY <1>1 DEF CmdInv, ReportOK
<1>. QED
  BY <1>3, <1>4, <1>5, <1>7, <1>9, <1>10, <1>11 DEF CmdInv

LEMMA CmdScans == ASSUME CmdInv, Scan PROVE CmdInv'
<1>1. phase = "scan" /\ (ScanStatement \/ ScanSeparator \/ EndScan) /\ UNCHANGED cmdVars
  BY DEF Scan
<1>2. UNCHANGED <<pick, ir, todo, running, results, report, phase>>
  BY <1>1 DEF cmdVars
<1>3. ScanInv'
  BY <1>1, EveryScanIsAStep, ActiveStaysExact, FoundStaysSound, FoundStaysComplete DEF CmdInv, ScanInv, ScanExact
<1>4. Layout(flat')
  <2>1. flat' = flat
    BY <1>1 DEF ScanStatement, ScanSeparator, EndScan
  <2>. QED
    BY <2>1 DEF CmdInv
<1>5. CmdTypeOK'
  BY <1>2 DEF CmdInv, CmdTypeOK
<1>6. PassesInOrder'
  BY <1>2 DEF CmdInv, PassesInOrder, Passes, Coming
<1>7. Case' = Case
  BY <1>2 DEF Case
<1>8. LastScanCounts'
  BY <1>1, <1>2 DEF LastScanCounts
<1>9. ResultsOK'
  BY <1>2, <1>7 DEF CmdInv, ResultsOK, Passes
<1>10. ReportOK'
  BY <1>1, <1>2 DEF CmdInv, ReportOK
<1>. QED
  BY <1>3, <1>4, <1>5, <1>6, <1>8, <1>9, <1>10 DEF CmdInv

\* What a pass adds to the results.
LEMMA Recorded ==
    ASSUME NEW t \in 1 .. 4, NEW classes, CmdInv, Record(t, classes)
    PROVE  /\ DOMAIN results' = DOMAIN results \cup {t} /\ results'[t] = classes
           /\ \A u \in DOMAIN results \ {t} : results'[u] = results[u]
           /\ todo' = todo \ {t}
BY DEF Record

LEMMA CmdClassifies == ASSUME CmdInv, Classify PROVE CmdInv'
<1>. DEFINE classes == Classes(flat, found, running = 2, Case.maximal, Case.overlaps)
<1>1. /\ phase = "scan" /\ phase' = "detect" /\ ScanDone /\ Record(running, classes)
      /\ UNCHANGED <<pick, ir, report, scanVars>>
  BY DEF Classify
<1>2. running \in Coming /\ \A u \in Coming : running <= u
  BY <1>1 DEF CmdInv, PassesInOrder
<1>3. running \in {1, 2} /\ running \in 1 .. 4
  BY <1>2 DEF Coming
<1>4. /\ DOMAIN results' = DOMAIN results \cup {running} /\ results'[running] = classes
      /\ \A u \in DOMAIN results \ {running} : results'[u] = results[u]
      /\ todo' = todo \ {running}
  <2>. HIDE DEF classes
  <2>. QED
    BY <1>1, <1>3, Recorded
<1>5. flat' = flat /\ pos' = pos /\ found' = found
  BY <1>1 DEF scanVars
<1>6. CmdTypeOK'
  BY <1>1, <1>4 DEF CmdInv, CmdTypeOK
<1>7. ScanInv' /\ Layout(flat')
  BY <1>1, <1>5, ScanStays DEF CmdInv
<1>8. \A t \in Passes : t < running
  BY <1>2 DEF CmdInv, PassesInOrder
<1>9. Passes' = Passes \cup {running} /\ Coming' = Coming \ {running}
  BY <1>3, <1>4 DEF Passes, Coming
<1>10. PassesInOrder'
  <2>1. \A t \in Passes \cup {running}, u \in Coming \ {running} : t < u
    <3>1. \A u \in Coming : u \in Nat
      BY DEF Coming
    <3>2. \A t \in Passes : t \in Nat
      BY DEF Passes
    <3>3. \A t \in Passes, u \in Coming : t < u
      BY DEF CmdInv, PassesInOrder
    <3>. QED
      BY <1>2, <1>3, <3>1, <3>2, <3>3
  <2>. QED
    BY <1>1, <1>9, <2>1 DEF PassesInOrder
<1>11. Case' = Case /\ Case.maximal \in BOOLEAN /\ Case.overlaps \in BOOLEAN
  BY <1>1, CaseOK DEF Case, CmdInv, CmdTypeOK
<1>12. \A p \in found : RunPair(flat, p)
  BY FoundAreRuns DEF CmdInv
<1>13. LastScanCounts'
  <2>1. running \in Passes' /\ \A u \in Passes' : u <= running
    <3>1. \A u \in Passes : u \in Nat
      BY DEF Passes
    <3>. QED
      BY <1>3, <1>8, <1>9, <3>1
  <2>2. results'[running] = Classes(flat', found', running = 2, Case'.maximal, Case'.overlaps)
    BY <1>4, <1>5, <1>11
  <2>. HIDE DEF classes
  <2>. QED
    BY <2>1, <2>2 DEF LastScanCounts
<1>14. ResultsOK'
  <2>1. ASSUME Case.maximal, NEW t \in Passes', NEW c \in results'[t], NEW d \in results'[t], c.occs = d.occs
        PROVE  c.type = d.type
    <3>1. CASE t = running
      <4>1. Layout(flat) /\ (running = 2) \in BOOLEAN
        BY DEF CmdInv
      <4>2. \A x, y \in classes : x.occs = y.occs => x.type = y.type
        <5>. DEFINE two == running = 2
                    all == AllClasses(flat, found, two)
        <5>1. two \in BOOLEAN /\ classes = Classes(flat, found, two, Case.maximal, Case.overlaps)
          OBVIOUS
        <5>. HIDE DEF two, classes
        <5>2. classes \subseteq Large(all, Case.maximal)
          BY <1>11, <5>1, ClassesAreLarge
        <5>3. Large(all, Case.maximal) = Maximal(all)
          BY <2>1 DEF Large
        <5>4. \A x, y \in Maximal(all) : x.occs = y.occs => x.type = y.type
          BY <1>12, <4>1, <5>1, ClassesTakeOneType
        <5>. HIDE DEF all
        <5>. QED
          BY <5>2, <5>3, <5>4
      <4>. HIDE DEF classes
      <4>. QED
        BY <1>4, <2>1, <3>1, <4>2
    <3>2. CASE t # running
      <4>1. t \in Passes /\ results'[t] = results[t]
        BY <1>4, <1>9, <3>2 DEF Passes
      <4>. QED
        BY <2>1, <4>1 DEF CmdInv, ResultsOK
    <3>. QED
      BY <3>1, <3>2
  <2>2. ASSUME 1 \in DOMAIN results', NEW c \in results'[1] PROVE c.type = "I"
    <3>1. CASE running = 1
      <4>1. c \in Classes(flat, found, FALSE, Case.maximal, Case.overlaps)
        <5>1. (running = 2) = FALSE
          BY <3>1
        <5>. QED
          BY <1>4, <2>2, <3>1, <5>1
      <4>. QED
        BY <1>11, <1>12, <4>1, ClassesOfTypeI DEF CmdInv
    <3>2. CASE running # 1
      <4>1. 1 \in DOMAIN results /\ results'[1] = results[1]
        BY <1>4, <2>2, <3>2
      <4>. QED
        BY <2>2, <4>1 DEF CmdInv, ResultsOK
    <3>. QED
      BY <3>1, <3>2
  <2>. QED
    BY <1>11, <2>1, <2>2 DEF ResultsOK
<1>15. ReportOK'
  BY <1>1 DEF CmdInv, ReportOK
<1>. QED
  BY <1>6, <1>7, <1>10, <1>13, <1>14, <1>15 DEF CmdInv

LEMMA CmdRecordsAnother ==
    ASSUME CmdInv, NEW t \in {3, 4}, NEW classes, phase = "detect", Record(t, classes),
           UNCHANGED <<pick, order, ir, graph, running, report, phase, scanVars>>
    PROVE  CmdInv'
<1>1. /\ DOMAIN results' = DOMAIN results \cup {t}
      /\ \A u \in DOMAIN results \ {t} : results'[u] = results[u]
      /\ todo' = todo \ {t}
  <2>1. t \in 1 .. 4
    OBVIOUS
  <2>. QED
    BY <2>1, Recorded
<1>2. flat' = flat /\ pos' = pos /\ found' = found
  BY DEF scanVars
<1>3. CmdTypeOK'
  BY <1>1 DEF CmdInv, CmdTypeOK
<1>4. ScanInv' /\ Layout(flat')
  BY <1>2, ScanStays DEF CmdInv
<1>5. Passes' = Passes /\ Coming' = Coming
  BY <1>1 DEF Passes, Coming
<1>6. \A u \in Passes : results'[u] = results[u]
  BY <1>1 DEF Passes
<1>7. PassesInOrder'
  BY <1>5 DEF CmdInv, PassesInOrder
<1>8. Case' = Case
  BY DEF Case
<1>9. LastScanCounts'
  <2>1. ScanDone' => ScanDone
    BY <1>2 DEF ScanDone
  <2>. QED
    BY <1>2, <1>5, <1>6, <1>8, <2>1 DEF CmdInv, LastScanCounts
<1>10. ResultsOK'
  <2>1. 1 \in DOMAIN results' => 1 \in Passes
    BY <1>1 DEF Passes
  <2>. QED
    BY <1>5, <1>6, <1>8, <2>1 DEF CmdInv, ResultsOK, Passes
<1>11. ReportOK'
  BY DEF CmdInv, ReportOK
<1>. QED
  BY <1>3, <1>4, <1>7, <1>9, <1>10, <1>11 DEF CmdInv

LEMMA CmdReports == ASSUME CmdInv, WriteReport PROVE CmdInv'
<1>1. /\ phase = "detect" /\ phase' = "done" /\ report' = Reported(results)
      /\ UNCHANGED <<pick, ir, todo, running, results, scanVars>>
  BY DEF WriteReport
<1>2. flat' = flat
  BY <1>1 DEF scanVars
<1>3. CmdTypeOK'
  BY <1>1 DEF CmdInv, CmdTypeOK
<1>4. ScanInv' /\ Layout(flat')
  BY <1>1, <1>2, ScanStays DEF CmdInv
<1>5. PassesInOrder'
  BY <1>1 DEF CmdInv, PassesInOrder, Passes, Coming
<1>6. LastScanCounts'
  BY <1>1 DEF LastScanCounts
<1>7. Case' = Case
  BY <1>1 DEF Case
<1>8. ResultsOK'
  BY <1>1, <1>7 DEF CmdInv, ResultsOK, Passes
<1>9. ReportOK'
  BY <1>1 DEF ReportOK
<1>. QED
  BY <1>3, <1>4, <1>5, <1>6, <1>8, <1>9 DEF CmdInv

LEMMA CmdInvariant == CmdSpec => []CmdInv
<1>1. CmdInv /\ [CmdNext]_vars => CmdInv'
  <2>. SUFFICES ASSUME CmdInv, [CmdNext]_vars PROVE CmdInv'
    OBVIOUS
  <2>1. CASE DetectSemantic
    <3>1. Record(4, Semantic(ir)) /\ phase = "detect" /\ UNCHANGED <<pick, order, ir, graph, running, report, phase, scanVars>>
      BY <2>1 DEF DetectSemantic
    <3>. QED
      BY <3>1, CmdRecordsAnother
  <2>2. CASE DetectNear
    <3>1. Record(3, NearMisses(ir, Excluded)) /\ phase = "detect"
          /\ UNCHANGED <<pick, order, ir, graph, running, report, phase, scanVars>>
      BY <2>2 DEF DetectNear
    <3>. QED
      BY <3>1, CmdRecordsAnother
  <2>3. CASE UNCHANGED vars
    <3>1. UNCHANGED <<pick, ir, todo, running, results, report, phase>> /\ UNCHANGED scanVars
      BY <2>3 DEF vars, cmdVars
    <3>2. flat' = flat /\ pos' = pos /\ found' = found
      BY <3>1 DEF scanVars
    <3>3. ScanInv' /\ Layout(flat')
      BY <3>1, <3>2, ScanStays DEF CmdInv
    <3>4. Case' = Case
      BY <3>1 DEF Case
    <3>5. CmdTypeOK' /\ PassesInOrder'
      BY <3>1 DEF CmdInv, CmdTypeOK, PassesInOrder, Passes, Coming
    <3>6. LastScanCounts'
      BY <3>1, <3>2, <3>4 DEF CmdInv, LastScanCounts, Passes, ScanDone
    <3>7. ResultsOK' /\ ReportOK'
      <4>1. ResultsOK'
        BY <3>1, <3>4 DEF CmdInv, ResultsOK, Passes
      <4>2. ReportOK'
        BY <3>1 DEF CmdInv, ReportOK
      <4>. QED
        BY <4>1, <4>2
    <3>. QED
      BY <3>3, <3>5, <3>6, <3>7 DEF CmdInv
  <2>. QED
    BY <2>1, <2>2, <2>3, CmdParses, CmdStartsAScan, CmdScans, CmdClassifies, CmdReports DEF CmdNext
<1>. QED
  BY <1>1, CmdStarts, PTL DEF CmdSpec

(***************************************************************************)
(* The command's scans are exact, in every state of every command: what    *)
(* one pass found is not carried into the next.                            *)
(***************************************************************************)
THEOREM CommandScansExactly == CmdSpec => []ScanExact
<1>1. CmdInv => ScanExact
  BY DEF CmdInv, ScanInv
<1>. QED
  BY <1>1, CmdInvariant, PTL

(***************************************************************************)
(* Whatever a step of the command does to the scan's state, it is a step   *)
(* of the scan or its start over.                                          *)
(***************************************************************************)
THEOREM CommandScansOnly == CmdSpec => CommandScans
<1>1. [CmdNext]_vars => [ScanStatement \/ ScanSeparator \/ EndScan \/ Load(flat')]_scanVars
  <2>. SUFFICES ASSUME [CmdNext]_vars
                PROVE  [ScanStatement \/ ScanSeparator \/ EndScan \/ Load(flat')]_scanVars
    OBVIOUS
  <2>1. CASE ParseFiles
    BY <2>1 DEF ParseFiles
  <2>2. CASE StartScan
    BY <2>2 DEF StartScan, Load
  <2>3. CASE Scan
    BY <2>3 DEF Scan
  <2>4. CASE Classify
    BY <2>4 DEF Classify
  <2>5. CASE DetectSemantic
    BY <2>5 DEF DetectSemantic
  <2>6. CASE DetectNear
    BY <2>6 DEF DetectNear
  <2>7. CASE WriteReport
    BY <2>7 DEF WriteReport
  <2>8. CASE UNCHANGED vars
    BY <2>8 DEF vars
  <2>. QED
    BY <2>1, <2>2, <2>3, <2>4, <2>5, <2>6, <2>7, <2>8 DEF CmdNext
<1>. QED
  BY <1>1, PTL DEF CmdSpec, CommandScans

(***************************************************************************)
(* No clone is lost but in a repetition: what a scan has found lies in the *)
(* classes of its results or in one that overlaps itself, whatever the     *)
(* maximal filter drops.                                                   *)
(***************************************************************************)
THEOREM NoCloneIsLost == CmdSpec => []NothingIsLost
<1>1. CmdInv => NothingIsLost
  <2>. SUFFICES ASSUME CmdInv, phase = "detect", ScanDone, NEW p \in found, NEW start \in {"a", "b"}
                PROVE  \E o \in Occurrences(results[LastPass] \cup Repetitions) :
                          Inside(Occurrence(flat, p[start], p.len), o)
    BY DEF NothingIsLost
  <2>1. PICK t \in Passes : /\ \A u \in Passes : u <= t
                            /\ results[t] = Classes(flat, found, t = 2, Case.maximal, Case.overlaps)
    BY DEF CmdInv, LastScanCounts
  <2>2. LastPass = t
    <3>1. Passes \subseteq 0 .. 2 /\ Passes # {} /\ t \in Nat
      BY DEF Passes
    <3>2. Max(Passes) \in Passes /\ \A x \in Passes : x <= Max(Passes)
      BY <3>1, GreatestNumber
    <3>3. Max(Passes) \in Nat
      BY <3>2 DEF Passes
    <3>4. LastPass = Max(Passes)
      BY DEF LastPass, Passes
    <3>. QED
      BY <2>1, <3>1, <3>2, <3>3, <3>4
  <2>. DEFINE two   == t = 2
              all   == AllClasses(flat, found, two)
              large == Large(all, Case.maximal)
              here  == Occurrence(flat, p[start], p.len)
  <2>3. Case.maximal \in BOOLEAN /\ Case.overlaps \in BOOLEAN /\ two \in BOOLEAN
    BY CaseOK DEF CmdInv, CmdTypeOK
  <2>4. results[t] = Classes(flat, found, two, Case.maximal, Case.overlaps)
    BY <2>1
  <2>5. Layout(flat) /\ \A q \in found : RunPair(flat, q)
    BY FoundAreRuns DEF CmdInv
  <2>6. Repetitions = IF Case.overlaps THEN {c \in all : OverlapsItself(c)} ELSE {}
    BY <2>2 DEF Repetitions, FoundClasses
  <2>. HIDE DEF two
  <2>7. PICK o \in Occurrences(large) : Inside(here, o)
    BY <2>3, <2>5, ClassesLoseNothing
  <2>8. PICK c \in large : o \in c.occs
    BY <2>7 DEF Occurrences
  <2>9. c \in all
    <3>1. \A d \in all : ClassOn(flat, d)
      BY <2>3, <2>5, AllAreClasses
    <3>. HIDE DEF all
    <3>2. Maximal(all) \subseteq all
      BY <2>5, <3>1, MaximalAreClasses
    <3>. QED
      BY <2>8, <3>2 DEF Large
  <2>10. c \in results[t] \cup Repetitions
    <3>1. (Case.overlaps => ~OverlapsItself(c)) => c \in results[t]
      BY <2>3, <2>4, <2>8, OverlapsAreFound
    <3>. HIDE DEF all
    <3>. QED
      BY <2>6, <2>9, <3>1
  <2>. HIDE DEF here, large, all
  <2>11. o \in Occurrences(results[t] \cup Repetitions)
    BY <2>8, <2>10 DEF Occurrences
  <2>12. Inside(here, o)
    BY <2>7
  <2>. QED
    BY <2>2, <2>11, <2>12 DEF here
<1>. QED
  BY <1>1, CmdInvariant, PTL

(***************************************************************************)
(* The report shows no group of clones twice.                              *)
(***************************************************************************)
THEOREM NoClassIsRepeated == CmdSpec => []NoClassTwice
<1>1. CmdInv => NoClassTwice
  <2>. SUFFICES ASSUME CmdInv, Case.maximal, NEW c \in report, NEW d \in report,
                       c.pass \in {1, 2}, d.pass \in {1, 2}, c.occs = d.occs
                PROVE  c = d
    BY DEF NoClassTwice
  <2>1. report = Reported(results)
    BY DEF CmdInv, ReportOK
  <2>2. ASSUME NEW e \in report
        PROVE  \E t \in DOMAIN results : \E x \in results[t] :
                  /\ e = [pass |-> t, type |-> x.type, occs |-> x.occs]
                  /\ t = 2 /\ 1 \in DOMAIN results => x.occs \notin {y.occs : y \in results[1]}
    <3>. DEFINE exact == IF 1 \in DOMAIN results THEN {y.occs : y \in results[1]} ELSE {}
                Listed(t) == {[pass |-> t, type |-> x.type, occs |-> x.occs] :
                                 x \in {z \in results[t] : t # 2 \/ z.occs \notin exact}}
    <3>1. report = UNION {Listed(t) : t \in DOMAIN results}
      BY <2>1, Zenon DEF Reported
    <3>. HIDE DEF Listed
    <3>2. PICK t \in DOMAIN results : e \in Listed(t)
      BY <3>1
    <3>. HIDE DEF exact
    <3>3. PICK x \in results[t] : e = [pass |-> t, type |-> x.type, occs |-> x.occs] /\ (t # 2 \/ x.occs \notin exact)
      BY <3>2 DEF Listed
    <3>. QED
      BY <3>3 DEF exact
  <2>. DEFINE From(e, t, x) == /\ e = [pass |-> t, type |-> x.type, occs |-> x.occs]
                               /\ t = 2 /\ 1 \in DOMAIN results => x.occs \notin {y.occs : y \in results[1]}
  <2>3. PICK t \in DOMAIN results : \E x \in results[t] : From(c, t, x)
    BY <2>2
  <2>4. PICK x \in results[t] : From(c, t, x)
    BY <2>3
  <2>5. PICK u \in DOMAIN results : \E y \in results[u] : From(d, u, y)
    BY <2>2
  <2>6. PICK y \in results[u] : From(d, u, y)
    BY <2>5
  <2>7. t \in Passes /\ u \in Passes /\ x.occs = y.occs
    BY <2>4, <2>6 DEF Passes
  <2>8. t = u
    BY <2>4, <2>6, <2>7 DEF Passes
  <2>9. x.type = y.type
    BY <2>7, <2>8 DEF CmdInv, ResultsOK
  <2>. QED
    BY <2>4, <2>6, <2>7, <2>8, <2>9
<1>. QED
  BY <1>1, CmdInvariant, PTL

(***************************************************************************)
(* The report of the types I and II shows no group twice and, for all      *)
(* programs and options, loses no clone but those inside a repetition that *)
(* the filter for overlaps drops.                                          *)
(***************************************************************************)
THEOREM ReportIsComplete == CmdSpec => []ClassesAreComplete
<1>1. NothingIsLost /\ NoClassTwice => ClassesAreComplete
  BY DEF ClassesAreComplete
<1>. QED
  BY <1>1, NoCloneIsLost, NoClassIsRepeated, PTL

(***************************************************************************)
(* The pass over the nodes.  After i nodes it knows, for every slot that   *)
(* they write, which of them wrote it last.                                *)
(***************************************************************************)
\* The recursive function there is, of which nothing is known but its steps.
LEMMA ScannedStepByStep ==
    ASSUME NEW nodes, IsList(nodes)
    PROVE  /\ Scanned(nodes)[0] = NothingSeen
           /\ \A i \in 1 .. Len(nodes) : Scanned(nodes)[i] = Visit(Scanned(nodes)[i - 1], nodes, i)
<1>1. PICK n \in Nat : n = Len(nodes)
  BY DEF IsList
<1>. DEFINE Scans(f, k) == \A i \in 0 .. k : f[i] = IF i = 0 THEN NothingSeen ELSE Visit(f[i - 1], nodes, i)
            S == {k \in 0 .. n : \E f : Scans(f, k)}
<1>2. 0 \in S
  <2>. DEFINE f == [i \in 0 .. 0 |-> NothingSeen]
  <2>1. Scans(f, 0)
    OBVIOUS
  <2>2. 0 \in 0 .. n
    OBVIOUS
  <2>. HIDE DEF Scans, f
  <2>. QED
    BY <2>1, <2>2
<1>3. ASSUME NEW k \in 0 .. n - 1, k \in S PROVE k + 1 \in S
  <2>1. PICK f : Scans(f, k)
    BY <1>3
  <2>. DEFINE last == Visit(f[k], nodes, k + 1)
              g    == [i \in 0 .. k + 1 |-> IF i = k + 1 THEN last ELSE f[i]]
  <2>2. (\A i \in 0 .. k : g[i] = f[i]) /\ g[k + 1] = last
    <3>. HIDE DEF last
    <3>. QED
      OBVIOUS
  <2>. HIDE DEF g
  <2>3. ASSUME NEW i \in 0 .. k + 1 PROVE g[i] = IF i = 0 THEN NothingSeen ELSE Visit(g[i - 1], nodes, i)
    <3>1. CASE i \in 0 .. k
      <4>1. g[i] = IF i = 0 THEN NothingSeen ELSE Visit(f[i - 1], nodes, i)
        BY <2>1, <2>2, <3>1
      <4>2. i # 0 => g[i - 1] = f[i - 1]
        BY <2>2, <3>1
      <4>. QED
        BY <4>1, <4>2
    <3>2. CASE i = k + 1
      <4>1. i - 1 = k /\ g[i - 1] = f[k] /\ i # 0
        BY <2>2, <3>2
      <4>2. g[i] = Visit(g[i - 1], nodes, i)
        BY <2>2, <3>2, <4>1
      <4>. QED
        BY <4>1, <4>2
    <3>3. i \in 0 .. k \/ i = k + 1
      OBVIOUS
    <3>. QED
      BY <3>1, <3>2, <3>3
  <2>4. Scans(g, k + 1)
    BY <2>3
  <2>5. k + 1 \in 0 .. n
    BY <1>1
  <2>. HIDE DEF Scans
  <2>. QED
    BY <2>4, <2>5
<1>4. n \in S
  <2>. HIDE DEF S
  <2>1. 0 .. n \subseteq S
    BY <1>2, <1>3, Climbs
  <2>. QED
    BY <2>1
<1>. DEFINE Pass(f) == f = [i \in 0 .. n |-> IF i = 0 THEN NothingSeen ELSE Visit(f[i - 1], nodes, i)]
            pass == CHOOSE f : Pass(f)
<1>5. PICK f : Scans(f, n)
  BY <1>4
<1>. DEFINE g == [i \in 0 .. n |-> f[i]]
<1>6. Pass(g)
  <2>1. ASSUME NEW i \in 0 .. n PROVE g[i] = IF i = 0 THEN NothingSeen ELSE Visit(g[i - 1], nodes, i)
    <3>1. f[i] = IF i = 0 THEN NothingSeen ELSE Visit(f[i - 1], nodes, i)
      BY <1>5
    <3>2. i # 0 => g[i - 1] = f[i - 1]
      OBVIOUS
    <3>. QED
      BY <3>1, <3>2
  <2>2. g = [i \in 0 .. n |-> g[i]]
    OBVIOUS
  <2>. HIDE DEF g
  <2>. QED
    BY <2>1, <2>2
<1>7. Pass(pass)
  <2>. HIDE DEF Pass
  <2>. QED
    BY <1>6, Zenon
<1>8. Scanned(nodes) = pass
  BY <1>1, Zenon DEF Scanned
<1>. HIDE DEF pass
<1>9. \A i \in 0 .. n : pass[i] = IF i = 0 THEN NothingSeen ELSE Visit(pass[i - 1], nodes, i)
  BY <1>7
<1>. HIDE DEF Pass
<1>10. pass[0] = NothingSeen /\ \A i \in 1 .. n : pass[i] = Visit(pass[i - 1], nodes, i)
  <2>1. 0 \in 0 .. n /\ \A i \in 1 .. n : i \in 0 .. n /\ i # 0
    OBVIOUS
  <2>. QED
    BY <1>9, <2>1
<1>. QED
  BY <1>1, <1>8, <1>10

HasEdge(edges, from, to, slot) == \E e \in edges : e.from = from /\ e.to = to /\ e.slot = slot

Latest(nodes, i, x, j) == j \in WritesBefore(nodes, i, x) /\ \A k \in WritesBefore(nodes, i, x) : k <= j

LEMMA AddedEdges ==
    ASSUME NEW edges, NEW new
    PROVE  \A from, to, slot :
              HasEdge(AddEdges(edges, new), from, to, slot) <=> HasEdge(edges, from, to, slot) \/ HasEdge(new, from, to, slot)
BY DEF HasEdge, AddEdges

\* The table of last writes after i nodes.
LastWrites(nodes, last, i) ==
    \A x : /\ x \in DOMAIN last <=> WritesBefore(nodes, i + 1, x) # {}
           /\ x \in DOMAIN last => Latest(nodes, i + 1, x, last[x])

\* The table of last writes in each scope, which phis behind branches read.
LastOfArm(nodes, i, scope, x, j) ==
    j \in ArmWrites(nodes, i, scope, x) /\ \A k \in ArmWrites(nodes, i, scope, x) : k <= j

LastWritesOfArms(nodes, table, i) ==
    \A scope, x : /\ <<scope, x>> \in DOMAIN table <=> ArmWrites(nodes, i + 1, scope, x) # {}
                  /\ <<scope, x>> \in DOMAIN table => LastOfArm(nodes, i + 1, scope, x, table[<<scope, x>>])

Fed(nodes, edges, k) ==
    \A x : nodes[k].writes = {x} =>
        \A j : (\E slot : HasEdge(edges, j, k, slot)) <=> \E scope \in nodes[k].reads : LastOfArm(nodes, k, scope, x, j)

EdgesSoFar(nodes, edges, i) ==
    /\ \A k \in 1 .. i : IsBranchPhi(nodes[k]) => Fed(nodes, edges, k)
    /\ \A e \in edges : e.to \in 1 .. i /\ e.from \in 1 .. e.to - 1
    /\ \A k \in 1 .. i : ~IsBranchPhi(nodes[k]) =>
          \A x \in nodes[k].reads : \A j : HasEdge(edges, j, k, x) <=> Latest(nodes, k, x, j)

PassInv(nodes, acc, i) ==
    /\ LastWrites(nodes, acc.last, i)
    /\ LastWritesOfArms(nodes, acc.inScope, i)
    /\ \A key \in DOMAIN acc.inScope : acc.inScope[key] \in 1 .. i
    /\ EdgesSoFar(nodes, acc.edges, i)

LEMMA VisitedWrites ==
    ASSUME NEW nodes, NEW last, NEW i \in Nat \ {0}, LastWrites(nodes, last, i - 1)
    PROVE  LastWrites(nodes, Update(last, nodes[i].writes, i), i)
<1>. DEFINE new == Update(last, nodes[i].writes, i)
<1>1. ASSUME NEW x PROVE WritesBefore(nodes, i + 1, x) = WritesBefore(nodes, i, x) \cup (IF x \in nodes[i].writes THEN {i} ELSE {})
  <2>1. \A j : j \in 1 .. (i + 1) - 1 <=> j \in 1 .. i - 1 \/ j = i
    OBVIOUS
  <2>. QED
    BY <2>1 DEF WritesBefore
<1>2. \A x : WritesBefore(nodes, i, x) \subseteq 1 .. i - 1
  BY DEF WritesBefore
<1>3. \A x : /\ x \in DOMAIN last <=> WritesBefore(nodes, i, x) # {}
             /\ x \in DOMAIN last => Latest(nodes, i, x, last[x])
  <2>1. (i - 1) + 1 = i
    OBVIOUS
  <2>. QED
    BY <2>1 DEF LastWrites
<1>4. DOMAIN new = DOMAIN last \cup nodes[i].writes
      /\ \A x \in DOMAIN new : new[x] = IF x \in nodes[i].writes THEN i ELSE last[x]
  BY DEF Update
<1>. HIDE DEF new
<1>5. ASSUME NEW x
      PROVE  /\ x \in DOMAIN new <=> WritesBefore(nodes, i + 1, x) # {}
             /\ x \in DOMAIN new => Latest(nodes, i + 1, x, new[x])
  <2>1. CASE x \in nodes[i].writes
    <3>1. x \in DOMAIN new /\ new[x] = i
      BY <1>4, <2>1
    <3>2. WritesBefore(nodes, i + 1, x) = WritesBefore(nodes, i, x) \cup {i}
      BY <1>1, <2>1
    <3>3. \A k \in WritesBefore(nodes, i, x) \cup {i} : k <= i
      BY <1>2
    <3>. QED
      BY <3>1, <3>2, <3>3 DEF Latest
  <2>2. CASE x \notin nodes[i].writes
    <3>1. WritesBefore(nodes, i + 1, x) = WritesBefore(nodes, i, x)
      BY <1>1, <2>2
    <3>2. x \in DOMAIN new <=> x \in DOMAIN last
      BY <1>4, <2>2
    <3>3. x \in DOMAIN new => new[x] = last[x]
      BY <1>4, <2>2
    <3>. QED
      BY <1>3, <3>1, <3>2, <3>3 DEF Latest
  <2>. QED
    BY <2>1, <2>2
<1>. QED
  BY <1>5 DEF LastWrites, new

LEMMA VisitedArms ==
    ASSUME NEW nodes, NEW table, NEW i \in Nat \ {0}, LastWritesOfArms(nodes, table, i - 1)
    PROVE  LastWritesOfArms(nodes, IF nodes[i].seg = None THEN table
                                   ELSE Update(table, {<<nodes[i].scope, x>> : x \in nodes[i].writes}, i), i)
<1>. DEFINE keys == {<<nodes[i].scope, x>> : x \in nodes[i].writes}
            Hits(scope, x) == nodes[i].seg # None /\ nodes[i].scope = scope /\ x \in nodes[i].writes
            new == IF nodes[i].seg = None THEN table ELSE Update(table, keys, i)
<1>1. ASSUME NEW scope, NEW x
      PROVE  ArmWrites(nodes, i + 1, scope, x) = ArmWrites(nodes, i, scope, x) \cup (IF Hits(scope, x) THEN {i} ELSE {})
  <2>1. \A j : j \in 1 .. (i + 1) - 1 <=> j \in 1 .. i - 1 \/ j = i
    OBVIOUS
  <2>. QED
    BY <2>1 DEF ArmWrites, WritesBefore
<1>2. \A scope, x : ArmWrites(nodes, i, scope, x) \subseteq 1 .. i - 1
  BY DEF ArmWrites, WritesBefore
<1>3. \A scope, x : /\ <<scope, x>> \in DOMAIN table <=> ArmWrites(nodes, i, scope, x) # {}
                    /\ <<scope, x>> \in DOMAIN table => LastOfArm(nodes, i, scope, x, table[<<scope, x>>])
  <2>1. (i - 1) + 1 = i
    OBVIOUS
  <2>. QED
    BY <2>1 DEF LastWritesOfArms
<1>4. \A scope, x : nodes[i].seg # None => (<<scope, x>> \in keys <=> Hits(scope, x))
  OBVIOUS
<1>. HIDE DEF keys
<1>5. \A key : /\ key \in DOMAIN new <=> key \in DOMAIN table \/ (nodes[i].seg # None /\ key \in keys)
               /\ nodes[i].seg # None /\ key \in keys => new[key] = i
               /\ key \in DOMAIN new /\ ~(nodes[i].seg # None /\ key \in keys) => new[key] = table[key]
  <2>1. CASE nodes[i].seg = None
    BY <2>1
  <2>2. CASE nodes[i].seg # None
    <3>1. new = [k \in DOMAIN table \cup keys |-> IF k \in keys THEN i ELSE table[k]]
      BY <2>2 DEF Update
    <3>. HIDE DEF new
    <3>. QED
      BY <2>2, <3>1
  <2>. QED
    BY <2>1, <2>2
<1>. HIDE DEF new
<1>6. ASSUME NEW scope, NEW x
      PROVE  /\ <<scope, x>> \in DOMAIN new <=> ArmWrites(nodes, i + 1, scope, x) # {}
             /\ <<scope, x>> \in DOMAIN new => LastOfArm(nodes, i + 1, scope, x, new[<<scope, x>>])
  <2>. DEFINE key == <<scope, x>>
  <2>0. /\ key \in DOMAIN table <=> ArmWrites(nodes, i, scope, x) # {}
        /\ key \in DOMAIN table => LastOfArm(nodes, i, scope, x, table[key])
        /\ nodes[i].seg # None => (key \in keys <=> Hits(scope, x))
    BY <1>3, <1>4
  <2>. HIDE DEF key
  <2>1. CASE Hits(scope, x)
    <3>1. key \in DOMAIN new /\ new[key] = i
      BY <1>5, <2>0, <2>1
    <3>2. ArmWrites(nodes, i + 1, scope, x) = ArmWrites(nodes, i, scope, x) \cup {i}
      BY <1>1, <2>1
    <3>3. \A k \in ArmWrites(nodes, i, scope, x) \cup {i} : k <= i
      BY <1>2
    <3>. QED
      BY <3>1, <3>2, <3>3 DEF LastOfArm, key
  <2>2. CASE ~Hits(scope, x)
    <3>1. ArmWrites(nodes, i + 1, scope, x) = ArmWrites(nodes, i, scope, x)
      BY <1>1, <2>2
    <3>2. key \in DOMAIN new <=> key \in DOMAIN table
      BY <1>5, <2>0, <2>2
    <3>3. key \in DOMAIN new => new[key] = table[key]
      BY <1>5, <2>0, <2>2
    <3>. QED
      BY <2>0, <3>1, <3>2, <3>3 DEF LastOfArm, key
  <2>. QED
    BY <2>1, <2>2
<1>7. LastWritesOfArms(nodes, new, i)
  BY <1>6 DEF LastWritesOfArms
<1>. QED
  BY <1>7 DEF new, keys

LEMMA NewEdges ==
    ASSUME NEW nodes, NEW acc, NEW i \in Nat \ {0}, PassInv(nodes, acc, i - 1)
    PROVE  /\ \A e \in EdgesInto(acc, nodes, i) : e.to = i /\ e.from \in 1 .. i - 1
           /\ IsBranchPhi(nodes[i]) => Fed(nodes, EdgesInto(acc, nodes, i), i)
           /\ ~IsBranchPhi(nodes[i]) =>
                 \A x \in nodes[i].reads : \A j : HasEdge(EdgesInto(acc, nodes, i), j, i, x) <=> Latest(nodes, i, x, j)
<1>1. (i - 1) + 1 = i
  OBVIOUS
<1>2. \A x : /\ x \in DOMAIN acc.last <=> WritesBefore(nodes, i, x) # {}
             /\ x \in DOMAIN acc.last => Latest(nodes, i, x, acc.last[x])
  BY <1>1 DEF PassInv, LastWrites
<1>3. \A x, j : j \in At(acc.last, x) <=> Latest(nodes, i, x, j)
  <2>1. \A x, j : j \in At(acc.last, x) <=> x \in DOMAIN acc.last /\ j = acc.last[x]
    BY DEF At
  <2>2. \A x, j : Latest(nodes, i, x, j) => WritesBefore(nodes, i, x) # {} /\ j \in Nat
    BY DEF Latest, WritesBefore
  <2>3. \A x, j, k : Latest(nodes, i, x, j) /\ Latest(nodes, i, x, k) => j = k
    <3>1. \A x, j, k : Latest(nodes, i, x, j) /\ Latest(nodes, i, x, k) => j <= k /\ k <= j
      BY DEF Latest
    <3>. QED
      BY <2>2, <3>1
  <2>. QED
    BY <1>2, <2>1, <2>2, <2>3
<1>4. \A key, j : j \in At(acc.inScope, key) => j \in 1 .. i - 1
  BY DEF PassInv, At
<1>5. \A x, j : Latest(nodes, i, x, j) => j \in 1 .. i - 1
  BY DEF Latest, WritesBefore
<1>8. \A scope, x, j : j \in At(acc.inScope, <<scope, x>>) <=> LastOfArm(nodes, i, scope, x, j)
  <2>1. \A scope, x, j : j \in At(acc.inScope, <<scope, x>>) <=> <<scope, x>> \in DOMAIN acc.inScope /\ j = acc.inScope[<<scope, x>>]
    BY DEF At
  <2>2. \A scope, x : /\ <<scope, x>> \in DOMAIN acc.inScope <=> ArmWrites(nodes, i, scope, x) # {}
                      /\ <<scope, x>> \in DOMAIN acc.inScope => LastOfArm(nodes, i, scope, x, acc.inScope[<<scope, x>>])
    BY <1>1 DEF PassInv, LastWritesOfArms
  <2>3. \A scope, x, j : LastOfArm(nodes, i, scope, x, j) => ArmWrites(nodes, i, scope, x) # {} /\ j \in Nat
    BY DEF LastOfArm, ArmWrites, WritesBefore
  <2>4. \A scope, x, j, k : LastOfArm(nodes, i, scope, x, j) /\ LastOfArm(nodes, i, scope, x, k) => j = k
    <3>1. \A scope, x, j, k : LastOfArm(nodes, i, scope, x, j) /\ LastOfArm(nodes, i, scope, x, k) => j <= k /\ k <= j
      BY DEF LastOfArm
    <3>. QED
      BY <2>3, <3>1
  <2>5. ASSUME NEW scope, NEW x, NEW j PROVE j \in At(acc.inScope, <<scope, x>>) <=> LastOfArm(nodes, i, scope, x, j)
    <3>. DEFINE key == <<scope, x>>
                fn  == acc.inScope
    <3>1. /\ j \in At(fn, key) <=> key \in DOMAIN fn /\ j = fn[key]
          /\ key \in DOMAIN fn <=> ArmWrites(nodes, i, scope, x) # {}
          /\ key \in DOMAIN fn => LastOfArm(nodes, i, scope, x, fn[key])
      BY <2>1, <2>2
    <3>. HIDE DEF key, fn
    <3>2. LastOfArm(nodes, i, scope, x, j) => ArmWrites(nodes, i, scope, x) # {}
      BY <2>3
    <3>3. key \in DOMAIN fn /\ LastOfArm(nodes, i, scope, x, j) => j = fn[key]
      BY <2>4, <3>1
    <3>4. j \in At(fn, key) <=> LastOfArm(nodes, i, scope, x, j)
      BY <3>1, <3>2, <3>3
    <3>. QED
      BY <3>4 DEF key, fn
  <2>. QED
    BY <2>5
<1>6. CASE IsBranchPhi(nodes[i])
  <2>. DEFINE slot == CHOOSE x \in nodes[i].writes : TRUE
  <2>1. EdgesInto(acc, nodes, i) =
           UNION {{Edge(j, i, slot, "phi_branch") : j \in At(acc.inScope, <<scope, slot>>)} : scope \in nodes[i].reads}
    BY <1>6 DEF EdgesInto, IsBranchPhi
  <2>. HIDE DEF slot
  <2>2. ASSUME NEW e \in EdgesInto(acc, nodes, i) PROVE e.to = i /\ e.from \in 1 .. i - 1
    <3>1. PICK scope : \E j \in At(acc.inScope, <<scope, slot>>) : e = Edge(j, i, slot, "phi_branch")
      BY <2>1
    <3>2. PICK j \in At(acc.inScope, <<scope, slot>>) : e = Edge(j, i, slot, "phi_branch")
      BY <3>1
    <3>3. e.from = j /\ e.to = i
      BY <3>2 DEF Edge
    <3>4. j \in 1 .. i - 1
      BY <1>4, <3>2
    <3>. QED
      BY <3>3, <3>4
  <2>3. ASSUME NEW x, nodes[i].writes = {x}, NEW j
        PROVE  (\E y : HasEdge(EdgesInto(acc, nodes, i), j, i, y)) <=> \E scope \in nodes[i].reads : LastOfArm(nodes, i, scope, x, j)
    <3>1. slot = x
      BY <2>3 DEF slot
    <3>2. \A scope : j \in At(acc.inScope, <<scope, x>>) <=> LastOfArm(nodes, i, scope, x, j)
      BY <1>8
    <3>3. (\E y : HasEdge(EdgesInto(acc, nodes, i), j, i, y)) <=> \E scope \in nodes[i].reads : j \in At(acc.inScope, <<scope, x>>)
      <4>1. ASSUME NEW e \in EdgesInto(acc, nodes, i), e.from = j PROVE \E scope \in nodes[i].reads : j \in At(acc.inScope, <<scope, x>>)
        <5>1. PICK scope \in nodes[i].reads : \E k \in At(acc.inScope, <<scope, x>>) : e = Edge(k, i, slot, "phi_branch")
          BY <2>1, <3>1, <4>1
        <5>2. PICK k \in At(acc.inScope, <<scope, x>>) : e = Edge(k, i, slot, "phi_branch")
          BY <5>1
        <5>3. k = j
          BY <4>1, <5>2 DEF Edge
        <5>. QED
          BY <5>2, <5>3
      <4>2. ASSUME NEW scope \in nodes[i].reads, j \in At(acc.inScope, <<scope, x>>) PROVE HasEdge(EdgesInto(acc, nodes, i), j, i, slot)
        <5>. DEFINE e == Edge(j, i, slot, "phi_branch")
        <5>1. e.from = j /\ e.to = i /\ e.slot = slot
          BY DEF Edge
        <5>. HIDE DEF e
        <5>2. e \in EdgesInto(acc, nodes, i)
          BY <2>1, <3>1, <4>2 DEF e
        <5>. QED
          BY <5>1, <5>2 DEF HasEdge
      <4>. QED
        BY <4>1, <4>2 DEF HasEdge
    <3>. QED
      BY <3>2, <3>3
  <2>4. Fed(nodes, EdgesInto(acc, nodes, i), i)
    BY <2>3 DEF Fed
  <2>. QED
    BY <1>6, <2>2, <2>4
<1>7. CASE ~IsBranchPhi(nodes[i])
  <2>. DEFINE kind == IF nodes[i].note = "loop_entry" THEN "phi_loop" ELSE "data_flow"
  <2>1. EdgesInto(acc, nodes, i) = UNION {{Edge(j, i, x, kind) : j \in At(acc.last, x)} : x \in nodes[i].reads}
    BY <1>7 DEF EdgesInto, IsBranchPhi
  <2>. HIDE DEF kind
  <2>2. \A e \in EdgesInto(acc, nodes, i) :
           \E x \in nodes[i].reads : e.to = i /\ e.slot = x /\ e.from \in At(acc.last, x)
    BY <2>1 DEF Edge
  <2>3. \A x \in nodes[i].reads : \A j \in At(acc.last, x) : HasEdge(EdgesInto(acc, nodes, i), j, i, x)
    <3>. SUFFICES ASSUME NEW x \in nodes[i].reads, NEW j \in At(acc.last, x) PROVE HasEdge(EdgesInto(acc, nodes, i), j, i, x)
      OBVIOUS
    <3>. DEFINE e == Edge(j, i, x, kind)
    <3>1. e.from = j /\ e.to = i /\ e.slot = x
      BY DEF Edge
    <3>. HIDE DEF e
    <3>2. e \in EdgesInto(acc, nodes, i)
      BY <2>1 DEF e
    <3>. QED
      BY <3>1, <3>2 DEF HasEdge
  <2>4. \A e \in EdgesInto(acc, nodes, i) : e.to = i /\ e.from \in 1 .. i - 1
    BY <1>3, <1>5, <2>2
  <2>5. \A x \in nodes[i].reads : \A j : HasEdge(EdgesInto(acc, nodes, i), j, i, x) <=> Latest(nodes, i, x, j)
    BY <1>3, <2>2, <2>3 DEF HasEdge
  <2>. QED
    BY <1>7, <2>4, <2>5
<1>. QED
  BY <1>6, <1>7

LEMMA VisitKeepsPassInv ==
    ASSUME NEW nodes, NEW acc, NEW i \in Nat \ {0}, PassInv(nodes, acc, i - 1)
    PROVE  PassInv(nodes, Visit(acc, nodes, i), i)
<1>. DEFINE new == EdgesInto(acc, nodes, i)
            keys == {<<nodes[i].scope, x>> : x \in nodes[i].writes}
<1>1. /\ Visit(acc, nodes, i).edges = AddEdges(acc.edges, new)
      /\ Visit(acc, nodes, i).last = Update(acc.last, nodes[i].writes, i)
      /\ Visit(acc, nodes, i).inScope = IF nodes[i].seg = None THEN acc.inScope ELSE Update(acc.inScope, keys, i)
  BY DEF Visit
<1>2. LastWrites(nodes, Visit(acc, nodes, i).last, i)
  BY <1>1, VisitedWrites DEF PassInv
<1>3. \A key \in DOMAIN Visit(acc, nodes, i).inScope : Visit(acc, nodes, i).inScope[key] \in 1 .. i
  <2>. HIDE DEF keys
  <2>1. \A key \in DOMAIN acc.inScope : acc.inScope[key] \in 1 .. i
    BY DEF PassInv
  <2>2. \A key \in DOMAIN Update(acc.inScope, keys, i) : Update(acc.inScope, keys, i)[key] \in 1 .. i
    BY <2>1 DEF Update
  <2>. QED
    BY <1>1, <2>1, <2>2
<1>9. LastWritesOfArms(nodes, Visit(acc, nodes, i).inScope, i)
  <2>1. LastWritesOfArms(nodes, acc.inScope, i - 1)
    BY DEF PassInv
  <2>. QED
    BY <1>1, <2>1, VisitedArms
<1>4. /\ \A e \in new : e.to = i /\ e.from \in 1 .. i - 1
      /\ IsBranchPhi(nodes[i]) => Fed(nodes, new, i)
      /\ ~IsBranchPhi(nodes[i]) => \A x \in nodes[i].reads : \A j : HasEdge(new, j, i, x) <=> Latest(nodes, i, x, j)
  BY NewEdges
<1>5. /\ \A e \in acc.edges : e.to \in 1 .. i - 1 /\ e.from \in 1 .. e.to - 1
      /\ \A k \in 1 .. i - 1 : IsBranchPhi(nodes[k]) => Fed(nodes, acc.edges, k)
      /\ \A k \in 1 .. i - 1 : ~IsBranchPhi(nodes[k]) =>
            \A x \in nodes[k].reads : \A j : HasEdge(acc.edges, j, k, x) <=> Latest(nodes, k, x, j)
  BY DEF PassInv, EdgesSoFar
<1>. HIDE DEF new
<1>6. \A e \in AddEdges(acc.edges, new) : e.to \in 1 .. i /\ e.from \in 1 .. e.to - 1
  <2>1. \A e \in new : e.to \in 1 .. i /\ e.from \in 1 .. e.to - 1
    BY <1>4
  <2>2. \A e \in acc.edges : e.to \in 1 .. i /\ e.from \in 1 .. e.to - 1
    BY <1>5
  <2>. QED
    BY <2>1, <2>2 DEF AddEdges
<1>7. ASSUME NEW k \in 1 .. i, ~IsBranchPhi(nodes[k]), NEW x \in nodes[k].reads, NEW j
      PROVE  HasEdge(AddEdges(acc.edges, new), j, k, x) <=> Latest(nodes, k, x, j)
  <2>1. HasEdge(AddEdges(acc.edges, new), j, k, x) <=> HasEdge(acc.edges, j, k, x) \/ HasEdge(new, j, k, x)
    BY AddedEdges
  <2>2. CASE k = i
    <3>1. ~HasEdge(acc.edges, j, k, x)
      BY <1>5, <2>2 DEF HasEdge
    <3>2. HasEdge(new, j, k, x) <=> Latest(nodes, k, x, j)
      BY <1>4, <1>7, <2>2
    <3>. QED
      BY <2>1, <3>1, <3>2
  <2>3. CASE k \in 1 .. i - 1
    <3>1. ~HasEdge(new, j, k, x)
      BY <1>4, <2>3 DEF HasEdge
    <3>2. HasEdge(acc.edges, j, k, x) <=> Latest(nodes, k, x, j)
      BY <1>5, <1>7, <2>3
    <3>. QED
      BY <2>1, <3>1, <3>2
  <2>4. k = i \/ k \in 1 .. i - 1
    OBVIOUS
  <2>. QED
    BY <2>2, <2>3, <2>4
<1>10. ASSUME NEW k \in 1 .. i, IsBranchPhi(nodes[k]) PROVE Fed(nodes, AddEdges(acc.edges, new), k)
  <2>1. \A j, x : HasEdge(AddEdges(acc.edges, new), j, k, x) <=> HasEdge(acc.edges, j, k, x) \/ HasEdge(new, j, k, x)
    BY AddedEdges
  <2>2. CASE k = i
    <3>1. \A j, x : ~HasEdge(acc.edges, j, k, x)
      BY <1>5, <2>2 DEF HasEdge
    <3>2. \A j, x : HasEdge(AddEdges(acc.edges, new), j, k, x) <=> HasEdge(new, j, k, x)
      BY <2>1, <3>1
    <3>3. Fed(nodes, new, k)
      BY <1>4, <1>10, <2>2
    <3>. QED
      BY <3>2, <3>3 DEF Fed
  <2>3. CASE k \in 1 .. i - 1
    <3>1. \A j, x : ~HasEdge(new, j, k, x)
      BY <1>4, <2>3 DEF HasEdge
    <3>2. \A j, x : HasEdge(AddEdges(acc.edges, new), j, k, x) <=> HasEdge(acc.edges, j, k, x)
      BY <2>1, <3>1
    <3>3. Fed(nodes, acc.edges, k)
      BY <1>5, <1>10, <2>3
    <3>. QED
      BY <3>2, <3>3 DEF Fed
  <2>4. k = i \/ k \in 1 .. i - 1
    OBVIOUS
  <2>. QED
    BY <2>2, <2>3, <2>4
<1>8. EdgesSoFar(nodes, AddEdges(acc.edges, new), i)
  BY <1>6, <1>7, <1>10 DEF EdgesSoFar
<1>. QED
  BY <1>1, <1>2, <1>3, <1>8, <1>9 DEF PassInv

LEMMA PassIsExact == ASSUME NEW nodes, IsList(nodes) PROVE PassInv(nodes, Scanned(nodes)[Len(nodes)], Len(nodes))
<1>1. PICK n \in Nat : n = Len(nodes)
  BY DEF IsList
<1>. DEFINE f == Scanned(nodes)
            S == {i \in Nat : i \in 0 .. n => PassInv(nodes, f[i], i)}
<1>2. f[0] = NothingSeen /\ \A i \in 1 .. n : f[i] = Visit(f[i - 1], nodes, i)
  BY <1>1, ScannedStepByStep
<1>. HIDE DEF f
<1>3. 0 \in S
  <2>1. NothingSeen.edges = {} /\ DOMAIN NothingSeen.last = {} /\ DOMAIN NothingSeen.inScope = {}
    BY DEF NothingSeen
  <2>2. \A x : WritesBefore(nodes, 0 + 1, x) = {}
    BY DEF WritesBefore
  <2>4. \A scope, x : ArmWrites(nodes, 0 + 1, scope, x) = {}
    BY DEF ArmWrites, WritesBefore
  <2>3. PassInv(nodes, NothingSeen, 0)
    BY <2>1, <2>2, <2>4 DEF PassInv, LastWrites, LastWritesOfArms, EdgesSoFar
  <2>. QED
    BY <1>2, <2>3
<1>4. ASSUME NEW i \in 0 .. n - 1, i \in S PROVE i + 1 \in S
  <2>1. i + 1 \in 1 .. n /\ (i + 1) - 1 = i /\ i \in 0 .. n /\ i + 1 \in Nat \ {0}
    OBVIOUS
  <2>2. PassInv(nodes, f[(i + 1) - 1], (i + 1) - 1)
    BY <1>4, <2>1
  <2>3. PassInv(nodes, Visit(f[(i + 1) - 1], nodes, i + 1), i + 1)
    BY <2>1, <2>2, VisitKeepsPassInv
  <2>4. PassInv(nodes, f[i + 1], i + 1)
    BY <1>2, <2>1, <2>3
  <2>. QED
    BY <2>1, <2>4
<1>5. 0 .. n \subseteq S
  <2>. HIDE DEF S
  <2>. QED
    BY <1>3, <1>4, Climbs
<1>6. n \in S /\ n \in 0 .. n
  BY <1>5
<1>. QED
  BY <1>1, <1>6 DEF f

(***************************************************************************)
(* For every list of nodes, whatever program they come from: a read is     *)
(* joined to the latest write before it and to no other, and to none only  *)
(* if there is none.                                                       *)
(***************************************************************************)
THEOREM EveryReadHasItsWrite == ASSUME NEW nodes, IsList(nodes) PROVE GraphReadsLatest(nodes, BuildEdges(nodes))
<1>. DEFINE seen  == Scanned(nodes)[Len(nodes)].edges
            edges == BuildEdges(nodes)
<1>1. PICK n \in Nat : n = Len(nodes) /\ DOMAIN nodes = 1 .. n
  BY DEF IsList
<1>2. /\ \A e \in seen : e.to \in 1 .. n /\ e.from \in 1 .. e.to - 1
      /\ \A k \in 1 .. n : ~IsBranchPhi(nodes[k]) =>
            \A x \in nodes[k].reads : \A j : HasEdge(seen, j, k, x) <=> Latest(nodes, k, x, j)
  BY <1>1, PassIsExact DEF PassInv, EdgesSoFar
<1>3. \A j, i, x : HasEdge(edges, j, i, x) <=> HasEdge(seen, j, i, x) \/ HasEdge(BackEdges(nodes), j, i, x)
  BY AddedEdges DEF BuildEdges
<1>4. \A e \in BackEdges(nodes) : e.to \in 1 .. n /\ e.from \in e.to + 1 .. n
  BY <1>1 DEF BackEdges, Edge
<1>. HIDE DEF seen, edges
<1>. SUFFICES ASSUME NEW i \in 1 .. n, ~IsBranchPhi(nodes[i]), NEW x \in nodes[i].reads
              PROVE  {e.from : e \in {d \in edges : d.to = i /\ d.slot = x /\ d.from < i}}
                         = {j \in WritesBefore(nodes, i, x) : \A k \in WritesBefore(nodes, i, x) : k <= j}
  BY <1>1, Zenon DEF GraphReadsLatest, edges
<1>5. ASSUME NEW j PROVE (HasEdge(edges, j, i, x) /\ j < i) <=> Latest(nodes, i, x, j)
  <2>1. ~(HasEdge(BackEdges(nodes), j, i, x) /\ j < i)
    BY <1>4 DEF HasEdge
  <2>2. HasEdge(seen, j, i, x) <=> Latest(nodes, i, x, j)
    BY <1>2
  <2>3. Latest(nodes, i, x, j) => j < i
    BY DEF Latest, WritesBefore
  <2>. QED
    BY <1>3, <2>1, <2>2, <2>3
<1>. QED
  BY <1>5 DEF HasEdge, Latest

(***************************************************************************)
(* A phi behind an if takes from each scope it reads the last write of its *)
(* slot that this scope's own statements have made before it, and nothing  *)
(* else, whatever was written between (last_write_by_scope).  build_dag    *)
(* takes the slot for one, and so it is.                                   *)
(***************************************************************************)
PhisTakeOneSlot(nodes) == \A i \in DOMAIN nodes : IsBranchPhi(nodes[i]) => \E x : nodes[i].writes = {x}

ArmsAreInFront(nodes) ==
    \A i \in DOMAIN nodes : IsBranchPhi(nodes[i]) =>
        \A x \in nodes[i].writes, scope \in nodes[i].reads : ArmWrites(nodes, i, scope, x) # {}

THEOREM EveryArmIsJoined ==
    ASSUME NEW nodes, IsList(nodes), PhisTakeOneSlot(nodes), ArmsAreInFront(nodes)
    PROVE  GraphJoinsArms(nodes, BuildEdges(nodes))
<1>. DEFINE seen  == Scanned(nodes)[Len(nodes)].edges
            edges == BuildEdges(nodes)
<1>1. PICK n \in Nat : n = Len(nodes) /\ DOMAIN nodes = 1 .. n
  BY DEF IsList
<1>2. \A k \in 1 .. n : IsBranchPhi(nodes[k]) => Fed(nodes, seen, k)
  BY <1>1, PassIsExact DEF PassInv, EdgesSoFar
<1>3. \A j, i, x : HasEdge(edges, j, i, x) <=> HasEdge(seen, j, i, x) \/ HasEdge(BackEdges(nodes), j, i, x)
  BY AddedEdges DEF BuildEdges
<1>4. \A e \in BackEdges(nodes) : ~IsBranchPhi(nodes[e.to])
  <2>1. \A e \in BackEdges(nodes) : nodes[e.to].note = "loop_entry"
    BY DEF BackEdges, Edge
  <2>. QED
    BY <2>1 DEF IsBranchPhi
<1>. HIDE DEF seen, edges
<1>. SUFFICES ASSUME NEW i \in 1 .. n, IsBranchPhi(nodes[i]), NEW x \in nodes[i].writes
              PROVE  /\ \A scope \in nodes[i].reads : ArmWrites(nodes, i, scope, x) # {}
                     /\ {e.from : e \in {d \in edges : d.to = i}}
                           = UNION {{j \in ArmWrites(nodes, i, scope, x) : \A k \in ArmWrites(nodes, i, scope, x) : k <= j} :
                                       scope \in nodes[i].reads}
  BY <1>1, Zenon DEF GraphJoinsArms, edges
<1>5. nodes[i].writes = {x}
  BY <1>1 DEF PhisTakeOneSlot
<1>6. ASSUME NEW j PROVE (\E slot : HasEdge(edges, j, i, slot)) <=> \E scope \in nodes[i].reads : LastOfArm(nodes, i, scope, x, j)
  <2>1. \A slot : ~HasEdge(BackEdges(nodes), j, i, slot)
    BY <1>4 DEF HasEdge
  <2>2. Fed(nodes, seen, i)
    BY <1>2
  <2>3. (\E slot : HasEdge(seen, j, i, slot)) <=> \E scope \in nodes[i].reads : LastOfArm(nodes, i, scope, x, j)
    BY <1>5, <2>2 DEF Fed
  <2>. QED
    BY <1>3, <2>1, <2>3
<1>7. ASSUME NEW j PROVE (\E slot : HasEdge(edges, j, i, slot)) <=> j \in {e.from : e \in {d \in edges : d.to = i}}
  <2>1. (\E slot : HasEdge(edges, j, i, slot)) <=> \E e \in edges : e.to = i /\ e.from = j
    BY DEF HasEdge
  <2>. QED
    BY <2>1
<1>. DEFINE LastIn(scope) == {j \in ArmWrites(nodes, i, scope, x) : \A k \in ArmWrites(nodes, i, scope, x) : k <= j}
<1>8. \A scope, j : LastOfArm(nodes, i, scope, x, j) <=> j \in LastIn(scope)
  BY DEF LastOfArm
<1>. HIDE DEF LastIn
<1>9. {e.from : e \in {d \in edges : d.to = i}} = UNION {LastIn(scope) : scope \in nodes[i].reads}
  <2>1. \A j : j \in {e.from : e \in {d \in edges : d.to = i}} <=> \E scope \in nodes[i].reads : j \in LastIn(scope)
    BY <1>6, <1>7, <1>8
  <2>. QED
    BY <2>1
<1>10. \A scope \in nodes[i].reads : ArmWrites(nodes, i, scope, x) # {}
  BY <1>1 DEF ArmsAreInFront
<1>. QED
  BY <1>9, <1>10 DEF LastIn

(***************************************************************************)
(* The lists the graph is built from are lists, for every program: there   *)
(* are finitely many slots, children have higher numbers than their        *)
(* parent, so that the walk ends.                                          *)
(***************************************************************************)
LEMMA ImageIsFinite == ASSUME NEW S, IsFiniteSet(S), NEW f PROVE IsFiniteSet({f[x] : x \in S})
<1>. DEFINE T == {f[x] : x \in S}
            g == [x \in S |-> f[x]]
<1>1. g \in Surjection(S, T)
  BY DEF Surjection
<1>. HIDE DEF T, g
<1>2. IsFiniteSet(T)
  BY <1>1, FS_Surjection
<1>. QED
  BY <1>2 DEF T

LEMMA ListIsFinite == ASSUME NEW s, s \in Seq(Range(s)) PROVE IsFiniteSet(DOMAIN s) /\ IsFiniteSet(Range(s))
<1>1. PICK n \in Nat : DOMAIN s = 1 .. n
  OBVIOUS
<1>2. IsFiniteSet(DOMAIN s)
  BY <1>1, FS_Interval
<1>3. IsFiniteSet({s[x] : x \in DOMAIN s})
  BY <1>2, ImageIsFinite
<1>. QED
  BY <1>2, <1>3 DEF Range

LEMMA SequenceOfASet == ASSUME NEW S, IsFiniteSet(S) PROVE SetToSeq(S) \in Seq(S)
<1>1. Cardinality(S) \in Nat /\ ExistsBijection(1 .. Cardinality(S), S)
  BY FS_CardinalityType
<1>2. PICK f \in [1 .. Cardinality(S) -> S] : IsInjective(f)
  <2>1. PICK f : f \in Bijection(1 .. Cardinality(S), S)
    BY <1>1 DEF ExistsBijection
  <2>2. f \in [1 .. Cardinality(S) -> S] /\ \A a, b \in 1 .. Cardinality(S) : f[a] = f[b] => a = b
    BY <2>1 DEF Bijection, Injection, IsInjective
  <2>3. IsInjective(f)
    BY <2>2 DEF IsInjective
  <2>. QED
    BY <2>2, <2>3
<1>3. SetToSeq(S) \in [1 .. Cardinality(S) -> S]
  BY <1>2, Zenon DEF SetToSeq
<1>. QED
  BY <1>1, <1>3

LEMMA AscendingIsASequence ==
    ASSUME NEW n \in Nat, NEW S, S \subseteq 1 .. n
    PROVE  Ascending(S) \in Seq(S)
<1>. DEFINE upto(m) == {y \in S : y <= m}
            c(m)    == Cardinality(upto(m))
<1>1. IsFiniteSet(S)
  <2>1. IsFiniteSet(1 .. n)
    BY FS_Interval
  <2>. QED
    BY <2>1, FS_Subset
<1>2. \A m : IsFiniteSet(upto(m))
  <2>. SUFFICES ASSUME NEW m PROVE IsFiniteSet(upto(m))
    OBVIOUS
  <2>1. upto(m) \in SUBSET S
    OBVIOUS
  <2>. HIDE DEF upto
  <2>. QED
    BY <1>1, <2>1, FS_Subset
<1>3. \A m : c(m) \in Nat
  BY <1>2, FS_CardinalityType
<1>4. c(0) = 0 /\ c(n) = Cardinality(S) /\ Cardinality(S) \in Nat
  <2>1. upto(0) = {} /\ upto(n) = S
    <3>1. \A y \in S : ~(y <= 0) /\ y <= n
      OBVIOUS
    <3>. QED
      BY <3>1
  <2>2. Cardinality({}) = 0 /\ Cardinality(S) \in Nat
    BY <1>1, FS_EmptySet, FS_CardinalityType
  <2>. QED
    BY <2>1, <2>2
<1>5. ASSUME NEW k \in 1 .. Cardinality(S) PROVE \E x \in S : c(x) = k
  <2>. DEFINE M == {m \in 0 .. n : c(m) >= k}
  <2>1. M \in SUBSET Nat /\ M # {}
    <3>. HIDE DEF c
    <3>1. n \in M
      BY <1>4
    <3>. QED
      BY <3>1
  <2>2. PICK m \in M : \A x \in M : m <= x
    <3>. HIDE DEF M
    <3>. QED
      BY <2>1, LeastNumber
  <2>3. m \in 0 .. n /\ c(m) >= k
    BY <2>2
  <2>4. m # 0 /\ m - 1 \in 0 .. n
    <3>. HIDE DEF c
    <3>1. m # 0
      BY <1>4, <2>3
    <3>. QED
      BY <2>3, <3>1
  <2>5. c(m - 1) < k
    <3>. HIDE DEF c
    <3>1. m - 1 \notin M
      <4>. SUFFICES ASSUME m - 1 \in M PROVE FALSE
        OBVIOUS
      <4>1. m <= m - 1
        BY <2>2
      <4>. QED
        BY <2>3, <4>1
    <3>2. c(m - 1) \in Nat
      BY <1>3
    <3>. QED
      BY <2>4, <3>1, <3>2
  <2>6. m \in S
    <3>. SUFFICES ASSUME m \notin S PROVE FALSE
      OBVIOUS
    <3>1. upto(m) = upto(m - 1)
      <4>1. \A y \in S : y <= m <=> y <= m - 1
        BY <2>3
      <4>. QED
        BY <4>1
    <3>2. c(m) = c(m - 1)
      BY <3>1
    <3>. HIDE DEF c
    <3>3. c(m) \in Nat /\ c(m - 1) \in Nat
      BY <1>3
    <3>. QED
      BY <2>3, <2>5, <3>2, <3>3
  <2>7. c(m) = c(m - 1) + 1
    <3>1. upto(m) = upto(m - 1) \cup {m}
      <4>1. \A y \in S : y <= m <=> (y <= m - 1 \/ y = m)
        BY <2>3
      <4>. QED
        BY <2>3, <2>6, <4>1
    <3>2. m \notin upto(m - 1)
      BY <2>3
    <3>3. IsFiniteSet(upto(m - 1))
      BY <1>2
    <3>. HIDE DEF upto
    <3>4. Cardinality(upto(m - 1) \cup {m}) = Cardinality(upto(m - 1)) + 1
      BY <3>2, <3>3, FS_AddElement
    <3>. QED
      BY <3>1, <3>4
  <2>8. c(m) = k
    <3>. HIDE DEF c
    <3>1. c(m) \in Nat /\ c(m - 1) \in Nat
      BY <1>3
    <3>. QED
      BY <2>3, <2>5, <2>7, <3>1
  <2>. QED
    BY <2>6, <2>8
<1>6. ASSUME NEW k \in 1 .. Cardinality(S) PROVE (CHOOSE x \in S : c(x) = k) \in S
  <2>. HIDE DEF c
  <2>. QED
    BY <1>5, Zenon
<1>7. Ascending(S) = [k \in 1 .. Cardinality(S) |-> CHOOSE x \in S : c(x) = k]
  BY Zenon DEF Ascending
<1>. HIDE DEF c
<1>8. Ascending(S) \in [1 .. Cardinality(S) -> S]
  BY <1>6, <1>7
<1>. QED
  BY <1>4, <1>8

LEMMA ChildrenAreBelow ==
    ASSUME NEW segs, IsProgram(segs), NEW g \in DOMAIN segs
    PROVE  Children(segs, g) \in Seq({c \in DOMAIN segs : c > g})
<1>1. PICK n \in Nat : DOMAIN segs = 1 .. n
  BY DEF IsProgram
<1>. DEFINE S == {c \in DOMAIN segs : Parent(segs, c) = g /\ c # g}
<1>2. S \subseteq 1 .. n /\ S \subseteq {c \in DOMAIN segs : c > g}
  <2>1. \A c \in DOMAIN segs : Parent(segs, c) \in 1 .. c
    BY DEF IsProgram, Parent
  <2>. QED
    BY <1>1, <2>1
<1>3. Children(segs, g) = Ascending(S)
  BY DEF Children
<1>. HIDE DEF S
<1>4. Ascending(S) \in Seq(S)
  BY <1>2, AscendingIsASequence
<1>5. PICK k \in Nat : Ascending(S) \in [1 .. k -> S]
  BY <1>4
<1>. DEFINE T == {c \in DOMAIN segs : c > g}
<1>6. S \subseteq T
  BY <1>2
<1>. HIDE DEF T
<1>7. Ascending(S) \in [1 .. k -> T]
  BY <1>5, <1>6
<1>8. Ascending(S) \in Seq(T)
  BY <1>7
<1>. QED
  BY <1>3, <1>8 DEF T

LEMMA FiniteSlots == ASSUME NEW segs, IsProgram(segs) PROVE IsFiniteSet(Slots(segs))
<1>1. IsFiniteSet(DOMAIN segs)
  BY ListIsFinite DEF IsProgram
<1>. DEFINE Names(g) == {segs[g].memory[i].name : i \in DOMAIN segs[g].memory} \cup Range(segs[g].constants)
<1>2. ASSUME NEW g \in DOMAIN segs PROVE IsFiniteSet(Names(g))
  <2>1. segs[g].memory \in Seq(Range(segs[g].memory)) /\ segs[g].constants \in Seq(Range(segs[g].constants))
    <3>1. segs[g]["memory"] \in Seq(Range(segs[g]["memory"])) /\ segs[g]["constants"] \in Seq(Range(segs[g]["constants"]))
      BY DEF IsProgram
    <3>. QED
      BY <3>1
  <2>2. IsFiniteSet(DOMAIN segs[g].memory) /\ IsFiniteSet(Range(segs[g].constants))
    BY <2>1, ListIsFinite
  <2>. DEFINE f == [i \in DOMAIN segs[g].memory |-> segs[g].memory[i].name]
  <2>3. {f[i] : i \in DOMAIN segs[g].memory} = {segs[g].memory[i].name : i \in DOMAIN segs[g].memory}
    OBVIOUS
  <2>. HIDE DEF f
  <2>4. IsFiniteSet({f[i] : i \in DOMAIN segs[g].memory})
    BY <2>2, ImageIsFinite
  <2>. QED
    BY <2>2, <2>3, <2>4, FS_Union
<1>. DEFINE f == [g \in DOMAIN segs |-> Names(g)]
<1>3. Slots(segs) = UNION {f[g] : g \in DOMAIN segs}
  BY DEF Slots
<1>4. \A g \in DOMAIN segs : IsFiniteSet(f[g])
  BY <1>2
<1>. HIDE DEF f
<1>5. IsFiniteSet({f[g] : g \in DOMAIN segs})
  BY <1>1, ImageIsFinite
<1>6. \A x \in {f[g] : g \in DOMAIN segs} : IsFiniteSet(x)
  BY <1>4
<1>. QED
  BY <1>3, <1>5, <1>6, FS_UNION

LEMMA FiniteWrites ==
    ASSUME NEW segs, IsProgram(segs), NEW g \in DOMAIN segs
    PROVE  Rows(segs, g) \in Seq(Range(Rows(segs, g))) /\ IsFiniteSet(RowWrites(Rows(segs, g)))
<1>. DEFINE slots == Slots(segs)
            scope == segs[g].scope
            stmts == segs[g].stmts
            rows  == Rows(segs, g)
<1>1. IsFiniteSet(slots)
  BY FiniteSlots
<1>. HIDE DEF slots
<1>2. PICK n \in Nat : DOMAIN stmts = 1 .. n
  <2>1. segs[g]["stmts"] \in Seq(Range(segs[g]["stmts"]))
    BY DEF IsProgram
  <2>. QED
    BY <2>1
<1>3. rows = [i \in 1 .. n |-> StmtToRow(segs, g, stmts[i])]
  BY <1>2 DEF Rows
<1>4. \A name : IsFiniteSet(SlotOf(name, scope, slots))
  <2>. SUFFICES ASSUME NEW name PROVE IsFiniteSet(SlotOf(name, scope, slots))
    OBVIOUS
  <2>1. IsFiniteSet({Resolve(scope, name, slots)})
    BY FS_Singleton
  <2>2. SlotOf(name, scope, slots) \subseteq {Resolve(scope, name, slots)}
    BY DEF SlotOf
  <2>. QED
    BY <2>1, <2>2, FS_Subset
<1>5. \A st : IsFiniteSet(DeclaredOf(st, scope, slots))
  <2>. SUFFICES ASSUME NEW st PROVE IsFiniteSet(DeclaredOf(st, scope, slots))
    OBVIOUS
  <2>1. DeclaredFields(scope, st.l, slots) \subseteq slots
    BY DEF DeclaredFields
  <2>2. IsFiniteSet(DeclaredFields(scope, st.l, slots))
    BY <1>1, <2>1, FS_Subset
  <2>. QED
    BY <1>4, <2>2 DEF DeclaredOf
<1>6. ASSUME NEW i \in 1 .. n PROVE IsFiniteSet(rows[i].writes \cup rows[i].decls)
  <2>. DEFINE st == stmts[i]
              target == SlotOf(st.l, scope, slots)
              declared == DeclaredOf(st, scope, slots)
              r == RowOf(st.kind, g, scope, ReadsOf(st, scope, slots), target, declared)
  <2>1. rows[i] = r
    BY <1>3 DEF StmtToRow, StmtRow, slots
  <2>2. IsFiniteSet(target) /\ IsFiniteSet(declared) /\ IsFiniteSet({})
    BY <1>4, <1>5, FS_EmptySet
  <2>3. r.writes \in {target, declared, {}} /\ r.decls \in {target, declared, {}}
    <3>. HIDE DEF target, declared
    <3>. QED
      BY DEF RowOf, Row
  <2>. HIDE DEF r
  <2>4. IsFiniteSet(r.writes) /\ IsFiniteSet(r.decls)
    BY <2>2, <2>3
  <2>. QED
    BY <2>1, <2>4, FS_Union
<1>7. rows \in Seq(Range(rows)) /\ DOMAIN rows = 1 .. n
  <2>1. DOMAIN rows = 1 .. n
    BY <1>3
  <2>2. rows = [i \in 1 .. n |-> rows[i]]
    BY <1>3
  <2>. HIDE DEF rows
  <2>3. \A i \in 1 .. n : rows[i] \in Range(rows)
    BY <2>1 DEF Range
  <2>4. rows \in [1 .. n -> Range(rows)]
    BY <2>2, <2>3
  <2>. QED
    BY <2>1, <2>4
<1>. HIDE DEF rows
<1>8. IsFiniteSet(RowWrites(rows))
  <2>. DEFINE f == [i \in 1 .. n |-> rows[i].writes \cup rows[i].decls]
  <2>1. RowWrites(rows) = UNION {f[i] : i \in 1 .. n}
    BY <1>7 DEF RowWrites
  <2>2. \A i \in 1 .. n : IsFiniteSet(f[i])
    BY <1>6
  <2>3. IsFiniteSet(1 .. n)
    BY FS_Interval
  <2>. HIDE DEF f
  <2>4. IsFiniteSet({f[i] : i \in 1 .. n})
    BY <2>3, ImageIsFinite
  <2>5. \A x \in {f[i] : i \in 1 .. n} : IsFiniteSet(x)
    BY <2>2
  <2>. QED
    BY <2>1, <2>4, <2>5, FS_UNION
<1>. QED
  BY <1>7, <1>8 DEF rows

\* The scopes a phi behind this group of arms joins for a slot.
ArmsWriting(segs, group, x) == {segs[c].scope : c \in {d \in Range(group) : x \in RowWrites(Rows(segs, d))}}

LEMMA PhisAreLists ==
    ASSUME NEW segs, IsProgram(segs)
    PROVE  /\ \A group \in Seq(DOMAIN segs) :
                 /\ BranchPhis(segs, group) \in Seq(Range(BranchPhis(segs, group)))
                 /\ \A row \in Range(BranchPhis(segs, group)) : \E x : row.writes = {x} /\ row.reads = ArmsWriting(segs, group, x)
           /\ \A g \in DOMAIN segs :
                 /\ LoopPhis(segs, g) \in Seq(Range(LoopPhis(segs, g)))
                 /\ \A row \in Range(LoopPhis(segs, g)) : row.note = "loop_entry"
<1>1. ASSUME NEW S, IsFiniteSet(S), NEW phi
      PROVE  /\ SetToSeq({phi[x] : x \in S}) \in Seq(Range(SetToSeq({phi[x] : x \in S})))
             /\ \A row \in Range(SetToSeq({phi[x] : x \in S})) : \E x \in S : row = phi[x]
  <2>. DEFINE T == {phi[x] : x \in S}
              s == SetToSeq(T)
  <2>1. IsFiniteSet(T)
    BY <1>1, ImageIsFinite
  <2>. HIDE DEF T
  <2>2. s \in Seq(T)
    BY <2>1, SequenceOfASet
  <2>. HIDE DEF s
  <2>3. PICK n \in Nat : s \in [1 .. n -> T]
    BY <2>2
  <2>4. \A i \in 1 .. n : s[i] \in Range(s)
    BY <2>3 DEF Range
  <2>5. s \in [1 .. n -> Range(s)]
    BY <2>3, <2>4
  <2>6. s \in Seq(Range(s))
    BY <2>5
  <2>7. \A row \in Range(s) : row \in T
    BY <2>3 DEF Range
  <2>. QED
    BY <2>6, <2>7 DEF s, T
<1>2. ASSUME NEW S, S \subseteq DOMAIN segs, IsFiniteSet(S) PROVE IsFiniteSet(UNION {RowWrites(Rows(segs, c)) : c \in S})
  <2>. DEFINE f == [c \in S |-> RowWrites(Rows(segs, c))]
  <2>1. {f[c] : c \in S} = {RowWrites(Rows(segs, c)) : c \in S}
    OBVIOUS
  <2>2. \A c \in S : IsFiniteSet(f[c])
    BY <1>2, FiniteWrites
  <2>. HIDE DEF f
  <2>3. IsFiniteSet({f[c] : c \in S})
    BY <1>2, ImageIsFinite
  <2>4. \A x \in {f[c] : c \in S} : IsFiniteSet(x)
    BY <2>2
  <2>5. IsFiniteSet(UNION {f[c] : c \in S})
    BY <2>3, <2>4, FS_UNION
  <2>. QED
    BY <2>1, <2>5
<1>3. ASSUME NEW group \in Seq(DOMAIN segs)
      PROVE  /\ BranchPhis(segs, group) \in Seq(Range(BranchPhis(segs, group)))
             /\ \A row \in Range(BranchPhis(segs, group)) : \E x : row.writes = {x} /\ row.reads = ArmsWriting(segs, group, x)
  <2>. DEFINE Sources(x) == {segs[c].scope : c \in {d \in Range(group) : x \in RowWrites(Rows(segs, d))}}
              written    == UNION {RowWrites(Rows(segs, c)) : c \in Range(group)}
              Phi(x)     == Row("phi", None, <<>>, Sources(x), {x}, {}, "branch_reconvergence")
              phi        == [x \in written |-> Phi(x)]
  <2>1. IsFiniteSet(written)
    <3>1. PICK n \in Nat : DOMAIN group = 1 .. n /\ group \in [1 .. n -> DOMAIN segs]
      OBVIOUS
    <3>2. Range(group) \subseteq DOMAIN segs
      BY <3>1 DEF Range
    <3>3. group \in Seq(Range(group))
      <4>1. group \in [1 .. n -> Range(group)]
        BY <3>1 DEF Range
      <4>. QED
        BY <4>1
    <3>4. IsFiniteSet(Range(group))
      BY <3>3, ListIsFinite
    <3>. QED
      BY <1>2, <3>2, <3>4
  <2>2. BranchPhis(segs, group) = SetToSeq({Phi(x) : x \in written})
    BY Zenon DEF BranchPhis
  <2>5. \A x : Phi(x).writes = {x} /\ Phi(x).reads = ArmsWriting(segs, group, x)
    BY DEF Row, ArmsWriting
  <2>. HIDE DEF Phi, written
  <2>3. {Phi(x) : x \in written} = {phi[x] : x \in written} /\ \A x \in written : phi[x] = Phi(x)
    OBVIOUS
  <2>. HIDE DEF phi
  <2>4. /\ SetToSeq({phi[x] : x \in written}) \in Seq(Range(SetToSeq({phi[x] : x \in written})))
        /\ \A row \in Range(SetToSeq({phi[x] : x \in written})) : \E x \in written : row = phi[x]
    BY <1>1, <2>1
  <2>6. SetToSeq({phi[x] : x \in written}) = BranchPhis(segs, group)
    BY <2>2, <2>3
  <2>7. ASSUME NEW row \in Range(BranchPhis(segs, group)) PROVE \E x : row.writes = {x} /\ row.reads = ArmsWriting(segs, group, x)
    <3>1. PICK x \in written : row = phi[x]
      BY <2>4, <2>6
    <3>2. row.writes = {x} /\ row.reads = ArmsWriting(segs, group, x)
      BY <2>3, <2>5, <3>1
    <3>. QED
      BY <3>2
  <2>8. BranchPhis(segs, group) \in Seq(Range(BranchPhis(segs, group)))
    BY <2>4, <2>6
  <2>. QED
    BY <2>7, <2>8
<1>4. ASSUME NEW g \in DOMAIN segs
      PROVE  /\ LoopPhis(segs, g) \in Seq(Range(LoopPhis(segs, g)))
             /\ \A row \in Range(LoopPhis(segs, g)) : row.note = "loop_entry"
  <2>. DEFINE Phi(x)  == Row("phi", g, segs[g].scope, {x}, {x}, {}, "loop_entry")
              written == SubtreeWrites(segs, g)
              phi     == [x \in written |-> Phi(x)]
  <2>1. IsFiniteSet(written)
    <3>1. Subtree(segs, g) \subseteq DOMAIN segs
      BY DEF Subtree
    <3>2. IsFiniteSet(Subtree(segs, g))
      <4>1. IsFiniteSet(DOMAIN segs)
        BY ListIsFinite DEF IsProgram
      <4>. QED
        BY <3>1, <4>1, FS_Subset
    <3>. QED
      BY <1>2, <3>1, <3>2 DEF SubtreeWrites
  <2>2. LoopPhis(segs, g) = SetToSeq({Phi(x) : x \in written})
    BY Zenon DEF LoopPhis
  <2>5. \A x : Phi(x).note = "loop_entry"
    BY DEF Row
  <2>. HIDE DEF Phi, written
  <2>3. {Phi(x) : x \in written} = {phi[x] : x \in written} /\ \A x \in written : phi[x] = Phi(x)
    OBVIOUS
  <2>. HIDE DEF phi
  <2>4. /\ SetToSeq({phi[x] : x \in written}) \in Seq(Range(SetToSeq({phi[x] : x \in written})))
        /\ \A row \in Range(SetToSeq({phi[x] : x \in written})) : \E x \in written : row = phi[x]
    BY <1>1, <2>1
  <2>6. SetToSeq({phi[x] : x \in written}) = LoopPhis(segs, g)
    BY <2>2, <2>3
  <2>. QED
    BY <2>3, <2>4, <2>5, <2>6
<1>. QED
  BY <1>3, <1>4

\* All rows there can be.
OwnRows(segs) ==
    {Rows(segs, x[1])[x[2]] : x \in {y \in (DOMAIN segs) \X Nat : y[2] \in 1 .. Len(segs[y[1]].stmts)}}

ArmRows(segs) == {Range(BranchPhis(segs, group)) : group \in Seq(DOMAIN segs)}

LoopRows(segs) == {Range(LoopPhis(segs, g)) : g \in DOMAIN segs}

RowsIn(segs) == OwnRows(segs) \cup (UNION ArmRows(segs)) \cup (UNION LoopRows(segs))

LEMMA WiderSequences == ASSUME NEW U, NEW T, U \subseteq T, NEW s \in Seq(U) PROVE s \in Seq(T)
<1>1. PICK n \in Nat : s \in [1 .. n -> U]
  OBVIOUS
<1>2. s \in [1 .. n -> T]
  BY <1>1
<1>. QED
  BY <1>2

LEMMA RowsAreSequences ==
    ASSUME NEW segs, IsProgram(segs)
    PROVE  /\ \A g \in DOMAIN segs : /\ Len(segs[g].stmts) \in Nat /\ Rows(segs, g) \in Seq(RowsIn(segs))
                                     /\ \A i \in 1 .. Len(segs[g].stmts) : StmtToRow(segs, g, segs[g].stmts[i]) \in RowsIn(segs)
           /\ \A group \in Seq(DOMAIN segs) : BranchPhis(segs, group) \in Seq(RowsIn(segs))
           /\ \A g \in DOMAIN segs : LoopPhis(segs, g) \in Seq(RowsIn(segs))
<1>1. \A group \in Seq(DOMAIN segs) : BranchPhis(segs, group) \in Seq(RowsIn(segs))
  <2>. SUFFICES ASSUME NEW group \in Seq(DOMAIN segs) PROVE BranchPhis(segs, group) \in Seq(RowsIn(segs))
    OBVIOUS
  <2>1. Range(BranchPhis(segs, group)) \subseteq RowsIn(segs)
    <3>1. Range(BranchPhis(segs, group)) \in ArmRows(segs)
      BY DEF ArmRows
    <3>. QED
      BY <3>1 DEF RowsIn
  <2>2. BranchPhis(segs, group) \in Seq(Range(BranchPhis(segs, group)))
    BY PhisAreLists
  <2>. QED
    BY <2>1, <2>2, WiderSequences
<1>2. \A g \in DOMAIN segs : LoopPhis(segs, g) \in Seq(RowsIn(segs))
  <2>. SUFFICES ASSUME NEW g \in DOMAIN segs PROVE LoopPhis(segs, g) \in Seq(RowsIn(segs))
    OBVIOUS
  <2>1. Range(LoopPhis(segs, g)) \subseteq RowsIn(segs)
    <3>1. Range(LoopPhis(segs, g)) \in LoopRows(segs)
      BY DEF LoopRows
    <3>. QED
      BY <3>1 DEF RowsIn
  <2>2. LoopPhis(segs, g) \in Seq(Range(LoopPhis(segs, g)))
    BY PhisAreLists
  <2>. QED
    BY <2>1, <2>2, WiderSequences
<1>3. ASSUME NEW g \in DOMAIN segs
      PROVE  /\ Len(segs[g].stmts) \in Nat /\ Rows(segs, g) \in Seq(RowsIn(segs))
             /\ \A i \in 1 .. Len(segs[g].stmts) : StmtToRow(segs, g, segs[g].stmts[i]) \in RowsIn(segs)
  <2>1. PICK n \in Nat : DOMAIN segs[g].stmts = 1 .. n /\ Len(segs[g].stmts) = n
    <3>1. segs[g]["stmts"] \in Seq(Range(segs[g]["stmts"]))
      BY DEF IsProgram
    <3>. QED
      BY <3>1
  <2>. DEFINE rows == Rows(segs, g)
  <2>2. rows = [i \in 1 .. n |-> StmtToRow(segs, g, segs[g].stmts[i])]
    BY <2>1 DEF Rows
  <2>3. ASSUME NEW i \in 1 .. n PROVE rows[i] \in RowsIn(segs)
    <3>. DEFINE x == <<g, i>>
    <3>1. x \in {y \in (DOMAIN segs) \X Nat : y[2] \in 1 .. Len(segs[y[1]].stmts)} /\ x[1] = g /\ x[2] = i
      BY <2>1
    <3>. HIDE DEF x
    <3>2. rows[i] = Rows(segs, x[1])[x[2]]
      BY <3>1
    <3>. HIDE DEF rows
    <3>. QED
      BY <3>1, <3>2, Zenon DEF RowsIn, OwnRows
  <2>4. \A i \in 1 .. n : rows[i] = StmtToRow(segs, g, segs[g].stmts[i])
    BY <2>2
  <2>5. rows = [i \in 1 .. n |-> rows[i]]
    BY <2>2
  <2>. HIDE DEF rows
  <2>6. rows \in [1 .. n -> RowsIn(segs)]
    BY <2>3, <2>5
  <2>7. rows \in Seq(RowsIn(segs))
    BY <2>6
  <2>. QED
    BY <2>1, <2>3, <2>4, <2>7 DEF rows
<1>. QED
  BY <1>1, <1>2, <1>3

\* Of all rows only the phis behind branches join, each of them one slot.
LEMMA RowsJoinOneSlot ==
    ASSUME NEW segs, IsProgram(segs), NEW row \in RowsIn(segs), IsBranchPhi(row)
    PROVE  \E x : row.writes = {x}
<1>1. CASE row \in OwnRows(segs)
  <2>1. PICK y \in (DOMAIN segs) \X Nat : y[2] \in 1 .. Len(segs[y[1]].stmts) /\ row = Rows(segs, y[1])[y[2]]
    BY <1>1 DEF OwnRows
  <2>2. PICK g \in DOMAIN segs, i \in Nat : i \in 1 .. Len(segs[g].stmts) /\ row = Rows(segs, g)[i]
    BY <2>1
  <2>3. row = StmtToRow(segs, g, segs[g].stmts[i])
    <3>1. DOMAIN segs[g].stmts = 1 .. Len(segs[g].stmts)
      <4>1. segs[g]["stmts"] \in Seq(Range(segs[g]["stmts"]))
        BY DEF IsProgram
      <4>. QED
        BY <4>1
    <3>2. Rows(segs, g) = [k \in 1 .. Len(segs[g].stmts) |-> StmtToRow(segs, g, segs[g].stmts[k])]
      BY <3>1 DEF Rows
    <3>. QED
      BY <2>2, <3>2
  <2>4. row.note = ""
    BY <2>3 DEF StmtToRow, StmtRow, RowOf, Row
  <2>. QED
    BY <2>4 DEF IsBranchPhi
<1>2. CASE row \in UNION ArmRows(segs)
  <2>1. PICK group \in Seq(DOMAIN segs) : row \in Range(BranchPhis(segs, group))
    BY <1>2 DEF ArmRows
  <2>2. PICK x : row.writes = {x} /\ row.reads = ArmsWriting(segs, group, x)
    BY <2>1, PhisAreLists
  <2>. QED
    BY <2>2
<1>3. CASE row \in UNION LoopRows(segs)
  <2>1. row.note = "loop_entry"
    BY <1>3, PhisAreLists DEF LoopRows
  <2>. QED
    BY <2>1 DEF IsBranchPhi
<1>. QED
  BY <1>1, <1>2, <1>3 DEF RowsIn

(***************************************************************************)
(* The walk of one segment, when the segments below it are walked.         *)
(***************************************************************************)
Below(segs, g) == Range(Children(segs, g))

WalkedBelow(segs, g, walked) == \A c \in Below(segs, g) : walked[c] \in Seq(RowsIn(segs))

Done(segs, g) == [rows : Seq(RowsIn(segs)), kids : 0 .. Len(Children(segs, g)), group : Seq(DOMAIN segs)]

LEMMA BelowAreSegments ==
    ASSUME NEW segs, IsProgram(segs), NEW g \in DOMAIN segs
    PROVE  /\ Len(Children(segs, g)) \in Nat
           /\ \A k \in 1 .. Len(Children(segs, g)) : Children(segs, g)[k] \in Below(segs, g)
           /\ Below(segs, g) \subseteq {c \in DOMAIN segs : c > g}
<1>. DEFINE U == {c \in DOMAIN segs : c > g}
            kids == Children(segs, g)
<1>1. kids \in Seq(U)
  BY ChildrenAreBelow
<1>2. Below(segs, g) = Range(kids)
  BY DEF Below
<1>. HIDE DEF U, kids
<1>3. PICK n \in Nat : kids \in [1 .. n -> U] /\ Len(kids) = n
  BY <1>1
<1>4. Range(kids) \subseteq U /\ \A k \in 1 .. n : kids[k] \in Range(kids)
  BY <1>3 DEF Range
<1>. QED
  BY <1>2, <1>3, <1>4 DEF U, kids

LEMMA WalkedStatement ==
    ASSUME NEW segs, IsProgram(segs), NEW g \in DOMAIN segs, NEW walked, WalkedBelow(segs, g, walked),
           NEW done \in Done(segs, g), NEW i \in 1 .. Len(segs[g].stmts)
    PROVE  /\ WalkStmt(segs, g, walked, done, i) \in Done(segs, g)
           /\ \A other : (\A c \in Below(segs, g) : other[c] = walked[c])
                 => WalkStmt(segs, g, other, done, i) = WalkStmt(segs, g, walked, done, i)
<1>. DEFINE st    == segs[g].stmts[i]
            row   == <<StmtToRow(segs, g, st)>>
            kids  == Children(segs, g)
            child == kids[done.kids + 1]
            phis  == BranchPhis(segs, done.group)
            T     == RowsIn(segs)
<1>1. done.rows \in Seq(T) /\ done.kids \in 0 .. Len(kids) /\ done.group \in Seq(DOMAIN segs)
  BY DEF Done
<1>2. row \in Seq(T) /\ phis \in Seq(T)
  <2>1. StmtToRow(segs, g, st) \in T
    BY RowsAreSequences
  <2>2. phis \in Seq(T)
    BY <1>1, RowsAreSequences
  <2>. QED
    BY <2>1, <2>2
<1>3. Len(kids) \in Nat
  BY BelowAreSegments
<1>4. ASSUME done.kids # Len(kids)
      PROVE  child \in Below(segs, g) /\ child \in DOMAIN segs /\ done.kids + 1 \in 0 .. Len(kids)
  <2>1. done.kids + 1 \in 1 .. Len(kids)
    BY <1>1, <1>3, <1>4
  <2>2. child \in Below(segs, g)
    BY <2>1, BelowAreSegments
  <2>3. child \in DOMAIN segs
    BY <2>2, BelowAreSegments
  <2>. QED
    BY <2>1, <2>2, <2>3
<1>5. \A w : WalkStmt(segs, g, w, done, i) =
         IF st.kind \notin {"branch", "loop_head"}
         THEN [rows |-> done.rows \o phis \o row, kids |-> done.kids, group |-> <<>>]
         ELSE IF done.kids = Len(kids)
         THEN [rows |-> done.rows \o row, kids |-> done.kids, group |-> done.group]
         ELSE IF segs[child].type = "branch"
         THEN [rows |-> done.rows \o row \o w[child], kids |-> done.kids + 1, group |-> Append(done.group, child)]
         ELSE [rows |-> done.rows \o row \o phis \o w[child], kids |-> done.kids + 1, group |-> <<>>]
  BY Zenon DEF WalkStmt
<1>. HIDE DEF st, row, kids, child, phis, T
<1>6. done.kids # Len(kids) => walked[child] \in Seq(T)
  BY <1>4 DEF WalkedBelow, T
<1>7. WalkStmt(segs, g, walked, done, i) \in [rows : Seq(T), kids : 0 .. Len(kids), group : Seq(DOMAIN segs)]
  <2>1. <<>> \in Seq(DOMAIN segs)
    OBVIOUS
  <2>2. CASE st.kind \notin {"branch", "loop_head"}
    <3>1. done.rows \o phis \o row \in Seq(T)
      BY <1>1, <1>2
    <3>2. WalkStmt(segs, g, walked, done, i) = [rows |-> done.rows \o phis \o row, kids |-> done.kids, group |-> <<>>]
      BY <1>5, <2>2
    <3>. QED
      BY <1>1, <2>1, <3>1, <3>2
  <2>3. CASE st.kind \in {"branch", "loop_head"} /\ done.kids = Len(kids)
    <3>1. done.rows \o row \in Seq(T)
      BY <1>1, <1>2
    <3>2. WalkStmt(segs, g, walked, done, i) = [rows |-> done.rows \o row, kids |-> done.kids, group |-> done.group]
      BY <1>5, <2>3
    <3>. QED
      BY <1>1, <3>1, <3>2
  <2>4. CASE st.kind \in {"branch", "loop_head"} /\ done.kids # Len(kids) /\ segs[child].type = "branch"
    <3>1. done.rows \o row \o walked[child] \in Seq(T)
      BY <1>1, <1>2, <1>6, <2>4
    <3>2. Append(done.group, child) \in Seq(DOMAIN segs) /\ done.kids + 1 \in 0 .. Len(kids)
      BY <1>1, <1>4, <2>4
    <3>3. WalkStmt(segs, g, walked, done, i) =
             [rows |-> done.rows \o row \o walked[child], kids |-> done.kids + 1, group |-> Append(done.group, child)]
      BY <1>5, <2>4
    <3>. QED
      BY <3>1, <3>2, <3>3
  <2>5. CASE st.kind \in {"branch", "loop_head"} /\ done.kids # Len(kids) /\ segs[child].type # "branch"
    <3>1. done.rows \o row \o phis \o walked[child] \in Seq(T)
      BY <1>1, <1>2, <1>6, <2>5
    <3>2. done.kids + 1 \in 0 .. Len(kids)
      BY <1>4, <2>5
    <3>3. WalkStmt(segs, g, walked, done, i) =
             [rows |-> done.rows \o row \o phis \o walked[child], kids |-> done.kids + 1, group |-> <<>>]
      BY <1>5, <2>5
    <3>. QED
      BY <2>1, <3>1, <3>2, <3>3
  <2>. QED
    BY <2>2, <2>3, <2>4, <2>5
<1>8. ASSUME NEW other, \A c \in Below(segs, g) : other[c] = walked[c]
      PROVE  WalkStmt(segs, g, other, done, i) = WalkStmt(segs, g, walked, done, i)
  <2>1. done.kids # Len(kids) => other[child] = walked[child]
    BY <1>4, <1>8
  <2>. QED
    BY <1>5, <2>1
<1>. QED
  BY <1>7, <1>8 DEF Done, kids, T

\* The walk of the statements, statement by statement.
Started(segs, g) == [rows |-> IF segs[g].type = "loop" THEN LoopPhis(segs, g) ELSE <<>>, kids |-> 0, group |-> <<>>]

StatementByStatement(segs, g, walked, f) ==
    /\ f \in [0 .. Len(segs[g].stmts) -> Done(segs, g)]
    /\ f[0] = Started(segs, g)
    /\ \A i \in 1 .. Len(segs[g].stmts) : f[i] = WalkStmt(segs, g, walked, f[i - 1], i)

LEMMA StatementsStepByStep ==
    ASSUME NEW segs, IsProgram(segs), NEW g \in DOMAIN segs, NEW walked, WalkedBelow(segs, g, walked)
    PROVE  \E f : StatementByStatement(segs, g, walked, f) /\ WalkStmts(segs, g, walked) = f[Len(segs[g].stmts)]
<1>. DEFINE n     == Len(segs[g].stmts)
            D     == Done(segs, g)
            start == Started(segs, g)
<1>1. n \in Nat
  BY RowsAreSequences
<1>2. start \in D
  <2>1. Len(Children(segs, g)) \in Nat
    BY BelowAreSegments
  <2>2. LoopPhis(segs, g) \in Seq(RowsIn(segs))
    BY RowsAreSequences
  <2>3. <<>> \in Seq(RowsIn(segs)) /\ <<>> \in Seq(DOMAIN segs) /\ 0 \in 0 .. Len(Children(segs, g))
    BY <2>1
  <2>4. (IF segs[g].type = "loop" THEN LoopPhis(segs, g) ELSE <<>>) \in Seq(RowsIn(segs))
    BY <2>2, <2>3
  <2>. QED
    BY <2>3, <2>4 DEF Started, Done
<1>3. \A i \in 1 .. n, done \in D : WalkStmt(segs, g, walked, done, i) \in D
  BY WalkedStatement
<1>. DEFINE F == [p \in (1 .. n) \X D |-> WalkStmt(segs, g, walked, p[2], p[1])]
            Equation(u) == u = [i \in 0 .. n |-> IF i = 0 THEN start ELSE WalkStmt(segs, g, walked, u[i - 1], i)]
            upto == CHOOSE u : Equation(u)
<1>4. WalkStmts(segs, g, walked) = upto[n]
  BY Zenon DEF WalkStmts, Started
<1>. HIDE DEF n, D, start
<1>5. F \in [(1 .. n) \X D -> D]
  BY <1>3
<1>6. \A i \in 1 .. n, done \in D : F[<<i, done>>] = WalkStmt(segs, g, walked, done, i)
  OBVIOUS
<1>. HIDE DEF F
<1>7. PICK f \in [0 .. n -> D] : Follows(f, n, start, F)
  BY <1>1, <1>2, <1>5, Recursion
<1>8. Equation(f)
  <2>1. \A i \in 0 .. n : f[i] = IF i = 0 THEN start ELSE WalkStmt(segs, g, walked, f[i - 1], i)
    <3>. SUFFICES ASSUME NEW i \in 0 .. n
                  PROVE  f[i] = IF i = 0 THEN start ELSE WalkStmt(segs, g, walked, f[i - 1], i)
      OBVIOUS
    <3>1. f[i] = IF i = 0 THEN start ELSE F[<<i, f[i - 1]>>]
      BY <1>7 DEF Follows
    <3>2. CASE i = 0
      BY <3>1, <3>2
    <3>3. CASE i # 0
      <4>1. i \in 1 .. n /\ i - 1 \in 0 .. n
        BY <1>1, <3>3
      <4>2. f[i - 1] \in D
        BY <4>1
      <4>. QED
        BY <1>6, <3>1, <3>3, <4>1, <4>2
    <3>. QED
      BY <3>2, <3>3
  <2>. QED
    BY <2>1
<1>9. Equation(upto)
  <2>. HIDE DEF Equation
  <2>. QED
    BY <1>8, Zenon
<1>. HIDE DEF upto
<1>10. /\ DOMAIN upto = 0 .. n /\ upto[0] = start
       /\ \A i \in 1 .. n : upto[i] = WalkStmt(segs, g, walked, upto[i - 1], i)
  <2>1. 0 \in 0 .. n /\ \A i \in 1 .. n : i \in 0 .. n /\ i # 0
    BY <1>1
  <2>. QED
    BY <1>9, <2>1
<1>. DEFINE S == {i \in Nat : i \in 0 .. n => upto[i] \in D}
<1>11. 0 \in S
  BY <1>2, <1>10
<1>12. ASSUME NEW i \in 0 .. n - 1, i \in S PROVE i + 1 \in S
  <2>1. i + 1 \in 1 .. n /\ (i + 1) - 1 = i /\ i \in 0 .. n /\ i + 1 \in Nat
    BY <1>1
  <2>2. upto[i] \in D
    BY <1>12, <2>1
  <2>3. upto[i + 1] = WalkStmt(segs, g, walked, upto[i], i + 1)
    BY <1>10, <2>1
  <2>. QED
    BY <1>3, <2>1, <2>2, <2>3
<1>. HIDE DEF S
<1>13. 0 .. n \subseteq S
  BY <1>1, <1>11, <1>12, Climbs
<1>14. \A i \in 0 .. n : upto[i] \in D
  BY <1>13 DEF S
<1>15. upto = [i \in 0 .. n |-> upto[i]]
  <2>. HIDE DEF Equation
  <2>1. \A u : Equation(u) => u = [i \in 0 .. n |-> u[i]]
    BY DEF Equation
  <2>. QED
    BY <1>9, <2>1
<1>16. upto \in [0 .. n -> D]
  <2>. HIDE DEF Equation
  <2>. QED
    BY <1>14, <1>15
<1>. HIDE DEF Equation
<1>. QED
  BY <1>4, <1>10, <1>16 DEF StatementByStatement, n, D, start

LEMMA WalkedStatements ==
    ASSUME NEW segs, IsProgram(segs), NEW g \in DOMAIN segs, NEW walked, WalkedBelow(segs, g, walked)
    PROVE  /\ WalkStmts(segs, g, walked) \in Done(segs, g)
           /\ \A other : (\A c \in Below(segs, g) : other[c] = walked[c])
                 => WalkStmts(segs, g, other) = WalkStmts(segs, g, walked)
<1>. DEFINE n == Len(segs[g].stmts)
            D == Done(segs, g)
<1>1. n \in Nat
  BY RowsAreSequences
<1>2. PICK f : StatementByStatement(segs, g, walked, f) /\ WalkStmts(segs, g, walked) = f[n]
  BY StatementsStepByStep
<1>3. f[n] \in D
  <2>1. n \in 0 .. n
    BY <1>1
  <2>. QED
    BY <1>2, <2>1 DEF StatementByStatement
<1>4. ASSUME NEW other, \A c \in Below(segs, g) : other[c] = walked[c]
      PROVE  WalkStmts(segs, g, other) = WalkStmts(segs, g, walked)
  <2>1. WalkedBelow(segs, g, other)
    BY <1>4 DEF WalkedBelow
  <2>2. PICK h : StatementByStatement(segs, g, other, h) /\ WalkStmts(segs, g, other) = h[n]
    BY <2>1, StatementsStepByStep
  <2>. DEFINE S == {i \in Nat : i \in 0 .. n => h[i] = f[i]}
  <2>3. 0 \in S
    BY <1>2, <2>2 DEF StatementByStatement
  <2>4. ASSUME NEW i \in 0 .. n - 1, i \in S PROVE i + 1 \in S
    <3>1. i + 1 \in 1 .. n /\ (i + 1) - 1 = i /\ i \in 0 .. n /\ i + 1 \in Nat
      BY <1>1
    <3>2. h[i] = f[i]
      BY <2>4, <3>1
    <3>3. h[i + 1] = WalkStmt(segs, g, other, h[i], i + 1)
      BY <2>2, <3>1 DEF StatementByStatement
    <3>4. f[i + 1] = WalkStmt(segs, g, walked, f[i], i + 1)
      BY <1>2, <3>1 DEF StatementByStatement
    <3>5. f[i] \in D
      BY <1>2, <3>1 DEF StatementByStatement
    <3>6. WalkStmt(segs, g, other, f[i], i + 1) = WalkStmt(segs, g, walked, f[i], i + 1)
      BY <1>4, <3>1, <3>5, WalkedStatement
    <3>. QED
      BY <3>1, <3>2, <3>3, <3>4, <3>6
  <2>. HIDE DEF S, n
  <2>5. 0 .. n \subseteq S
    BY <1>1, <2>3, <2>4, Climbs
  <2>6. n \in 0 .. n
    BY <1>1
  <2>7. h[n] = f[n]
    BY <2>5, <2>6 DEF S
  <2>. QED
    BY <1>2, <2>2, <2>7
<1>. HIDE DEF n, D
<1>. QED
  BY <1>2, <1>3, <1>4 DEF D

LEMMA WalkedSegment ==
    ASSUME NEW segs, IsProgram(segs), NEW g \in DOMAIN segs, NEW walked, WalkedBelow(segs, g, walked)
    PROVE  /\ WalkSegment(segs, g, walked) \in Seq(RowsIn(segs))
           /\ \A other : (\A c \in Below(segs, g) : other[c] = walked[c])
                 => WalkSegment(segs, g, other) = WalkSegment(segs, g, walked)
<1>. DEFINE done == WalkStmts(segs, g, walked)
            kids == Children(segs, g)
            phis == BranchPhis(segs, done.group)
            T    == RowsIn(segs)
            Rest(w) == [j \in 1 .. Len(kids) - done.kids |-> w[kids[done.kids + j]]]
<1>1. done.rows \in Seq(T) /\ done.kids \in 0 .. Len(kids) /\ done.group \in Seq(DOMAIN segs)
  <2>1. done \in Done(segs, g)
    BY WalkedStatements
  <2>. QED
    BY <2>1 DEF Done
<1>2. phis \in Seq(T)
  BY <1>1, RowsAreSequences
<1>3. PICK m \in Nat : m = Len(kids) - done.kids
  BY <1>1, BelowAreSegments
<1>4. \A j \in 1 .. m : kids[done.kids + j] \in Below(segs, g)
  <2>1. \A j \in 1 .. m : done.kids + j \in 1 .. Len(kids)
    BY <1>1, <1>3, BelowAreSegments
  <2>. QED
    BY <2>1, BelowAreSegments
<1>5. WalkSegment(segs, g, walked) = done.rows \o phis \o FlattenSeq(Rest(walked))
  BY Zenon DEF WalkSegment
<1>6. ASSUME NEW other, \A c \in Below(segs, g) : other[c] = walked[c]
      PROVE  WalkSegment(segs, g, other) = done.rows \o phis \o FlattenSeq(Rest(other))
  <2>1. WalkStmts(segs, g, other) = done
    BY <1>6, WalkedStatements
  <2>. DEFINE again == WalkStmts(segs, g, other)
  <2>2. WalkSegment(segs, g, other) = again.rows \o BranchPhis(segs, again.group)
                \o FlattenSeq([j \in 1 .. Len(kids) - again.kids |-> other[kids[again.kids + j]]])
    BY Zenon DEF WalkSegment
  <2>. HIDE DEF again, done, kids
  <2>3. again = done
    BY <2>1 DEF again
  <2>. QED
    BY <2>2, <2>3
<1>. HIDE DEF done, kids, phis, T
<1>7. FlattenSeq(Rest(walked)) \in Seq(T)
  <2>1. \A j \in 1 .. m : walked[kids[done.kids + j]] \in Seq(T)
    BY <1>4 DEF WalkedBelow, T
  <2>2. Rest(walked) \in Seq(Seq(T))
    BY <1>3, <2>1
  <2>. HIDE DEF Rest
  <2>. QED
    BY <2>2, FlatIsASequence
<1>8. ASSUME NEW other, \A c \in Below(segs, g) : other[c] = walked[c]
      PROVE  Rest(other) = Rest(walked)
  BY <1>3, <1>4, <1>8
<1>. HIDE DEF Rest
<1>9. WalkSegment(segs, g, walked) \in Seq(T)
  <2>. DEFINE rest == FlattenSeq(Rest(walked))
  <2>. HIDE DEF rest
  <2>1. rest \in Seq(T)
    BY <1>7 DEF rest
  <2>2. done.rows \o phis \o rest \in Seq(T)
    BY <1>1, <1>2, <2>1
  <2>. QED
    BY <1>5, <2>2 DEF rest
<1>. QED
  BY <1>5, <1>6, <1>8, <1>9 DEF T

LEMMA WalkIsTyped ==
    ASSUME NEW segs, IsProgram(segs)
    PROVE  \A g \in DOMAIN segs :
              Walk(segs)[g] \in Seq(RowsIn(segs)) /\ Walk(segs)[g] = WalkSegment(segs, g, Walk(segs))
<1>. DEFINE T == RowsIn(segs)
<1>1. PICK n \in Nat : DOMAIN segs = 1 .. n
  <2>1. segs \in Seq(Range(segs))
    BY DEF IsProgram
  <2>. QED
    BY <2>1
<1>2. ASSUME NEW g \in 1 .. n PROVE Below(segs, g) \subseteq {c \in 1 .. n : c > g}
  BY <1>1, BelowAreSegments
<1>. DEFINE W == [1 .. n -> Seq(T)]
            Segment(g, w) == WalkSegment(segs, g, w)
            Next1(k, w) == [w EXCEPT ![n - k + 1] = Segment(n - k + 1, w)]
            F == [p \in (1 .. n) \X W |-> Next1(p[1], p[2])]
            none == [g \in 1 .. n |-> <<>>]
            Equation(w) == w = [g \in 1 .. n |-> Segment(g, w)]
            walked == CHOOSE w : Equation(w)
<1>3. Walk(segs) = walked
  <2>1. Walk(segs) = CHOOSE w : w = [g \in DOMAIN segs |-> WalkSegment(segs, g, w)]
    BY Zenon DEF Walk
  <2>. QED
    BY <1>1, <2>1
<1>4. ASSUME NEW g \in 1 .. n, NEW w, \A c \in 1 .. n : c > g => w[c] \in Seq(T)
      PROVE  /\ Segment(g, w) \in Seq(T)
             /\ \A v : (\A c \in 1 .. n : c > g => v[c] = w[c]) => Segment(g, v) = Segment(g, w)
  <2>1. WalkedBelow(segs, g, w)
    BY <1>2, <1>4 DEF WalkedBelow
  <2>2. Segment(g, w) \in Seq(T)
    BY <1>1, <2>1, WalkedSegment
  <2>3. ASSUME NEW v, \A c \in 1 .. n : c > g => v[c] = w[c] PROVE Segment(g, v) = Segment(g, w)
    <3>1. \A c \in Below(segs, g) : v[c] = w[c]
      BY <1>2, <2>3
    <3>. QED
      BY <1>1, <2>1, <3>1, WalkedSegment
  <2>. QED
    BY <2>2, <2>3
<1>. HIDE DEF T, Segment
<1>5. ASSUME NEW k \in 1 .. n, NEW w \in W PROVE Next1(k, w) \in W
  <2>1. n - k + 1 \in 1 .. n /\ \A c \in 1 .. n : w[c] \in Seq(T)
    OBVIOUS
  <2>2. Segment(n - k + 1, w) \in Seq(T)
    BY <1>4, <2>1
  <2>. QED
    BY <2>1, <2>2
<1>6. F \in [(1 .. n) \X W -> W]
  <2>. HIDE DEF W, Next1
  <2>. QED
    BY <1>5
<1>7. \A k \in 1 .. n, w \in W : F[<<k, w>>] = Next1(k, w)
  <2>. HIDE DEF W, Next1
  <2>. QED
    OBVIOUS
<1>8. none \in W
  OBVIOUS
<1>. HIDE DEF F, none
<1>9. PICK f \in [0 .. n -> W] : Follows(f, n, none, F)
  <2>. HIDE DEF W
  <2>. QED
    BY <1>6, <1>8, Recursion
<1>10. \A k \in 0 .. n : f[k] \in W
  <2>. HIDE DEF W
  <2>. QED
    OBVIOUS
<1>11. \A k \in 0 .. n - 1 : f[k + 1] = [f[k] EXCEPT ![n - k] = Segment(n - k, f[k])]
  <2>. SUFFICES ASSUME NEW k \in 0 .. n - 1 PROVE f[k + 1] = [f[k] EXCEPT ![n - k] = Segment(n - k, f[k])]
    OBVIOUS
  <2>1. k + 1 \in 1 .. n /\ k + 1 \in 0 .. n /\ k + 1 # 0 /\ (k + 1) - 1 = k /\ n - (k + 1) + 1 = n - k /\ k \in 0 .. n
    OBVIOUS
  <2>2. f[k + 1] = F[<<k + 1, f[k]>>]
    BY <1>9, <2>1 DEF Follows
  <2>3. F[<<k + 1, f[k]>>] = Next1(k + 1, f[k])
    BY <1>7, <1>10, <2>1
  <2>. QED
    BY <2>1, <2>2, <2>3
\* The last k segments are walked by step k, and stay so.
<1>. DEFINE S == {k \in Nat : k \in 0 .. n => \A g \in 1 .. n : g > n - k => f[k][g] = Segment(g, f[k])}
<1>12. 0 \in S
  OBVIOUS
<1>13. ASSUME NEW k \in 0 .. n - 1, k \in S PROVE k + 1 \in S
  <2>1. k \in 0 .. n /\ k + 1 \in 0 .. n /\ k + 1 \in Nat /\ n - k \in 1 .. n
    OBVIOUS
  <2>. DEFINE v == f[k]
              w == f[k + 1]
              m == n - k
  <2>2. v \in W /\ w = [v EXCEPT ![m] = Segment(m, v)]
    BY <1>10, <1>11, <2>1
  <2>3. \A g \in 1 .. n : g > m => v[g] = Segment(g, v)
    BY <1>13, <2>1
  <2>. HIDE DEF v, w, m
  <2>4. m \in 1 .. n
    BY <2>1 DEF m
  <2>5. w[m] = Segment(m, v) /\ \A g \in 1 .. n : g # m => w[g] = v[g]
    BY <2>2, <2>4
  <2>6. ASSUME NEW g \in 1 .. n, g >= m PROVE Segment(g, w) = Segment(g, v)
    <3>1. \A c \in 1 .. n : c > g => v[c] \in Seq(T)
      BY <2>2
    <3>2. \A c \in 1 .. n : c > g => w[c] = v[c]
      BY <2>4, <2>5, <2>6
    <3>. QED
      BY <1>4, <3>1, <3>2
  <2>7. \A g \in 1 .. n : g > n - (k + 1) => w[g] = Segment(g, w)
    <3>. SUFFICES ASSUME NEW g \in 1 .. n, g > n - (k + 1) PROVE w[g] = Segment(g, w)
      OBVIOUS
    <3>1. g = m \/ g > m
      BY DEF m
    <3>2. Segment(g, w) = Segment(g, v)
      BY <2>4, <2>6, <3>1
    <3>. QED
      BY <2>3, <2>4, <2>5, <3>1, <3>2
  <2>. QED
    BY <2>1, <2>7 DEF w
<1>. HIDE DEF S
<1>14. 0 .. n \subseteq S
  BY <1>12, <1>13, Climbs
<1>15. Equation(f[n])
  <2>1. n \in 0 .. n /\ \A g \in 1 .. n : g > n - n
    OBVIOUS
  <2>2. \A g \in 1 .. n : f[n][g] = Segment(g, f[n])
    BY <1>14, <2>1 DEF S
  <2>3. f[n] \in W
    BY <1>10, <2>1
  <2>. QED
    BY <2>2, <2>3
<1>16. Equation(walked)
  <2>. HIDE DEF Equation
  <2>. QED
    BY <1>15, Zenon
<1>. HIDE DEF walked
<1>17. \A g \in 1 .. n : walked[g] = Segment(g, walked)
  BY <1>16
<1>. DEFINE R == {k \in Nat : k \in 0 .. n => \A g \in 1 .. n : g > n - k => walked[g] \in Seq(T)}
<1>18. 0 \in R
  OBVIOUS
<1>19. ASSUME NEW k \in 0 .. n - 1, k \in R PROVE k + 1 \in R
  <2>1. k \in 0 .. n /\ k + 1 \in 0 .. n /\ k + 1 \in Nat
    OBVIOUS
  <2>2. \A g \in 1 .. n : g > n - k => walked[g] \in Seq(T)
    BY <1>19, <2>1
  <2>3. ASSUME NEW g \in 1 .. n, g > n - (k + 1) PROVE walked[g] \in Seq(T)
    <3>1. \A c \in 1 .. n : c > g => walked[c] \in Seq(T)
      BY <2>2, <2>3
    <3>2. Segment(g, walked) \in Seq(T)
      BY <1>4, <3>1
    <3>. QED
      BY <1>17, <3>2
  <2>. QED
    BY <2>1, <2>3
<1>. HIDE DEF R
<1>20. 0 .. n \subseteq R
  BY <1>18, <1>19, Climbs
<1>21. \A g \in 1 .. n : walked[g] \in Seq(T)
  <2>1. n \in 0 .. n /\ \A g \in 1 .. n : g > n - n
    OBVIOUS
  <2>. QED
    BY <1>20, <2>1 DEF R
<1>. QED
  BY <1>1, <1>3, <1>17, <1>21 DEF T, Segment

(***************************************************************************)
(* The matrix and the nodes of a program are lists, so what is said of the *)
(* graphs of all lists holds of the graphs of all programs.                *)
(***************************************************************************)
LEMMA MatrixIsAList == ASSUME NEW segs, IsProgram(segs) PROVE BuildMatrix(segs) \in Seq(RowsIn(segs))
<1>. DEFINE T       == RowsIn(segs)
            top     == {g \in DOMAIN segs : IsRoot(segs, g)}
            roots   == Ascending(top)
            Under(g) == [j \in DOMAIN Children(segs, g) |-> Walk(segs)[Children(segs, g)[j]]]
            Tree(g) == Rows(segs, g) \o FlattenSeq(Under(g))
            trees   == [j \in DOMAIN roots |-> Tree(roots[j])]
<1>1. BuildMatrix(segs) = FlattenSeq(trees)
  BY Zenon DEF BuildMatrix
<1>2. roots \in Seq(top)
  <2>1. PICK n \in Nat : DOMAIN segs = 1 .. n
    BY DEF IsProgram
  <2>2. top \subseteq 1 .. n
    BY <2>1
  <2>. HIDE DEF top
  <2>. QED
    BY <2>2, AscendingIsASequence
<1>3. top \subseteq DOMAIN segs
  OBVIOUS
<1>4. ASSUME NEW g \in DOMAIN segs PROVE Tree(g) \in Seq(T)
  <2>1. Children(segs, g) \in Seq({c \in DOMAIN segs : c > g})
    BY ChildrenAreBelow
  <2>2. \A c \in DOMAIN segs : Walk(segs)[c] \in Seq(T)
    BY WalkIsTyped
  <2>. HIDE DEF T
  <2>3. Under(g) \in Seq(Seq(T))
    BY <2>1, <2>2
  <2>. HIDE DEF Under
  <2>4. FlattenSeq(Under(g)) \in Seq(T)
    BY <2>3, FlatIsASequence
  <2>5. Rows(segs, g) \in Seq(T)
    BY RowsAreSequences DEF T
  <2>. DEFINE own == Rows(segs, g)
              sub == FlattenSeq(Under(g))
  <2>. HIDE DEF own, sub
  <2>6. own \o sub \in Seq(T)
    BY <2>4, <2>5 DEF own, sub
  <2>. QED
    BY <2>6 DEF own, sub
<1>. HIDE DEF T, top, roots, Tree
<1>5. trees \in Seq(Seq(T))
  <2>1. PICK m \in Nat : DOMAIN roots = 1 .. m /\ \A j \in 1 .. m : roots[j] \in top
    BY <1>2
  <2>2. \A j \in 1 .. m : Tree(roots[j]) \in Seq(T)
    BY <1>3, <1>4, <2>1
  <2>3. trees \in [1 .. m -> Seq(T)]
    BY <2>1, <2>2
  <2>. HIDE DEF trees
  <2>. QED
    BY <2>3
<1>. HIDE DEF trees
<1>6. FlattenSeq(trees) \in Seq(T)
  BY <1>5, FlatIsASequence
<1>. QED
  BY <1>1, <1>6 DEF T

NodesIn(segs, T) == T \cup {EntryNode(segs, g) : g \in DOMAIN segs}

NodeParts(segs, rows) == [i \in 1 .. Len(rows) + 1 |-> EntriesAt(segs, rows, i) \o RowAt(rows, i)]

LEMMA PartsAreLists ==
    ASSUME NEW segs, IsProgram(segs), NEW T, NEW rows \in Seq(T)
    PROVE  /\ \A i : EntriesAt(segs, rows, i) \in Seq(NodesIn(segs, T)) /\ RowAt(rows, i) \in Seq(NodesIn(segs, T))
           /\ NodeParts(segs, rows) \in Seq(Seq(NodesIn(segs, T)))
           /\ BuildNodes(segs, rows) = FlattenSeq(NodeParts(segs, rows))
<1>. DEFINE N     == NodesIn(segs, T)
            parts == NodeParts(segs, rows)
<1>1. BuildNodes(segs, rows) = FlattenSeq(parts)
  BY Zenon DEF BuildNodes, NodeParts
<1>2. \A g \in DOMAIN segs : EntryNode(segs, g) \in N
  BY DEF NodesIn
<1>3. T \subseteq N
  BY DEF NodesIn
<1>. HIDE DEF N
<1>4. \A i : EntriesAt(segs, rows, i) \in Seq(N)
  <2>. SUFFICES ASSUME NEW i PROVE EntriesAt(segs, rows, i) \in Seq(N)
    OBVIOUS
  <2>. DEFINE S    == {g \in DOMAIN segs : HasEntry(segs, g) /\ FirstRow(rows, g) = i}
              up   == Ascending(S)
              here == Reverse(up)
  <2>1. EntriesAt(segs, rows, i) = [j \in DOMAIN here |-> EntryNode(segs, here[j])]
    BY Zenon DEF EntriesAt
  <2>2. S \subseteq DOMAIN segs
    OBVIOUS
  <2>3. PICK n \in Nat : DOMAIN segs = 1 .. n
    BY DEF IsProgram
  <2>. HIDE DEF S
  <2>4. up \in Seq(S)
    <3>1. S \subseteq 1 .. n
      BY <2>2, <2>3
    <3>. QED
      BY <3>1, AscendingIsASequence
  <2>. HIDE DEF up
  <2>5. PICK m \in Nat : m = Len(up) /\ \A j \in 1 .. m : up[j] \in S
    BY <2>4
  <2>6. here = [j \in 1 .. m |-> up[(m - j) + 1]]
    BY <2>5 DEF Reverse
  <2>7. \A j \in 1 .. m : here[j] \in S
    <3>1. \A j \in 1 .. m : (m - j) + 1 \in 1 .. m
      OBVIOUS
    <3>. QED
      BY <2>5, <2>6, <3>1
  <2>8. DOMAIN here = 1 .. m
    BY <2>6
  <2>. HIDE DEF here
  <2>9. [j \in 1 .. m |-> EntryNode(segs, here[j])] \in Seq(N)
    BY <1>2, <2>2, <2>7
  <2>. QED
    BY <2>1, <2>8, <2>9
<1>5. \A i : RowAt(rows, i) \in Seq(N)
  <2>. SUFFICES ASSUME NEW i PROVE RowAt(rows, i) \in Seq(N)
    OBVIOUS
  <2>1. CASE i \in DOMAIN rows
    <3>1. rows[i] \in N
      BY <1>3, <2>1
    <3>. QED
      BY <2>1, <3>1 DEF RowAt
  <2>2. CASE i \notin DOMAIN rows
    BY <2>2 DEF RowAt
  <2>. QED
    BY <2>1, <2>2
<1>6. parts \in Seq(Seq(N))
  <2>1. \A i : EntriesAt(segs, rows, i) \o RowAt(rows, i) \in Seq(N)
    <3>. SUFFICES ASSUME NEW i PROVE EntriesAt(segs, rows, i) \o RowAt(rows, i) \in Seq(N)
      OBVIOUS
    <3>. DEFINE p == EntriesAt(segs, rows, i)
                q == RowAt(rows, i)
    <3>1. p \in Seq(N) /\ q \in Seq(N)
      BY <1>4, <1>5
    <3>. HIDE DEF p, q
    <3>2. p \o q \in Seq(N)
      BY <3>1
    <3>. QED
      BY <3>2 DEF p, q
  <2>. DEFINE Part(i) == EntriesAt(segs, rows, i) \o RowAt(rows, i)
  <2>2. \A i : Part(i) \in Seq(N)
    BY <2>1
  <2>. HIDE DEF Part
  <2>3. PICK m \in Nat : m = Len(rows) + 1
    OBVIOUS
  <2>4. [i \in 1 .. m |-> Part(i)] \in Seq(Seq(N))
    BY <2>2
  <2>5. [i \in 1 .. Len(rows) + 1 |-> Part(i)] \in Seq(Seq(N))
    BY <2>3, <2>4
  <2>. QED
    BY <2>5 DEF Part, NodeParts
<1>. QED
  BY <1>1, <1>4, <1>5, <1>6 DEF N

LEMMA NodesAreAList ==
    ASSUME NEW segs, IsProgram(segs), NEW T, NEW rows \in Seq(T)
    PROVE  IsList(BuildNodes(segs, rows)) /\ BuildNodes(segs, rows) \in Seq(NodesIn(segs, T))
<1>. DEFINE N     == NodesIn(segs, T)
            nodes == BuildNodes(segs, rows)
<1>1. NodeParts(segs, rows) \in Seq(Seq(N)) /\ BuildNodes(segs, rows) = FlattenSeq(NodeParts(segs, rows))
  BY PartsAreLists
<1>2. FlattenSeq(NodeParts(segs, rows)) \in Seq(N)
  BY <1>1, FlatIsASequence
<1>. HIDE DEF nodes, N
<1>3. nodes \in Seq(N)
  BY <1>1, <1>2 DEF nodes
<1>4. Len(nodes) \in Nat /\ DOMAIN nodes = 1 .. Len(nodes)
  BY <1>3
<1>. QED
  BY <1>3, <1>4 DEF IsList, nodes, N

(***************************************************************************)
(* A phi stands behind the writes it joins: the rows of an arm are in the  *)
(* list before the phis of its group, and the entry nodes that are put     *)
(* between the rows do not change that.                                    *)
(***************************************************************************)
HasWrite(S, scope, x) == \E r \in S : r.seg # None /\ r.scope = scope /\ x \in r.writes

Sourced(S, row) == IsBranchPhi(row) => \A scope \in row.reads, x \in row.writes : HasWrite(S, scope, x)

InFront(s, i) == {s[j] : j \in 1 .. i - 1}

AllSourced(s) == \A i \in DOMAIN s : Sourced(InFront(s, i), s[i])

LEMMA MoreSources == ASSUME NEW S, NEW U, S \subseteq U, NEW row, Sourced(S, row) PROVE Sourced(U, row)
BY DEF Sourced, HasWrite

LEMMA JoinedRange == ASSUME NEW T, NEW a \in Seq(T), NEW b \in Seq(T) PROVE Range(a \o b) = Range(a) \cup Range(b)
<1>1. PICK n \in Nat : n = Len(a) /\ DOMAIN a = 1 .. n
  OBVIOUS
<1>2. PICK k \in Nat : k = Len(b) /\ DOMAIN b = 1 .. k
  OBVIOUS
<1>. DEFINE s == a \o b
<1>3. DOMAIN s = 1 .. n + k /\ (\A i \in 1 .. n : s[i] = a[i]) /\ \A i \in n + 1 .. n + k : s[i] = b[i - n]
  BY <1>1, <1>2
<1>. HIDE DEF s
<1>4. \A i \in 1 .. n + k : i \in 1 .. n \/ (i \in n + 1 .. n + k /\ i - n \in 1 .. k)
  OBVIOUS
<1>5. \A i \in 1 .. k : i + n \in n + 1 .. n + k /\ (i + n) - n = i /\ i + n \in 1 .. n + k
  OBVIOUS
<1>6. Range(s) = Range(a) \cup Range(b)
  <2>1. \A i \in 1 .. n + k : s[i] \in Range(a) \cup Range(b)
    BY <1>1, <1>2, <1>3, <1>4 DEF Range
  <2>2. \A i \in 1 .. n : a[i] \in Range(s)
    <3>1. \A i \in 1 .. n : i \in 1 .. n + k
      OBVIOUS
    <3>. QED
      BY <1>3, <3>1 DEF Range
  <2>3. \A i \in 1 .. k : b[i] \in Range(s)
    <3>1. \A i \in 1 .. k : s[i + n] = b[i]
      BY <1>3, <1>5
    <3>. QED
      BY <1>3, <1>5, <3>1 DEF Range
  <2>. QED
    BY <1>1, <1>2, <1>3, <2>1, <2>2, <2>3 DEF Range
<1>. QED
  BY <1>6 DEF s

LEMMA SourcedTogether ==
    ASSUME NEW T, NEW a \in Seq(T), NEW b \in Seq(T), AllSourced(a),
           \A i \in DOMAIN b : Sourced(InFront(b, i), b[i]) \/ Sourced(Range(a), b[i])
    PROVE  /\ AllSourced(a \o b)
           /\ Range(a \o b) = Range(a) \cup Range(b)
<1>1. PICK n \in Nat : n = Len(a) /\ DOMAIN a = 1 .. n
  OBVIOUS
<1>2. PICK k \in Nat : k = Len(b) /\ DOMAIN b = 1 .. k
  OBVIOUS
<1>. DEFINE s == a \o b
<1>3. DOMAIN s = 1 .. n + k /\ (\A i \in 1 .. n : s[i] = a[i]) /\ \A i \in n + 1 .. n + k : s[i] = b[i - n]
  BY <1>1, <1>2
<1>. HIDE DEF s
<1>4. \A i \in 1 .. n + k : i \in 1 .. n \/ (i \in n + 1 .. n + k /\ i - n \in 1 .. k)
  OBVIOUS
<1>5. \A i \in 1 .. k : i + n \in n + 1 .. n + k /\ (i + n) - n = i /\ i + n \in 1 .. n + k
  OBVIOUS
<1>6. Range(a \o b) = Range(a) \cup Range(b)
  BY JoinedRange
<1>7. ASSUME NEW i \in 1 .. n + k PROVE Sourced(InFront(s, i), s[i])
  <2>1. CASE i \in 1 .. n
    <3>1. InFront(s, i) = InFront(a, i)
      <4>1. \A j \in 1 .. i - 1 : j \in 1 .. n
        BY <2>1
      <4>2. \A j \in 1 .. i - 1 : s[j] = a[j]
        BY <1>3, <4>1
      <4>. QED
        BY <4>2 DEF InFront
    <3>2. s[i] = a[i] /\ Sourced(InFront(a, i), a[i])
      BY <1>1, <1>3, <2>1 DEF AllSourced
    <3>. QED
      BY <3>1, <3>2
  <2>2. CASE i \in n + 1 .. n + k
    <3>1. i - n \in 1 .. k /\ s[i] = b[i - n]
      BY <1>3, <2>2
    <3>2. Range(a) \subseteq InFront(s, i)
      <4>1. \A j \in 1 .. n : j \in 1 .. i - 1 /\ s[j] = a[j]
        BY <1>3, <2>2
      <4>. QED
        BY <1>1, <4>1 DEF Range, InFront
    <3>3. InFront(b, i - n) \subseteq InFront(s, i)
      <4>1. \A j \in 1 .. (i - n) - 1 : j + n \in 1 .. i - 1 /\ j \in 1 .. k
        BY <2>2
      <4>2. \A j \in 1 .. (i - n) - 1 : s[j + n] = b[j]
        BY <1>3, <1>5, <4>1
      <4>. QED
        BY <4>1, <4>2 DEF InFront
    <3>4. Sourced(InFront(b, i - n), b[i - n]) \/ Sourced(Range(a), b[i - n])
      BY <1>2, <3>1
    <3>. QED
      BY <3>1, <3>2, <3>3, <3>4, MoreSources
  <2>. QED
    BY <1>4, <2>1, <2>2
<1>8. AllSourced(s)
  BY <1>3, <1>7 DEF AllSourced
<1>. QED
  BY <1>6, <1>8 DEF s

\* Lists that are sourced by themselves, or have no phi.
LEMMA BothSourced ==
    ASSUME NEW T, NEW a \in Seq(T), NEW b \in Seq(T), AllSourced(a), AllSourced(b)
    PROVE  AllSourced(a \o b) /\ Range(a \o b) = Range(a) \cup Range(b)
<1>1. \A i \in DOMAIN b : Sourced(InFront(b, i), b[i])
  BY DEF AllSourced
<1>. QED
  BY <1>1, SourcedTogether

LEMMA NoPhiNoSource == ASSUME NEW s, \A i \in DOMAIN s : ~IsBranchPhi(s[i]) PROVE AllSourced(s)
BY DEF AllSourced, Sourced

LEMMA FlatIsSourced ==
    ASSUME NEW T, NEW ss \in Seq(Seq(T)), \A i \in 1 .. Len(ss) : AllSourced(ss[i])
    PROVE  AllSourced(FlattenSeq(ss))
<1>1. CASE ss = <<>>
  <2>1. FlattenSeq(ss) = <<>>
    BY <1>1 DEF FlattenSeq
  <2>. QED
    BY <2>1, NoPhiNoSource
<1>2. CASE ss # <<>>
  <2>0. Len(ss) \in Nat /\ Len(ss) # 0
    <3>. DEFINE Q == Seq(T)
    <3>1. ss \in Seq(Q)
      OBVIOUS
    <3>. HIDE DEF Q
    <3>. QED
      BY <1>2, <3>1
  <2>1. ASSUME NEW l \in Nat, l # 0 PROVE \E n \in Nat : l = n + 1
    <3>1. l - 1 \in Nat /\ l = (l - 1) + 1
      BY <2>1
    <3>. QED
      BY <3>1
  <2>2. PICK n \in Nat : Len(ss) = n + 1
    BY <2>0, <2>1
  <2>3. PICK f : Accumulates(f, T, ss) /\ FlattenSeq(ss) = f[n + 1]
    BY <1>2, <2>2, Flattened
  <2>4. \A i \in 1 .. n + 1 : /\ f[i] \in Seq(T) /\ ss[i] \in Seq(T)
                               /\ f[i] = IF i = 1 THEN ss[i] ELSE f[i - 1] \o ss[i]
    BY <2>2, <2>3 DEF Accumulates
  <2>. DEFINE S == {k \in Nat : k + 1 \in 1 .. n + 1 => AllSourced(f[k + 1])}
  <2>5. 0 \in S
    <3>1. 0 + 1 = 1 /\ 1 \in 1 .. n + 1
      OBVIOUS
    <3>2. f[1] = ss[1] /\ AllSourced(ss[1])
      BY <2>2, <2>4, <3>1
    <3>. QED
      BY <3>1, <3>2
  <2>6. ASSUME NEW k \in 0 .. n - 1, k \in S PROVE k + 1 \in S
    <3>1. k + 1 \in 1 .. n + 1 /\ (k + 1) + 1 \in 1 .. n + 1 /\ ((k + 1) + 1) - 1 = k + 1 /\ (k + 1) + 1 # 1 /\ k + 1 \in Nat
      OBVIOUS
    <3>2. f[(k + 1) + 1] = f[k + 1] \o ss[(k + 1) + 1]
      BY <2>4, <3>1
    <3>3. AllSourced(f[k + 1]) /\ AllSourced(ss[(k + 1) + 1]) /\ f[k + 1] \in Seq(T) /\ ss[(k + 1) + 1] \in Seq(T)
      BY <2>2, <2>4, <2>6, <3>1
    <3>4. AllSourced(f[k + 1] \o ss[(k + 1) + 1])
      BY <3>3, BothSourced
    <3>5. AllSourced(f[(k + 1) + 1])
      BY <3>2, <3>4
    <3>. QED
      BY <3>1, <3>5
  <2>7. 0 .. n \subseteq S
    <3>. HIDE DEF S
    <3>. QED
      BY <2>5, <2>6, Climbs
  <2>8. n \in 0 .. n /\ n + 1 \in 1 .. n + 1
    OBVIOUS
  <2>. QED
    BY <2>3, <2>7, <2>8
<1>. QED
  BY <1>1, <1>2

(***************************************************************************)
(* The walk is sourced: what Rows(segs, c) has is in the walk of c, so it  *)
(* is in the list when the phis of the group of c come.                    *)
(***************************************************************************)
OwnRowsOf(segs, c) == Range(Rows(segs, c))

LEMMA OwnRowsAre ==
    ASSUME NEW segs, IsProgram(segs), NEW g \in DOMAIN segs
    PROVE  /\ DOMAIN Rows(segs, g) = 1 .. Len(segs[g].stmts)
           /\ \A i \in 1 .. Len(segs[g].stmts) : /\ Rows(segs, g)[i] = StmtToRow(segs, g, segs[g].stmts[i])
                                                 /\ StmtToRow(segs, g, segs[g].stmts[i]) \in OwnRowsOf(segs, g)
           /\ \A row \in OwnRowsOf(segs, g) : \E i \in 1 .. Len(segs[g].stmts) : row = StmtToRow(segs, g, segs[g].stmts[i])
<1>1. DOMAIN segs[g].stmts = 1 .. Len(segs[g].stmts)
  <2>1. segs[g]["stmts"] \in Seq(Range(segs[g]["stmts"]))
    BY DEF IsProgram
  <2>. QED
    BY <2>1
<1>2. Rows(segs, g) = [k \in 1 .. Len(segs[g].stmts) |-> StmtToRow(segs, g, segs[g].stmts[k])]
  BY <1>1 DEF Rows
<1>3. DOMAIN Rows(segs, g) = 1 .. Len(segs[g].stmts)
      /\ \A i \in 1 .. Len(segs[g].stmts) : Rows(segs, g)[i] = StmtToRow(segs, g, segs[g].stmts[i])
  BY <1>2
<1>. QED
  BY <1>3 DEF OwnRowsOf, Range

LEMMA StatementsWrite ==
    ASSUME NEW segs, IsProgram(segs), NEW g \in DOMAIN segs, NEW row \in OwnRowsOf(segs, g)
    PROVE  row.seg # None /\ row.scope = segs[g].scope /\ row.decls \subseteq row.writes /\ ~IsBranchPhi(row)
<1>1. PICK i \in 1 .. Len(segs[g].stmts) : row = StmtToRow(segs, g, segs[g].stmts[i])
  BY OwnRowsAre
<1>2. row.seg = g /\ row.scope = segs[g].scope /\ row.note = "" /\ row.decls \subseteq row.writes
  BY <1>1 DEF StmtToRow, StmtRow, RowOf, Row
<1>3. g # None
  <2>1. PICK n \in Nat : DOMAIN segs = 1 .. n
    BY DEF IsProgram
  <2>. QED
    BY <2>1 DEF None
<1>. QED
  BY <1>2, <1>3 DEF IsBranchPhi

LEMMA PhisAreSourced ==
    ASSUME NEW segs, IsProgram(segs), NEW group \in Seq(DOMAIN segs), NEW S,
           \A c \in Range(group) : OwnRowsOf(segs, c) \subseteq S,
           NEW row \in Range(BranchPhis(segs, group))
    PROVE  Sourced(S, row)
<1>1. PICK x : row.writes = {x} /\ row.reads = ArmsWriting(segs, group, x)
  BY PhisAreLists
<1>2. ASSUME NEW scope \in row.reads PROVE HasWrite(S, scope, x)
  <2>1. PICK c \in Range(group) : x \in RowWrites(Rows(segs, c)) /\ scope = segs[c].scope
    BY <1>1, <1>2 DEF ArmsWriting
  <2>2. c \in DOMAIN segs
    <3>1. Range(group) \subseteq DOMAIN segs
      <4>1. PICK n \in Nat : DOMAIN group = 1 .. n /\ group \in [1 .. n -> DOMAIN segs]
        OBVIOUS
      <4>. QED
        BY <4>1 DEF Range
    <3>. QED
      BY <3>1
  <2>3. PICK i \in DOMAIN Rows(segs, c) : x \in Rows(segs, c)[i].writes \cup Rows(segs, c)[i].decls
    BY <2>1 DEF RowWrites
  <2>. DEFINE r == Rows(segs, c)[i]
  <2>4. r \in OwnRowsOf(segs, c)
    BY DEF OwnRowsOf, Range
  <2>. HIDE DEF r
  <2>5. x \in r.writes \cup r.decls
    BY <2>3 DEF r
  <2>6. r.seg # None /\ r.scope = segs[c].scope /\ r.decls \subseteq r.writes
    BY <2>2, <2>4, StatementsWrite
  <2>. QED
    BY <2>1, <2>4, <2>5, <2>6 DEF HasWrite
<1>. QED
  BY <1>1, <1>2 DEF Sourced

\* The walk of a segment that is done.
Grown(segs, c, walked) == AllSourced(walked[c]) /\ OwnRowsOf(segs, c) \subseteq Range(walked[c])

\* The walk of its first i statements.
Growing(segs, g, done, i) ==
    /\ AllSourced(done.rows)
    /\ \A c \in Range(done.group) : OwnRowsOf(segs, c) \subseteq Range(done.rows)
    /\ \A k \in 1 .. i : StmtToRow(segs, g, segs[g].stmts[k]) \in Range(done.rows)

LEMMA SourcedPhis ==
    ASSUME NEW segs, IsProgram(segs), NEW group \in Seq(DOMAIN segs), NEW rows \in Seq(RowsIn(segs)), AllSourced(rows),
           \A c \in Range(group) : OwnRowsOf(segs, c) \subseteq Range(rows)
    PROVE  /\ rows \o BranchPhis(segs, group) \in Seq(RowsIn(segs))
           /\ AllSourced(rows \o BranchPhis(segs, group))
           /\ Range(rows \o BranchPhis(segs, group)) = Range(rows) \cup Range(BranchPhis(segs, group))
<1>. DEFINE T    == RowsIn(segs)
            phis == BranchPhis(segs, group)
<1>1. phis \in Seq(T)
  BY RowsAreSequences
<1>2. \A i \in DOMAIN phis : Sourced(Range(rows), phis[i])
  <2>1. \A i \in DOMAIN phis : phis[i] \in Range(phis)
    BY DEF Range
  <2>. QED
    BY <2>1, PhisAreSourced
<1>. HIDE DEF T, phis
<1>3. rows \in Seq(T)
  BY DEF T
<1>4. AllSourced(rows \o phis) /\ Range(rows \o phis) = Range(rows) \cup Range(phis)
  BY <1>1, <1>2, <1>3, SourcedTogether
<1>5. rows \o phis \in Seq(T)
  BY <1>1, <1>3
<1>. QED
  BY <1>4, <1>5 DEF T, phis

LEMMA GrowingStatement ==
    ASSUME NEW segs, IsProgram(segs), NEW g \in DOMAIN segs, NEW walked, WalkedBelow(segs, g, walked),
           \A c \in Below(segs, g) : Grown(segs, c, walked),
           NEW done \in Done(segs, g), NEW i \in 1 .. Len(segs[g].stmts), Growing(segs, g, done, i - 1)
    PROVE  Growing(segs, g, WalkStmt(segs, g, walked, done, i), i)
<1>. DEFINE st    == segs[g].stmts[i]
            own   == StmtToRow(segs, g, st)
            row   == <<own>>
            kids  == Children(segs, g)
            child == kids[done.kids + 1]
            phis  == BranchPhis(segs, done.group)
            T     == RowsIn(segs)
            next  == WalkStmt(segs, g, walked, done, i)
            Has(group, rows) == \A c \in Range(group) : OwnRowsOf(segs, c) \subseteq Range(rows)
<1>1. done.rows \in Seq(T) /\ done.kids \in 0 .. Len(kids) /\ done.group \in Seq(DOMAIN segs)
  BY DEF Done
<1>2. AllSourced(done.rows) /\ Has(done.group, done.rows)
  BY DEF Growing
<1>3. row \in Seq(T) /\ AllSourced(row) /\ own \in Range(row)
  <2>1. own \in T
    BY RowsAreSequences
  <2>2. ~IsBranchPhi(own)
    BY OwnRowsAre, StatementsWrite
  <2>. HIDE DEF own
  <2>3. \A k \in DOMAIN row : ~IsBranchPhi(row[k])
    BY <2>2
  <2>4. AllSourced(row)
    BY <2>3, NoPhiNoSource
  <2>5. own \in Range(row)
    <3>1. 1 \in DOMAIN row /\ row[1] = own
      OBVIOUS
    <3>. QED
      BY <3>1 DEF Range
  <2>. QED
    BY <2>1, <2>4, <2>5
<1>4. ASSUME NEW rows \in Seq(T), AllSourced(rows), Has(done.group, rows)
      PROVE  rows \o phis \in Seq(T) /\ AllSourced(rows \o phis) /\ Range(rows) \subseteq Range(rows \o phis)
  BY <1>1, <1>4, SourcedPhis
<1>5. ASSUME done.kids # Len(kids)
      PROVE  walked[child] \in Seq(T) /\ AllSourced(walked[child]) /\ OwnRowsOf(segs, child) \subseteq Range(walked[child])
  <2>1. done.kids + 1 \in 1 .. Len(kids)
    BY <1>1, <1>5, BelowAreSegments
  <2>2. child \in Below(segs, g)
    BY <2>1, BelowAreSegments
  <2>. QED
    BY <2>2 DEF WalkedBelow, Grown
<1>6. next =
         IF st.kind \notin {"branch", "loop_head"}
         THEN [rows |-> done.rows \o phis \o row, kids |-> done.kids, group |-> <<>>]
         ELSE IF done.kids = Len(kids)
         THEN [rows |-> done.rows \o row, kids |-> done.kids, group |-> done.group]
         ELSE IF segs[child].type = "branch"
         THEN [rows |-> done.rows \o row \o walked[child], kids |-> done.kids + 1, group |-> Append(done.group, child)]
         ELSE [rows |-> done.rows \o row \o phis \o walked[child], kids |-> done.kids + 1, group |-> <<>>]
  BY Zenon DEF WalkStmt
<1>7. \A k \in 1 .. i : k = i \/ k \in 1 .. i - 1
  <2>1. Len(segs[g].stmts) \in Nat
    BY RowsAreSequences
  <2>. QED
    BY <2>1
<1>8. ASSUME AllSourced(next.rows), Range(done.rows) \subseteq Range(next.rows), own \in Range(next.rows), Has(next.group, next.rows)
      PROVE  Growing(segs, g, next, i)
  <2>1. \A k \in 1 .. i - 1 : StmtToRow(segs, g, segs[g].stmts[k]) \in Range(done.rows)
    BY DEF Growing
  <2>2. \A k \in 1 .. i : StmtToRow(segs, g, segs[g].stmts[k]) \in Range(next.rows)
    BY <1>7, <1>8, <2>1
  <2>. HIDE DEF next
  <2>. QED
    BY <1>8, <2>2 DEF Growing
<1>. SUFFICES Growing(segs, g, next, i)
  OBVIOUS
<1>. HIDE DEF st, own, row, kids, child, phis, T, next
<1>9. ASSUME NEW a \in Seq(T), NEW b \in Seq(T), AllSourced(a), AllSourced(b)
      PROVE  a \o b \in Seq(T) /\ AllSourced(a \o b) /\ Range(a \o b) = Range(a) \cup Range(b)
  <2>1. AllSourced(a \o b) /\ Range(a \o b) = Range(a) \cup Range(b)
    BY <1>9, BothSourced
  <2>2. a \o b \in Seq(T)
    OBVIOUS
  <2>. QED
    BY <2>1, <2>2
<1>10. \A rows : Has(<<>>, rows)
  BY DEF Range
<1>11. CASE st.kind \notin {"branch", "loop_head"}
  <2>. DEFINE a == done.rows \o phis
  <2>1. a \in Seq(T) /\ AllSourced(a) /\ Range(done.rows) \subseteq Range(a)
    BY <1>1, <1>2, <1>4
  <2>2. next.rows = a \o row /\ next.group = <<>>
    BY <1>6, <1>11
  <2>. HIDE DEF a
  <2>3. AllSourced(a \o row) /\ Range(a \o row) = Range(a) \cup Range(row)
    BY <1>3, <1>9, <2>1
  <2>. HIDE DEF Has
  <2>. QED
    BY <1>3, <1>8, <1>10, <2>1, <2>2, <2>3
<1>. DEFINE b == done.rows \o row
<1>12. b \in Seq(T) /\ AllSourced(b) /\ Range(b) = Range(done.rows) \cup Range(row)
  BY <1>1, <1>2, <1>3, <1>9
<1>13. Has(done.group, b)
  <2>. HIDE DEF b
  <2>. QED
    BY <1>2, <1>12
<1>14. CASE st.kind \in {"branch", "loop_head"} /\ done.kids = Len(kids)
  <2>1. next.rows = b /\ next.group = done.group
    BY <1>6, <1>14
  <2>. HIDE DEF b, Has
  <2>. QED
    BY <1>3, <1>8, <1>12, <1>13, <2>1
<1>15. CASE st.kind \in {"branch", "loop_head"} /\ done.kids # Len(kids) /\ segs[child].type = "branch"
  <2>1. next.rows = b \o walked[child] /\ next.group = Append(done.group, child)
    BY <1>6, <1>15
  <2>. HIDE DEF b
  <2>. DEFINE w == walked[child]
  <2>2. w \in Seq(T) /\ AllSourced(w) /\ OwnRowsOf(segs, child) \subseteq Range(w)
    BY <1>5, <1>15
  <2>. HIDE DEF w
  <2>3. AllSourced(b \o w) /\ Range(b \o w) = Range(b) \cup Range(w)
    BY <1>9, <1>12, <2>2
  <2>4. \A c \in Range(Append(done.group, child)) : c = child \/ c \in Range(done.group)
    BY <1>1 DEF Range
  <2>5. next.rows = b \o w
    BY <2>1 DEF w
  <2>. DEFINE bw == b \o w
  <2>6. next.rows = bw /\ AllSourced(bw) /\ Range(bw) = Range(b) \cup Range(w)
    BY <2>3, <2>5
  <2>. HIDE DEF bw
  <2>7. Has(next.group, bw)
    BY <1>13, <2>1, <2>2, <2>4, <2>6
  <2>. HIDE DEF Has
  <2>. QED
    BY <1>3, <1>8, <1>12, <2>6, <2>7
<1>16. CASE st.kind \in {"branch", "loop_head"} /\ done.kids # Len(kids) /\ segs[child].type # "branch"
  <2>1. next.rows = b \o phis \o walked[child] /\ next.group = <<>>
    BY <1>6, <1>16
  <2>. HIDE DEF b, Has
  <2>2. b \o phis \in Seq(T) /\ AllSourced(b \o phis) /\ Range(b) \subseteq Range(b \o phis)
    BY <1>4, <1>12, <1>13
  <2>. DEFINE w == walked[child]
              a == b \o phis
  <2>3. w \in Seq(T) /\ AllSourced(w)
    BY <1>5, <1>16
  <2>4. next.rows = a \o w /\ a \in Seq(T) /\ AllSourced(a) /\ Range(b) \subseteq Range(a)
    BY <2>1, <2>2
  <2>. HIDE DEF w, a
  <2>5. AllSourced(a \o w) /\ Range(a \o w) = Range(a) \cup Range(w)
    BY <1>9, <2>3, <2>4
  <2>. QED
    BY <1>3, <1>8, <1>10, <1>12, <2>1, <2>4, <2>5
<1>. HIDE DEF b, Has
<1>. QED
  BY <1>11, <1>14, <1>15, <1>16

LEMMA GrowingStatements ==
    ASSUME NEW segs, IsProgram(segs), NEW g \in DOMAIN segs, NEW walked, WalkedBelow(segs, g, walked),
           \A c \in Below(segs, g) : Grown(segs, c, walked)
    PROVE  Growing(segs, g, WalkStmts(segs, g, walked), Len(segs[g].stmts))
<1>. DEFINE n == Len(segs[g].stmts)
<1>1. n \in Nat
  BY RowsAreSequences
<1>2. PICK f : StatementByStatement(segs, g, walked, f) /\ WalkStmts(segs, g, walked) = f[n]
  BY StatementsStepByStep
<1>3. Growing(segs, g, f[0], 0)
  <2>1. f[0].rows = (IF segs[g].type = "loop" THEN LoopPhis(segs, g) ELSE <<>>) /\ f[0].group = <<>>
    BY <1>2 DEF StatementByStatement, Started
  <2>2. \A i \in DOMAIN LoopPhis(segs, g) : ~IsBranchPhi(LoopPhis(segs, g)[i])
    <3>1. \A i \in DOMAIN LoopPhis(segs, g) : LoopPhis(segs, g)[i] \in Range(LoopPhis(segs, g))
      BY DEF Range
    <3>2. \A r \in Range(LoopPhis(segs, g)) : r.note = "loop_entry"
      BY PhisAreLists
    <3>. QED
      BY <3>1, <3>2 DEF IsBranchPhi
  <2>3. AllSourced(LoopPhis(segs, g))
    BY <2>2, NoPhiNoSource
  <2>4. AllSourced(<<>>)
    BY DEF AllSourced
  <2>5. AllSourced(f[0].rows)
    BY <2>1, <2>3, <2>4
  <2>6. Range(f[0].group) = {}
    BY <2>1 DEF Range
  <2>. QED
    BY <2>5, <2>6 DEF Growing
<1>. DEFINE S == {i \in Nat : i \in 0 .. n => Growing(segs, g, f[i], i)}
<1>4. 0 \in S
  BY <1>3
<1>5. ASSUME NEW i \in 0 .. n - 1, i \in S PROVE i + 1 \in S
  <2>1. i + 1 \in 1 .. n /\ (i + 1) - 1 = i /\ i \in 0 .. n /\ i + 1 \in Nat
    BY <1>1
  <2>2. Growing(segs, g, f[i], (i + 1) - 1)
    BY <1>5, <2>1
  <2>3. f[i] \in Done(segs, g) /\ f[i + 1] = WalkStmt(segs, g, walked, f[i], i + 1)
    BY <1>2, <2>1 DEF StatementByStatement
  <2>4. Growing(segs, g, WalkStmt(segs, g, walked, f[i], i + 1), i + 1)
    BY <2>1, <2>2, <2>3, GrowingStatement
  <2>5. Growing(segs, g, f[i + 1], i + 1)
    BY <2>3, <2>4
  <2>. QED
    BY <2>1, <2>5
<1>. HIDE DEF S, n
<1>6. 0 .. n \subseteq S
  BY <1>1, <1>4, <1>5, Climbs
<1>7. n \in 0 .. n
  BY <1>1
<1>8. Growing(segs, g, f[n], n)
  BY <1>6, <1>7 DEF S
<1>. QED
  BY <1>2, <1>8 DEF n

LEMMA GrownSegment ==
    ASSUME NEW segs, IsProgram(segs), NEW g \in DOMAIN segs, NEW walked, WalkedBelow(segs, g, walked),
           \A c \in Below(segs, g) : Grown(segs, c, walked)
    PROVE  /\ AllSourced(WalkSegment(segs, g, walked))
           /\ OwnRowsOf(segs, g) \subseteq Range(WalkSegment(segs, g, walked))
<1>. DEFINE done == WalkStmts(segs, g, walked)
            kids == Children(segs, g)
            phis == BranchPhis(segs, done.group)
            T    == RowsIn(segs)
            rest == [j \in 1 .. Len(kids) - done.kids |-> walked[kids[done.kids + j]]]
<1>1. done.rows \in Seq(T) /\ done.kids \in 0 .. Len(kids) /\ done.group \in Seq(DOMAIN segs)
  <2>1. done \in Done(segs, g)
    BY WalkedStatements
  <2>. QED
    BY <2>1 DEF Done
<1>2. /\ AllSourced(done.rows)
      /\ \A c \in Range(done.group) : OwnRowsOf(segs, c) \subseteq Range(done.rows)
      /\ OwnRowsOf(segs, g) \subseteq Range(done.rows)
  <2>1. Growing(segs, g, done, Len(segs[g].stmts))
    BY GrowingStatements
  <2>2. \A row \in OwnRowsOf(segs, g) : \E i \in 1 .. Len(segs[g].stmts) : row = StmtToRow(segs, g, segs[g].stmts[i])
    BY OwnRowsAre
  <2>. HIDE DEF done
  <2>. QED
    BY <2>1, <2>2 DEF Growing
<1>3. PICK m \in Nat : m = Len(kids) - done.kids
  BY <1>1, BelowAreSegments
<1>4. \A j \in 1 .. m : kids[done.kids + j] \in Below(segs, g)
  <2>1. \A j \in 1 .. m : done.kids + j \in 1 .. Len(kids)
    BY <1>1, <1>3, BelowAreSegments
  <2>. QED
    BY <2>1, BelowAreSegments
<1>5. WalkSegment(segs, g, walked) = done.rows \o phis \o FlattenSeq(rest)
  BY Zenon DEF WalkSegment
<1>. DEFINE a == done.rows \o phis
            b == FlattenSeq(rest)
<1>6. a \in Seq(T) /\ AllSourced(a) /\ Range(done.rows) \subseteq Range(a)
  <2>. HIDE DEF done
  <2>. QED
    BY <1>1, <1>2, SourcedPhis
<1>. HIDE DEF done, kids, phis, T, a
<1>7. b \in Seq(T) /\ AllSourced(b)
  <2>1. \A j \in 1 .. m : walked[kids[done.kids + j]] \in Seq(T) /\ AllSourced(walked[kids[done.kids + j]])
    BY <1>4 DEF WalkedBelow, Grown, T
  <2>2. rest \in Seq(Seq(T)) /\ DOMAIN rest = 1 .. m /\ Len(rest) = m
    BY <1>3, <2>1
  <2>3. \A j \in 1 .. Len(rest) : AllSourced(rest[j])
    BY <1>3, <2>1, <2>2
  <2>. HIDE DEF rest
  <2>. QED
    BY <2>2, <2>3, FlatIsASequence, FlatIsSourced
<1>. HIDE DEF b
<1>8. AllSourced(a \o b) /\ Range(a \o b) = Range(a) \cup Range(b)
  BY <1>6, <1>7, BothSourced
<1>9. WalkSegment(segs, g, walked) = a \o b
  BY <1>5 DEF a, b
<1>. QED
  BY <1>2, <1>6, <1>8, <1>9

LEMMA WalkIsSourced == ASSUME NEW segs, IsProgram(segs) PROVE \A g \in DOMAIN segs : Grown(segs, g, Walk(segs))
<1>. DEFINE walked == Walk(segs)
<1>1. PICK n \in Nat : DOMAIN segs = 1 .. n
  <2>1. segs \in Seq(Range(segs))
    BY DEF IsProgram
  <2>. QED
    BY <2>1
<1>2. \A g \in 1 .. n : walked[g] \in Seq(RowsIn(segs)) /\ walked[g] = WalkSegment(segs, g, walked)
  BY <1>1, WalkIsTyped
<1>3. \A g \in 1 .. n : Below(segs, g) \subseteq {c \in 1 .. n : c > g}
  BY <1>1, BelowAreSegments
<1>. HIDE DEF walked
<1>. DEFINE S == {k \in Nat : \A g \in 1 .. n : g > n - k => Grown(segs, g, walked)}
<1>4. 0 \in S
  OBVIOUS
<1>5. ASSUME NEW k \in 0 .. n - 1, k \in S PROVE k + 1 \in S
  <2>1. ASSUME NEW g \in 1 .. n, g > n - (k + 1) PROVE Grown(segs, g, walked)
    <3>1. \A c \in 1 .. n : c > g => c > n - k
      BY <2>1
    <3>2. \A c \in Below(segs, g) : Grown(segs, c, walked)
      BY <1>3, <1>5, <3>1
    <3>3. WalkedBelow(segs, g, walked)
      BY <1>2, <1>3 DEF WalkedBelow
    <3>4. /\ AllSourced(WalkSegment(segs, g, walked))
          /\ OwnRowsOf(segs, g) \subseteq Range(WalkSegment(segs, g, walked))
      BY <1>1, <3>2, <3>3, GrownSegment
    <3>. QED
      BY <1>2, <3>4 DEF Grown
  <2>. QED
    BY <2>1
<1>. HIDE DEF S
<1>6. 0 .. n \subseteq S
  BY <1>4, <1>5, Climbs
<1>7. n \in S
  <2>1. n \in 0 .. n
    OBVIOUS
  <2>. QED
    BY <1>6, <2>1
<1>8. \A g \in 1 .. n : Grown(segs, g, walked)
  <2>1. \A g \in 1 .. n : g > n - n
    OBVIOUS
  <2>. QED
    BY <1>7, <2>1 DEF S
<1>. QED
  BY <1>1, <1>8 DEF walked

LEMMA MatrixIsSourced == ASSUME NEW segs, IsProgram(segs) PROVE AllSourced(BuildMatrix(segs))
<1>. DEFINE T       == RowsIn(segs)
            top     == {g \in DOMAIN segs : IsRoot(segs, g)}
            roots   == Ascending(top)
            Under(g) == [j \in DOMAIN Children(segs, g) |-> Walk(segs)[Children(segs, g)[j]]]
            Tree(g) == Rows(segs, g) \o FlattenSeq(Under(g))
            trees   == [j \in DOMAIN roots |-> Tree(roots[j])]
<1>1. BuildMatrix(segs) = FlattenSeq(trees)
  BY Zenon DEF BuildMatrix
<1>2. roots \in Seq(top)
  <2>1. PICK n \in Nat : DOMAIN segs = 1 .. n
    BY DEF IsProgram
  <2>2. top \subseteq 1 .. n
    BY <2>1
  <2>. HIDE DEF top
  <2>. QED
    BY <2>2, AscendingIsASequence
<1>3. top \subseteq DOMAIN segs
  OBVIOUS
<1>4. ASSUME NEW g \in DOMAIN segs PROVE Tree(g) \in Seq(T) /\ AllSourced(Tree(g))
  <2>1. Children(segs, g) \in Seq({c \in DOMAIN segs : c > g})
    BY ChildrenAreBelow
  <2>2. \A c \in DOMAIN segs : Walk(segs)[c] \in Seq(T) /\ AllSourced(Walk(segs)[c])
    BY WalkIsTyped, WalkIsSourced DEF Grown
  <2>. HIDE DEF T
  <2>3. PICK m \in Nat : m = Len(Children(segs, g)) /\ DOMAIN Children(segs, g) = 1 .. m
                         /\ \A j \in 1 .. m : Children(segs, g)[j] \in DOMAIN segs
    BY <2>1
  <2>4. Under(g) \in Seq(Seq(T)) /\ Len(Under(g)) = m /\ \A j \in 1 .. m : AllSourced(Under(g)[j])
    BY <2>2, <2>3
  <2>. HIDE DEF Under
  <2>5. FlattenSeq(Under(g)) \in Seq(T) /\ AllSourced(FlattenSeq(Under(g)))
    BY <2>4, FlatIsASequence, FlatIsSourced
  <2>. DEFINE own == Rows(segs, g)
              sub == FlattenSeq(Under(g))
  <2>6. own \in Seq(T) /\ AllSourced(own)
    <3>1. own \in Seq(T)
      BY RowsAreSequences DEF T
    <3>2. \A i \in DOMAIN own : own[i] \in OwnRowsOf(segs, g)
      BY DEF OwnRowsOf, Range
    <3>3. \A i \in DOMAIN own : ~IsBranchPhi(own[i])
      BY <3>2, StatementsWrite
    <3>. QED
      BY <3>1, <3>3, NoPhiNoSource
  <2>7. sub \in Seq(T) /\ AllSourced(sub)
    BY <2>5
  <2>. HIDE DEF own, sub
  <2>8. own \o sub \in Seq(T)
    BY <2>6, <2>7
  <2>9. AllSourced(own \o sub)
    BY <2>6, <2>7, BothSourced
  <2>. QED
    BY <2>8, <2>9 DEF own, sub
<1>. HIDE DEF T, top, roots, Tree
<1>5. PICK m \in Nat : DOMAIN roots = 1 .. m /\ \A j \in 1 .. m : roots[j] \in top
  BY <1>2
<1>6. \A j \in 1 .. m : Tree(roots[j]) \in Seq(T) /\ AllSourced(Tree(roots[j]))
  BY <1>3, <1>4, <1>5
<1>7. DOMAIN trees = 1 .. m /\ \A j \in 1 .. m : trees[j] = Tree(roots[j])
  BY <1>5
<1>8. trees \in Seq(Seq(T)) /\ Len(trees) = m
  <2>1. trees \in [1 .. m -> Seq(T)]
    BY <1>5, <1>6
  <2>. HIDE DEF trees
  <2>. QED
    BY <2>1
<1>. HIDE DEF trees
<1>9. AllSourced(FlattenSeq(trees))
  BY <1>6, <1>7, <1>8, FlatIsSourced
<1>. QED
  BY <1>1, <1>9

\* What part i adds to the nodes in front of it.
LEMMA PartIsSourced ==
    ASSUME NEW segs, IsProgram(segs), NEW T, NEW rows \in Seq(T), AllSourced(rows), NEW i \in 1 .. Len(rows) + 1,
           NEW front \in Seq(NodesIn(segs, T)), AllSourced(front), InFront(rows, i) \subseteq Range(front)
    PROVE  LET nodes == front \o (EntriesAt(segs, rows, i) \o RowAt(rows, i))
           IN  /\ nodes \in Seq(NodesIn(segs, T))
               /\ AllSourced(nodes)
               /\ i \in DOMAIN rows => InFront(rows, i + 1) \subseteq Range(nodes)
<1>. DEFINE N    == NodesIn(segs, T)
            e    == EntriesAt(segs, rows, i)
            r    == RowAt(rows, i)
            part == e \o r
<1>1. e \in Seq(N) /\ r \in Seq(N)
  BY PartsAreLists
<1>2. \A x \in Range(e) : ~IsBranchPhi(x)
  <2>. DEFINE here == Reverse(Ascending({g \in DOMAIN segs : HasEntry(segs, g) /\ FirstRow(rows, g) = i}))
  <2>1. e = [j \in DOMAIN here |-> EntryNode(segs, here[j])]
    BY Zenon DEF EntriesAt
  <2>2. \A g : EntryNode(segs, g).note = "synthetic"
    BY DEF EntryNode, Row
  <2>. HIDE DEF here, e
  <2>3. \A x \in Range(e) : x.note = "synthetic"
    BY <2>1, <2>2 DEF Range
  <2>. QED
    BY <2>3 DEF IsBranchPhi
<1>3. \A x \in Range(r) : i \in DOMAIN rows /\ x = rows[i]
  BY DEF RowAt, Range
<1>4. i \in DOMAIN rows => rows[i] \in Range(r)
  <2>. SUFFICES ASSUME i \in DOMAIN rows PROVE rows[i] \in Range(r)
    OBVIOUS
  <2>1. r = <<rows[i]>>
    BY DEF RowAt
  <2>2. 1 \in DOMAIN r /\ r[1] = rows[i]
    BY <2>1
  <2>. QED
    BY <2>2 DEF Range
<1>. HIDE DEF N, e, r
<1>5. part \in Seq(N) /\ Range(part) = Range(e) \cup Range(r)
  <2>1. Range(e \o r) = Range(e) \cup Range(r)
    BY <1>1, JoinedRange
  <2>2. e \o r \in Seq(N)
    BY <1>1
  <2>. QED
    BY <2>1, <2>2
<1>. HIDE DEF part
<1>6. \A j \in DOMAIN part : Sourced(Range(front), part[j])
  <2>. SUFFICES ASSUME NEW j \in DOMAIN part PROVE Sourced(Range(front), part[j])
    OBVIOUS
  <2>1. part[j] \in Range(e) \cup Range(r)
    BY <1>5 DEF Range
  <2>2. CASE part[j] \in Range(e)
    BY <1>2, <2>2 DEF Sourced
  <2>3. CASE part[j] \in Range(r)
    <3>1. i \in DOMAIN rows /\ part[j] = rows[i]
      BY <1>3, <2>3
    <3>2. Sourced(InFront(rows, i), rows[i])
      BY <3>1 DEF AllSourced
    <3>. QED
      BY <3>1, <3>2, MoreSources
  <2>. QED
    BY <2>1, <2>2, <2>3
<1>. DEFINE nodes == front \o part
<1>7. front \in Seq(N)
  BY DEF N
<1>8. nodes \in Seq(N)
  BY <1>5, <1>7
<1>9. AllSourced(nodes) /\ Range(nodes) = Range(front) \cup Range(part)
  BY <1>5, <1>6, <1>7, SourcedTogether
<1>. HIDE DEF nodes
<1>10. ASSUME i \in DOMAIN rows PROVE InFront(rows, i + 1) \subseteq Range(nodes)
  <2>1. \A j \in 1 .. (i + 1) - 1 : j = i \/ j \in 1 .. i - 1
    OBVIOUS
  <2>2. \A j \in 1 .. i - 1 : rows[j] \in Range(front)
    BY DEF InFront
  <2>3. rows[i] \in Range(part)
    BY <1>4, <1>5, <1>10
  <2>. QED
    BY <1>9, <2>1, <2>2, <2>3 DEF InFront
<1>. QED
  BY <1>8, <1>9, <1>10 DEF nodes, part, e, r, N

LEMMA NodesAreSourced ==
    ASSUME NEW segs, IsProgram(segs), NEW T, NEW rows \in Seq(T), AllSourced(rows)
    PROVE  AllSourced(BuildNodes(segs, rows))
<1>. DEFINE N     == NodesIn(segs, T)
            parts == NodeParts(segs, rows)
            Part(i) == EntriesAt(segs, rows, i) \o RowAt(rows, i)
<1>1. PICK n \in Nat : Len(rows) = n /\ DOMAIN rows = 1 .. n
  OBVIOUS
<1>2. parts \in Seq(Seq(N)) /\ BuildNodes(segs, rows) = FlattenSeq(parts)
  BY PartsAreLists
<1>3. Len(parts) = n + 1 /\ \A i \in 1 .. n + 1 : parts[i] = Part(i)
  BY <1>1 DEF NodeParts
<1>4. ASSUME NEW i \in 1 .. n + 1, NEW front \in Seq(N), AllSourced(front), InFront(rows, i) \subseteq Range(front)
      PROVE  /\ AllSourced(front \o Part(i))
             /\ i \in 1 .. n => InFront(rows, i + 1) \subseteq Range(front \o Part(i))
  BY <1>1, <1>4, PartIsSourced
<1>5. \A i : Part(i) \in Seq(N)
  <2>. SUFFICES ASSUME NEW i PROVE Part(i) \in Seq(N)
    OBVIOUS
  <2>. DEFINE e == EntriesAt(segs, rows, i)
              r == RowAt(rows, i)
  <2>1. e \in Seq(N) /\ r \in Seq(N)
    BY PartsAreLists
  <2>. HIDE DEF e, r, N
  <2>2. e \o r \in Seq(N)
    BY <2>1
  <2>. QED
    BY <2>2 DEF e, r
<1>. HIDE DEF N, parts, Part
<1>6. parts # <<>>
  BY <1>2, <1>3
<1>7. PICK f : Accumulates(f, N, parts) /\ FlattenSeq(parts) = f[n + 1]
  BY <1>2, <1>3, <1>6, Flattened
<1>8. \A i \in 1 .. n + 1 : f[i] \in Seq(N) /\ f[i] = IF i = 1 THEN Part(1) ELSE f[i - 1] \o Part(i)
  BY <1>3, <1>7 DEF Accumulates
<1>. DEFINE S == {k \in Nat : k + 1 \in 1 .. n + 1 =>
                     /\ AllSourced(f[k + 1])
                     /\ k + 1 \in 1 .. n => InFront(rows, (k + 1) + 1) \subseteq Range(f[k + 1])}
<1>9. 0 \in S
  <2>1. 0 + 1 = 1 /\ 1 \in 1 .. n + 1
    OBVIOUS
  <2>2. <<>> \in Seq(N) /\ AllSourced(<<>>) /\ InFront(rows, 1) \subseteq Range(<<>>)
    BY DEF AllSourced, InFront, Range
  <2>3. <<>> \o Part(1) = Part(1)
    <3>1. Part(1) \in Seq(N)
      BY <1>5
    <3>. DEFINE p == Part(1)
    <3>. HIDE DEF p
    <3>2. p \in Seq(N)
      BY <3>1 DEF p
    <3>3. <<>> \o p = p
      BY <3>2
    <3>. QED
      BY <3>3 DEF p
  <2>4. AllSourced(Part(1)) /\ (1 \in 1 .. n => InFront(rows, 1 + 1) \subseteq Range(Part(1)))
    <3>1. AllSourced(<<>> \o Part(1)) /\ (1 \in 1 .. n => InFront(rows, 1 + 1) \subseteq Range(<<>> \o Part(1)))
      BY <1>4, <2>1, <2>2
    <3>. QED
      BY <2>3, <3>1
  <2>5. f[1] = Part(1)
    BY <1>8, <2>1
  <2>. QED
    BY <2>1, <2>4, <2>5
<1>10. ASSUME NEW k \in 0 .. n - 1, k \in S PROVE k + 1 \in S
  <2>1. k + 1 \in 1 .. n /\ k + 1 \in 1 .. n + 1 /\ (k + 1) + 1 \in 1 .. n + 1 /\ ((k + 1) + 1) - 1 = k + 1 /\ (k + 1) + 1 # 1
        /\ k + 1 \in Nat
    OBVIOUS
  <2>2. AllSourced(f[k + 1]) /\ InFront(rows, (k + 1) + 1) \subseteq Range(f[k + 1]) /\ f[k + 1] \in Seq(N)
    BY <1>8, <1>10, <2>1
  <2>3. f[(k + 1) + 1] = f[k + 1] \o Part((k + 1) + 1)
    BY <1>8, <2>1
  <2>4. /\ AllSourced(f[k + 1] \o Part((k + 1) + 1))
        /\ (k + 1) + 1 \in 1 .. n => InFront(rows, ((k + 1) + 1) + 1) \subseteq Range(f[k + 1] \o Part((k + 1) + 1))
    BY <1>4, <2>1, <2>2
  <2>. QED
    BY <2>1, <2>3, <2>4
<1>. HIDE DEF S
<1>11. 0 .. n \subseteq S
  BY <1>9, <1>10, Climbs
<1>12. n \in 0 .. n /\ n + 1 \in 1 .. n + 1
  OBVIOUS
<1>13. AllSourced(f[n + 1])
  BY <1>11, <1>12 DEF S
<1>. QED
  BY <1>2, <1>7, <1>13

LEMMA GraphOfAProgram ==
    ASSUME NEW segs, IsProgram(segs)
    PROVE  /\ IsList(GraphOf(segs).nodes)
           /\ GraphReadsLatest(GraphOf(segs).nodes, GraphOf(segs).edges)
           /\ GraphJoinsArms(GraphOf(segs).nodes, GraphOf(segs).edges)
<1>. DEFINE rows  == BuildMatrix(segs)
            nodes == BuildNodes(segs, rows)
<1>1. GraphOf(segs).nodes = nodes /\ GraphOf(segs).edges = BuildEdges(nodes)
  <2>1. GraphOf(segs) = [nodes |-> nodes, edges |-> BuildEdges(nodes)]
    BY Zenon DEF GraphOf, WithEdges
  <2>. HIDE DEF nodes
  <2>. QED
    BY <2>1
<1>2. rows \in Seq(RowsIn(segs))
  BY MatrixIsAList
<1>3. AllSourced(rows)
  BY MatrixIsSourced
<1>. HIDE DEF rows
<1>4. IsList(nodes) /\ nodes \in Seq(NodesIn(segs, RowsIn(segs)))
  BY <1>2, NodesAreAList
<1>5. AllSourced(nodes)
  BY <1>2, <1>3, NodesAreSourced
<1>. HIDE DEF nodes
<1>6. GraphReadsLatest(nodes, BuildEdges(nodes))
  BY <1>4, EveryReadHasItsWrite
<1>7. PhisTakeOneSlot(nodes)
  <2>1. ASSUME NEW i \in DOMAIN nodes, IsBranchPhi(nodes[i]) PROVE \E x : nodes[i].writes = {x}
    <3>1. nodes[i] \in RowsIn(segs) \/ \E g \in DOMAIN segs : nodes[i] = EntryNode(segs, g)
      BY <1>4, <2>1 DEF NodesIn
    <3>2. \A g : EntryNode(segs, g).note = "synthetic"
      BY DEF EntryNode, Row
    <3>3. nodes[i] \in RowsIn(segs)
      BY <2>1, <3>1, <3>2 DEF IsBranchPhi
    <3>. QED
      BY <2>1, <3>3, RowsJoinOneSlot
  <2>. QED
    BY <2>1 DEF PhisTakeOneSlot
<1>8. ArmsAreInFront(nodes)
  <2>. SUFFICES ASSUME NEW i \in DOMAIN nodes, IsBranchPhi(nodes[i]), NEW x \in nodes[i].writes, NEW scope \in nodes[i].reads
                PROVE  ArmWrites(nodes, i, scope, x) # {}
    BY DEF ArmsAreInFront
  <2>1. HasWrite(InFront(nodes, i), scope, x)
    BY <1>5 DEF AllSourced, Sourced
  <2>2. PICK j \in 1 .. i - 1 : nodes[j].seg # None /\ nodes[j].scope = scope /\ x \in nodes[j].writes
    BY <2>1 DEF HasWrite, InFront
  <2>. QED
    BY <2>2 DEF ArmWrites, WritesBefore
<1>9. GraphJoinsArms(nodes, BuildEdges(nodes))
  BY <1>4, <1>7, <1>8, EveryArmIsJoined
<1>. QED
  BY <1>1, <1>4, <1>6, <1>9

(***************************************************************************)
(* The graph the command builds of whatever files it could read joins      *)
(* every read to the latest write before it, and every phi to the latest   *)
(* writes of its arms (build_dag): the matrix and the nodes of every       *)
(* program are lists whose phis join one slot each, that every arm has     *)
(* written before, and the graph is left alone once it is built.           *)
(***************************************************************************)
THEOREM EdgesAreTrue == CmdSpec => []EdgesAreLatest
<1>1. CmdInit => EdgesAreLatest
  <2>1. CmdInit => graph.nodes = <<>>
    BY DEF CmdInit, NoGraph
  <2>. QED
    BY <2>1 DEF EdgesAreLatest, GraphReadsLatest, GraphJoinsArms
<1>2. EdgesAreLatest /\ CmdInv /\ CmdInv' /\ [CmdNext]_vars => EdgesAreLatest'
  <2>. SUFFICES ASSUME EdgesAreLatest, CmdInv, CmdInv', [CmdNext]_vars PROVE EdgesAreLatest'
    OBVIOUS
  <2>1. CASE ParseFiles
    <3>1. graph' = GraphOf(ir')
      BY <2>1 DEF ParseFiles
    <3>2. IsProgram(ir')
      BY DEF CmdInv, CmdTypeOK
    <3>3. GraphReadsLatest(graph'.nodes, graph'.edges) /\ GraphJoinsArms(graph'.nodes, graph'.edges)
      BY <3>1, <3>2, GraphOfAProgram
    <3>. QED
      BY <3>3 DEF EdgesAreLatest
  <2>2. CASE graph' = graph
    BY <2>2 DEF EdgesAreLatest
  <2>3. [CmdNext]_vars => ParseFiles \/ graph' = graph
    BY DEF CmdNext, StartScan, Scan, Classify, DetectSemantic, DetectNear, WriteReport, vars, cmdVars
  <2>. QED
    BY <2>1, <2>2, <2>3
<1>. QED
  BY <1>1, <1>2, CmdInvariant, PTL DEF CmdSpec

(***************************************************************************)
(* The union-find.  r gives the root of every element and d falls on the   *)
(* way to it.                                                              *)
(***************************************************************************)
Rooted(parent, D, r, d) ==
    /\ parent \in [D -> D] /\ r \in [D -> D] /\ d \in [D -> Nat]
    /\ \A y \in D : parent[y] = y => r[y] = y
    /\ \A y \in D : parent[y] # y => r[y] = r[parent[y]] /\ d[parent[y]] < d[y]
    /\ \A y \in D : parent[r[y]] = r[y]

Forests(D) == {parent \in [D -> D] : \E r, d : Rooted(parent, D, r, d)}

LEMMA FindIsRoot ==
    ASSUME NEW parent, NEW D, NEW r, NEW d, Rooted(parent, D, r, d)
    PROVE  \A x \in D : Find(parent, x) = r[x]
<1>. DEFINE Equation(h) == h = [y \in DOMAIN parent |-> IF parent[y] = y THEN y ELSE h[parent[y]]]
            root == CHOOSE h : Equation(h)
<1>1. \A x : Find(parent, x) = root[x]
  BY Zenon DEF Find
<1>2. Equation(r)
  <2>1. DOMAIN parent = D /\ r = [y \in D |-> r[y]]
    BY DEF Rooted
  <2>2. \A y \in D : r[y] = IF parent[y] = y THEN y ELSE r[parent[y]]
    BY DEF Rooted
  <2>. QED
    BY <2>1, <2>2
<1>3. Equation(root)
  <2>. HIDE DEF Equation
  <2>. QED
    BY <1>2, Zenon
<1>. HIDE DEF root
<1>4. \A y \in D : root[y] = IF parent[y] = y THEN y ELSE root[parent[y]]
  <2>1. DOMAIN parent = D
    BY DEF Rooted
  <2>. QED
    BY <1>3, <2>1
<1>. DEFINE bad == {y \in D : root[y] # r[y]}
            S   == {d[y] : y \in bad}
<1>5. ASSUME bad # {} PROVE FALSE
  <2>1. S \in SUBSET Nat /\ S # {}
    BY <1>5 DEF Rooted
  <2>. HIDE DEF S
  <2>2. PICK k \in S : \A m \in S : k <= m
    BY <2>1, LeastNumber
  <2>3. PICK y \in bad : k = d[y]
    BY <2>2 DEF S
  <2>4. y \in D /\ d[y] \in Nat
    BY <2>3 DEF Rooted
  <2>5. parent[y] # y
    BY <1>4, <2>3, <2>4 DEF Rooted
  <2>6. parent[y] \in D /\ d[parent[y]] \in Nat /\ d[parent[y]] < d[y] /\ r[y] = r[parent[y]]
    BY <2>4, <2>5 DEF Rooted
  <2>7. root[parent[y]] # r[parent[y]]
    BY <1>4, <2>3, <2>4, <2>5, <2>6
  <2>8. d[parent[y]] \in S
    BY <2>6, <2>7 DEF S
  <2>. QED
    BY <2>2, <2>3, <2>4, <2>6, <2>8
<1>. QED
  BY <1>1, <1>5

LEMMA UnionJoins ==
    ASSUME NEW D, NEW parent \in Forests(D), NEW x \in D, NEW y \in D
    PROVE  /\ Union(parent, x, y) \in Forests(D)
           /\ \A z \in D : Find(parent, z) \in D
           /\ \A z \in D : Find(Union(parent, x, y), z) =
                 IF Find(parent, z) = Find(parent, x) THEN Find(parent, y) ELSE Find(parent, z)
<1>1. PICK r, d : Rooted(parent, D, r, d)
  BY DEF Forests
<1>2. \A z \in D : Find(parent, z) = r[z]
  BY <1>1, FindIsRoot
<1>. DEFINE rx == r[x]
            ry == r[y]
            joined == [parent EXCEPT ![rx] = ry]
            r2 == [z \in D |-> IF r[z] = rx THEN ry ELSE r[z]]
            d2 == [z \in D |-> IF rx # ry /\ r[z] = rx THEN d[z] + d[ry] + 1 ELSE d[z]]
<1>3. Union(parent, x, y) = joined
  BY <1>2 DEF Union
<1>4. rx \in D /\ ry \in D /\ parent[rx] = rx /\ parent[ry] = ry /\ r[rx] = rx /\ r[ry] = ry
  BY <1>1 DEF Rooted
<1>. HIDE DEF rx, ry
<1>5. joined \in [D -> D] /\ r2 \in [D -> D] /\ d2 \in [D -> Nat]
  BY <1>1, <1>4 DEF Rooted
<1>6. \A z \in D : joined[z] = IF z = rx THEN ry ELSE parent[z]
  BY <1>1 DEF Rooted
<1>7. \A z \in D : r2[z] = IF r[z] = rx THEN ry ELSE r[z]
  OBVIOUS
<1>8. \A z \in D : d2[z] = IF rx # ry /\ r[z] = rx THEN d[z] + d[ry] + 1 ELSE d[z]
  OBVIOUS
<1>. HIDE DEF joined, r2, d2
<1>9. ASSUME NEW z \in D, joined[z] = z PROVE r2[z] = z
  <2>1. CASE z = rx
    BY <1>4, <1>6, <1>7, <1>9, <2>1
  <2>2. CASE z # rx
    <3>1. parent[z] = z /\ r[z] = z
      BY <1>1, <1>6, <1>9, <2>2 DEF Rooted
    <3>. QED
      BY <1>7, <2>2, <3>1
  <2>. QED
    BY <2>1, <2>2
<1>10. ASSUME NEW z \in D, joined[z] # z PROVE r2[z] = r2[joined[z]] /\ d2[joined[z]] < d2[z]
  <2>1. CASE z = rx
    <3>1. joined[z] = ry /\ rx # ry
      BY <1>6, <1>10, <2>1
    <3>2. r2[z] = ry /\ r2[ry] = ry
      BY <1>4, <1>7, <2>1
    <3>3. d2[z] = d[z] + d[ry] + 1 /\ d2[ry] = d[ry] /\ d[z] \in Nat /\ d[ry] \in Nat
      BY <1>1, <1>4, <1>8, <2>1, <3>1 DEF Rooted
    <3>. QED
      BY <3>1, <3>2, <3>3
  <2>2. CASE z # rx
    <3>1. joined[z] = parent[z] /\ parent[z] # z /\ parent[z] \in D
      BY <1>1, <1>6, <1>10, <2>2 DEF Rooted
    <3>2. r[z] = r[parent[z]] /\ d[parent[z]] < d[z] /\ d[z] \in Nat /\ d[parent[z]] \in Nat /\ d[ry] \in Nat
      BY <1>1, <1>4, <3>1 DEF Rooted
    <3>3. r2[z] = r2[parent[z]]
      BY <1>7, <3>1, <3>2
    <3>4. d2[parent[z]] < d2[z]
      BY <1>8, <3>1, <3>2
    <3>. QED
      BY <3>1, <3>3, <3>4
  <2>. QED
    BY <2>1, <2>2
<1>11. \A z \in D : joined[r2[z]] = r2[z]
  <2>. SUFFICES ASSUME NEW z \in D PROVE joined[r2[z]] = r2[z]
    OBVIOUS
  <2>1. CASE r[z] = rx
    BY <1>4, <1>6, <1>7, <2>1
  <2>2. CASE r[z] # rx
    <3>1. r[z] \in D /\ parent[r[z]] = r[z]
      BY <1>1 DEF Rooted
    <3>. QED
      BY <1>6, <1>7, <2>2, <3>1
  <2>. QED
    BY <2>1, <2>2
<1>12. Rooted(joined, D, r2, d2)
  BY <1>5, <1>9, <1>10, <1>11 DEF Rooted
<1>13. joined \in Forests(D)
  BY <1>5, <1>12 DEF Forests
<1>14. \A z \in D : Find(joined, z) = r2[z]
  BY <1>12, FindIsRoot
<1>15. \A z \in D : r[z] \in D
  BY <1>1 DEF Rooted
<1>. QED
  BY <1>2, <1>3, <1>7, <1>13, <1>14, <1>15 DEF rx, ry

\* Pairs of segments of the program.
Joinable(segs, pairs) ==
    IsList(pairs) /\ \A k \in DOMAIN pairs : pairs[k].a.seg \in DOMAIN segs /\ pairs[k].b.seg \in DOMAIN segs

PairByPair(segs, pairs, f) ==
    /\ f \in [0 .. Len(pairs) -> Forests(DOMAIN segs)]
    /\ f[0] = [g \in DOMAIN segs |-> g]
    /\ \A k \in 1 .. Len(pairs) : f[k] = Union(f[k - 1], pairs[k].a.seg, pairs[k].b.seg)

LEMMA SinglesAreAForest == ASSUME NEW D PROVE [g \in D |-> g] \in Forests(D) /\ \A x \in D : Find([g \in D |-> g], x) = x
<1>. DEFINE r == [g \in D |-> g]
            d == [g \in D |-> 0]
<1>1. Rooted(r, D, r, d)
  BY DEF Rooted
<1>2. r \in [D -> D] /\ \A x \in D : r[x] = x
  OBVIOUS
<1>. HIDE DEF r, d
<1>. QED
  BY <1>1, <1>2, FindIsRoot DEF Forests, r

LEMMA ForestPairByPair ==
    ASSUME NEW segs, NEW pairs, Joinable(segs, pairs)
    PROVE  \E f : PairByPair(segs, pairs, f) /\ Forest(segs, pairs) = f[Len(pairs)]
<1>. DEFINE n == Len(pairs)
            D == DOMAIN segs
            A == Forests(D)
            singles == [g \in D |-> g]
            Join(k, parent) == Union(parent, pairs[k].a.seg, pairs[k].b.seg)
            Equation(u) == u = [k \in 0 .. n |-> IF k = 0 THEN singles ELSE Join(k, u[k - 1])]
            upto == CHOOSE u : Equation(u)
            F == [p \in (1 .. n) \X A |-> Join(p[1], p[2])]
<1>1. n \in Nat /\ \A k \in 1 .. n : pairs[k].a.seg \in D /\ pairs[k].b.seg \in D
  BY DEF Joinable, IsList
<1>2. singles \in A
  BY SinglesAreAForest
<1>3. \A k \in 1 .. n, parent \in A : Join(k, parent) \in A
  BY <1>1, UnionJoins
<1>4. Forest(segs, pairs) = upto[n]
  BY Zenon DEF Forest
<1>. HIDE DEF n, D, A, singles, Join
<1>5. F \in [(1 .. n) \X A -> A]
  BY <1>3
<1>6. \A k \in 1 .. n, parent \in A : F[<<k, parent>>] = Join(k, parent)
  OBVIOUS
<1>. HIDE DEF F
<1>7. PICK f \in [0 .. n -> A] : Follows(f, n, singles, F)
  BY <1>1, <1>2, <1>5, Recursion
<1>8. Equation(f)
  <2>1. \A k \in 0 .. n : f[k] = IF k = 0 THEN singles ELSE Join(k, f[k - 1])
    <3>. SUFFICES ASSUME NEW k \in 0 .. n PROVE f[k] = IF k = 0 THEN singles ELSE Join(k, f[k - 1])
      OBVIOUS
    <3>1. f[k] = IF k = 0 THEN singles ELSE F[<<k, f[k - 1]>>]
      BY <1>7 DEF Follows
    <3>2. CASE k = 0
      BY <3>1, <3>2
    <3>3. CASE k # 0
      <4>1. k \in 1 .. n /\ k - 1 \in 0 .. n
        BY <1>1, <3>3
      <4>2. f[k - 1] \in A
        BY <4>1
      <4>. QED
        BY <1>6, <3>1, <3>3, <4>1, <4>2
    <3>. QED
      BY <3>2, <3>3
  <2>. QED
    BY <2>1
<1>9. Equation(upto)
  <2>. HIDE DEF Equation
  <2>. QED
    BY <1>8, Zenon
<1>. HIDE DEF upto
<1>10. /\ DOMAIN upto = 0 .. n /\ upto[0] = singles
       /\ \A k \in 1 .. n : upto[k] = Join(k, upto[k - 1])
  <2>1. 0 \in 0 .. n /\ \A k \in 1 .. n : k \in 0 .. n /\ k # 0
    BY <1>1
  <2>. QED
    BY <1>9, <2>1
<1>. DEFINE S == {k \in Nat : k \in 0 .. n => upto[k] \in A}
<1>11. 0 \in S
  BY <1>2, <1>10
<1>12. ASSUME NEW k \in 0 .. n - 1, k \in S PROVE k + 1 \in S
  <2>1. k + 1 \in 1 .. n /\ (k + 1) - 1 = k /\ k \in 0 .. n /\ k + 1 \in Nat
    BY <1>1
  <2>2. upto[k] \in A
    BY <1>12, <2>1
  <2>3. upto[k + 1] = Join(k + 1, upto[k])
    BY <1>10, <2>1
  <2>. QED
    BY <1>3, <2>1, <2>2, <2>3
<1>. HIDE DEF S
<1>13. 0 .. n \subseteq S
  BY <1>1, <1>11, <1>12, Climbs
<1>14. \A k \in 0 .. n : upto[k] \in A
  BY <1>13 DEF S
<1>15. upto = [k \in 0 .. n |-> upto[k]]
  <2>1. \A u : Equation(u) => u = [k \in 0 .. n |-> u[k]]
    OBVIOUS
  <2>. HIDE DEF Equation
  <2>. QED
    BY <1>9, <2>1
<1>16. upto \in [0 .. n -> A]
  <2>. HIDE DEF Equation
  <2>. QED
    BY <1>14, <1>15
<1>. HIDE DEF Equation
<1>. QED
  BY <1>4, <1>10, <1>16 DEF PairByPair, n, D, A, singles, Join

\* No pair leads out of the part.
Together(pairs, part) == \A k \in DOMAIN pairs : pairs[k].a.seg \in part <=> pairs[k].b.seg \in part

LEMMA ForestJoins ==
    ASSUME NEW segs, NEW pairs, Joinable(segs, pairs)
    PROVE  /\ \A x \in DOMAIN segs : Find(Forest(segs, pairs), x) \in DOMAIN segs
           /\ \A k \in DOMAIN pairs : Find(Forest(segs, pairs), pairs[k].a.seg) = Find(Forest(segs, pairs), pairs[k].b.seg)
           /\ \A part : Together(pairs, part) =>
                 \A x, y \in DOMAIN segs :
                    Find(Forest(segs, pairs), x) = Find(Forest(segs, pairs), y) => (x \in part <=> y \in part)
<1>. DEFINE n == Len(pairs)
            D == DOMAIN segs
<1>1. PICK f : PairByPair(segs, pairs, f) /\ Forest(segs, pairs) = f[n]
  BY ForestPairByPair
<1>2. n \in Nat /\ DOMAIN pairs = 1 .. n /\ \A k \in 1 .. n : pairs[k].a.seg \in D /\ pairs[k].b.seg \in D
  BY DEF Joinable, IsList
<1>. HIDE DEF D
<1>3. f \in [0 .. n -> Forests(D)] /\ f[0] = [g \in D |-> g]
  BY <1>1 DEF PairByPair, D
<1>4. ASSUME NEW k \in 0 .. n - 1
      PROVE  \A z \in D : /\ Find(f[k], z) \in D
                          /\ Find(f[k + 1], z) =
                                IF Find(f[k], z) = Find(f[k], pairs[k + 1].a.seg)
                                THEN Find(f[k], pairs[k + 1].b.seg) ELSE Find(f[k], z)
  <2>1. k + 1 \in 1 .. n /\ (k + 1) - 1 = k /\ k \in 0 .. n
    BY <1>2
  <2>2. f[k + 1] = Union(f[k], pairs[k + 1].a.seg, pairs[k + 1].b.seg)
    BY <1>1, <2>1 DEF PairByPair
  <2>. DEFINE a == pairs[k + 1].a.seg
              b == pairs[k + 1].b.seg
              parent == f[k]
  <2>3. parent \in Forests(D) /\ a \in D /\ b \in D /\ f[k + 1] = Union(parent, a, b)
    BY <1>2, <1>3, <2>1, <2>2
  <2>. HIDE DEF a, b, parent
  <2>4. parent \in Forests(D) /\ a \in D /\ b \in D
    BY <2>3
  <2>5. \A z \in D : Find(parent, z) \in D
    BY <2>4, UnionJoins
  <2>6. \A z \in D : Find(Union(parent, a, b), z) =
           IF Find(parent, z) = Find(parent, a) THEN Find(parent, b) ELSE Find(parent, z)
    BY <2>4, UnionJoins
  <2>. QED
    BY <2>3, <2>5, <2>6 DEF a, b, parent
<1>. DEFINE Joined1(k) == \A j \in 1 .. k : Find(f[k], pairs[j].a.seg) = Find(f[k], pairs[j].b.seg)
            S == {k \in Nat : k \in 0 .. n => Joined1(k)}
<1>5. 0 \in S
  OBVIOUS
<1>6. ASSUME NEW k \in 0 .. n - 1, k \in S PROVE k + 1 \in S
  <2>1. k \in 0 .. n /\ k + 1 \in Nat /\ k + 1 \in 1 .. n
    BY <1>2
  <2>2. Joined1(k)
    BY <1>6, <2>1
  <2>3. ASSUME NEW j \in 1 .. k + 1 PROVE Find(f[k + 1], pairs[j].a.seg) = Find(f[k + 1], pairs[j].b.seg)
    <3>1. pairs[j].a.seg \in D /\ pairs[j].b.seg \in D /\ pairs[k + 1].a.seg \in D /\ pairs[k + 1].b.seg \in D
      BY <1>2, <2>1
    <3>. DEFINE a == pairs[k + 1].a.seg
                b == pairs[k + 1].b.seg
    <3>a. \A z \in D : Find(f[k + 1], z) = IF Find(f[k], z) = Find(f[k], a) THEN Find(f[k], b) ELSE Find(f[k], z)
      BY <1>4
    <3>2. CASE j = k + 1
      <4>1. pairs[j].a.seg = a /\ pairs[j].b.seg = b
        BY <3>2
      <4>. HIDE DEF a, b
      <4>2. Find(f[k + 1], pairs[j].a.seg) = Find(f[k], b)
        BY <3>1, <3>a, <4>1
      <4>3. Find(f[k + 1], pairs[j].b.seg) = Find(f[k], b)
        BY <3>1, <3>a, <4>1
      <4>. QED
        BY <4>2, <4>3
    <3>3. CASE j # k + 1
      <4>1. Find(f[k], pairs[j].a.seg) = Find(f[k], pairs[j].b.seg)
        BY <2>2, <3>3
      <4>. HIDE DEF a, b
      <4>. QED
        BY <3>1, <3>a, <4>1
    <3>. QED
      BY <3>2, <3>3
  <2>. QED
    BY <2>1, <2>3
<1>. HIDE DEF S
<1>7. 0 .. n \subseteq S
  BY <1>2, <1>5, <1>6, Climbs
<1>8. \A j \in 1 .. n : Find(f[n], pairs[j].a.seg) = Find(f[n], pairs[j].b.seg)
  <2>1. n \in 0 .. n
    BY <1>2
  <2>. QED
    BY <1>7, <2>1 DEF S
<1>9. ASSUME NEW part, Together(pairs, part)
      PROVE  \A x, y \in D : Find(f[n], x) = Find(f[n], y) => (x \in part <=> y \in part)
  <2>. DEFINE Apart1(k) == \A x, y \in D : Find(f[k], x) = Find(f[k], y) => (x \in part <=> y \in part)
              R == {k \in Nat : k \in 0 .. n => Apart1(k)}
  <2>1. 0 \in R
    <3>1. \A x \in D : Find(f[0], x) = x
      BY <1>3, SinglesAreAForest
    <3>. QED
      BY <3>1
  <2>2. ASSUME NEW k \in 0 .. n - 1, k \in R PROVE k + 1 \in R
    <3>1. k \in 0 .. n /\ k + 1 \in Nat /\ k + 1 \in 1 .. n
      BY <1>2
    <3>2. Apart1(k)
      BY <2>2, <3>1
    <3>. DEFINE a == pairs[k + 1].a.seg
                b == pairs[k + 1].b.seg
    <3>3. a \in D /\ b \in D /\ (a \in part <=> b \in part)
      BY <1>2, <1>9, <3>1 DEF Together
    <3>4. \A z \in D : Find(f[k + 1], z) = IF Find(f[k], z) = Find(f[k], a) THEN Find(f[k], b) ELSE Find(f[k], z)
      BY <1>4
    <3>. HIDE DEF a, b
    <3>5. ASSUME NEW x \in D, NEW y \in D, Find(f[k + 1], x) = Find(f[k + 1], y) PROVE x \in part <=> y \in part
      <4>1. CASE Find(f[k], x) = Find(f[k], a) /\ Find(f[k], y) = Find(f[k], a)
        BY <3>2, <4>1
      <4>2. CASE Find(f[k], x) = Find(f[k], a) /\ Find(f[k], y) # Find(f[k], a)
        <5>1. Find(f[k], y) = Find(f[k], b)
          BY <3>4, <3>5, <4>2
        <5>. QED
          BY <3>2, <3>3, <4>2, <5>1
      <4>3. CASE Find(f[k], x) # Find(f[k], a) /\ Find(f[k], y) = Find(f[k], a)
        <5>1. Find(f[k], x) = Find(f[k], b)
          BY <3>4, <3>5, <4>3
        <5>. QED
          BY <3>2, <3>3, <4>3, <5>1
      <4>4. CASE Find(f[k], x) # Find(f[k], a) /\ Find(f[k], y) # Find(f[k], a)
        <5>1. Find(f[k], x) = Find(f[k], y)
          BY <3>4, <3>5, <4>4
        <5>. QED
          BY <3>2, <5>1
      <4>. QED
        BY <4>1, <4>2, <4>3, <4>4
    <3>. QED
      BY <3>1, <3>5
  <2>. HIDE DEF R
  <2>3. 0 .. n \subseteq R
    BY <1>2, <2>1, <2>2, Climbs
  <2>4. n \in 0 .. n
    BY <1>2
  <2>. QED
    BY <2>3, <2>4 DEF R
<1>10. \A x \in D : Find(f[n], x) \in D
  <2>1. f[n] \in Forests(D)
    BY <1>2, <1>3
  <2>. QED
    BY <2>1, UnionJoins
<1>. QED
  BY <1>1, <1>2, <1>8, <1>9, <1>10 DEF D

LEMMA TwoOfThem == ASSUME NEW S, IsFiniteSet(S), NEW x \in S, NEW y \in S, x # y PROVE Cardinality(S) >= 2
<1>1. Cardinality(S) \in Nat
  BY FS_CardinalityType
<1>2. Cardinality(S) # 0
  BY FS_EmptySet
<1>3. Cardinality(S) # 1
  BY FS_Singleton
<1>. QED
  BY <1>1, <1>2, <1>3

LEMMA OneEach ==
    ASSUME NEW S, IsFiniteSet(S), NEW f, \A x, y \in S : f[x] = f[y] => x = y
    PROVE  Cardinality({f[x] : x \in S}) = Cardinality(S)
<1>. DEFINE T == {f[x] : x \in S}
            g == [x \in S |-> f[x]]
<1>1. g \in [S -> T] /\ \A x \in S : g[x] = f[x]
  OBVIOUS
<1>0. \A t \in T : \E x \in S : t = f[x]
  OBVIOUS
<1>. HIDE DEF T, g
<1>2. g \in Bijection(S, T)
  BY <1>0, <1>1 DEF Surjection, Injection, Bijection, IsInjective
<1>3. ExistsBijection(S, T)
  BY <1>2 DEF ExistsBijection
<1>. HIDE DEF T, g
<1>4. Cardinality(T) = Cardinality(S)
  BY <1>3, FS_Bijection
<1>. QED
  BY <1>4 DEF T

\* The segments of the pairs, and those with the same root.
Used(pairs) == UNION {PairSegs(p) : p \in Range(pairs)}

Members(segs, pairs, root) == {g \in Used(pairs) : Find(Forest(segs, pairs), g) = root}

LEMMA UsedSegments ==
    ASSUME NEW segs, NEW pairs, Joinable(segs, pairs)
    PROVE  /\ Used(pairs) \subseteq DOMAIN segs
           /\ \A g \in Used(pairs) : Place(pairs, g).seg = g
<1>1. ASSUME NEW g \in Used(pairs) PROVE \E k \in DOMAIN pairs : g \in PairSegs(pairs[k])
  BY <1>1 DEF Used, Range
<1>2. Used(pairs) \subseteq DOMAIN segs
  BY <1>1 DEF Joinable, PairSegs
<1>3. ASSUME NEW g \in Used(pairs) PROVE Place(pairs, g).seg = g
  <2>. DEFINE at    == {i \in DOMAIN pairs : g \in PairSegs(pairs[i])}
              first == pairs[Min(at)]
  <2>1. Place(pairs, g) = IF first.a.seg = g THEN first.a ELSE first.b
    BY Zenon DEF Place
  <2>2. at \in SUBSET Nat /\ at # {}
    <3>1. DOMAIN pairs \subseteq Nat
      BY DEF Joinable, IsList
    <3>. QED
      BY <1>1, <3>1
  <2>. HIDE DEF at
  <2>3. Min(at) \in at
    BY <2>2, LeastIsMin
  <2>4. g \in PairSegs(first)
    BY <2>3 DEF at
  <2>. HIDE DEF first
  <2>. QED
    BY <2>1, <2>4 DEF PairSegs
<1>. QED
  BY <1>2, <1>3

LEMMA NearClass ==
    ASSUME NEW segs, NEW pairs, Joinable(segs, pairs), IsFiniteSet(DOMAIN segs)
    PROVE  /\ \A root : /\ IsFiniteSet(Members(segs, pairs, root)) /\ Members(segs, pairs, root) \subseteq DOMAIN segs
                        /\ {Place(pairs, g).seg : g \in Members(segs, pairs, root)} = Members(segs, pairs, root)
                        /\ Cardinality({Place(pairs, g) : g \in Members(segs, pairs, root)})
                              = Cardinality(Members(segs, pairs, root))
           /\ NearClasses(segs, pairs) =
                 {[type |-> "III", occs |-> {Place(pairs, g) : g \in Members(segs, pairs, root)}] :
                     root \in {r \in DOMAIN segs : Cardinality(Members(segs, pairs, r)) >= 2}}
<1>1. NearClasses(segs, pairs) =
         {[type |-> "III", occs |-> {Place(pairs, g) : g \in Members(segs, pairs, root)}] :
             root \in {r \in DOMAIN segs : Cardinality(Members(segs, pairs, r)) >= 2}}
  BY Zenon DEF NearClasses, Members, Used
<1>2. ASSUME NEW root
      PROVE  /\ IsFiniteSet(Members(segs, pairs, root)) /\ Members(segs, pairs, root) \subseteq DOMAIN segs
             /\ {Place(pairs, g).seg : g \in Members(segs, pairs, root)} = Members(segs, pairs, root)
             /\ Cardinality({Place(pairs, g) : g \in Members(segs, pairs, root)}) = Cardinality(Members(segs, pairs, root))
  <2>. DEFINE M == Members(segs, pairs, root)
              f == [g \in M |-> Place(pairs, g)]
  <2>1. M \subseteq Used(pairs)
    BY DEF Members
  <2>. HIDE DEF M
  <2>2. M \subseteq DOMAIN segs /\ \A g \in M : Place(pairs, g).seg = g
    BY <2>1, UsedSegments
  <2>3. IsFiniteSet(M)
    BY <2>2, FS_Subset
  <2>4. \A g \in M : f[g] = Place(pairs, g)
    OBVIOUS
  <2>5. {f[g] : g \in M} = {Place(pairs, g) : g \in M}
    OBVIOUS
  <2>. HIDE DEF f
  <2>6. \A x, y \in M : f[x] = f[y] => x = y
    BY <2>2, <2>4
  <2>7. Cardinality({f[g] : g \in M}) = Cardinality(M)
    BY <2>3, <2>6, OneEach
  <2>8. {Place(pairs, g).seg : g \in M} = M
    BY <2>2
  <2>. QED
    BY <2>2, <2>3, <2>5, <2>7, <2>8 DEF M
<1>. QED
  BY <1>1, <1>2

(***************************************************************************)
(* The union-find of detect_type3, for all lists of pairs in any order:    *)
(* two similar segments are in one class, a class has one occurrence of    *)
(* each of its segments, and no part of a class could stand alone.         *)
(***************************************************************************)
THEOREM ClassesAreComponents ==
    ASSUME NEW segs, NEW pairs, Joinable(segs, pairs), IsFiniteSet(DOMAIN segs)
    PROVE  AreComponents(NearClasses(segs, pairs), Range(pairs))
<1>. DEFINE D == DOMAIN segs
            M(root) == Members(segs, pairs, root)
            Occs(root) == {Place(pairs, g) : g \in M(root)}
            ClassAt(root) == [type |-> "III", occs |-> Occs(root)]
            F(g) == Find(Forest(segs, pairs), g)
            links == Range(pairs)
            classes == NearClasses(segs, pairs)
<1>1. classes = {ClassAt(root) : root \in {r \in D : Cardinality(M(r)) >= 2}}
  BY NearClass
<1>2. \A root : /\ IsFiniteSet(M(root)) /\ M(root) \subseteq D
                /\ {Place(pairs, g).seg : g \in M(root)} = M(root) /\ Cardinality(Occs(root)) = Cardinality(M(root))
  BY NearClass
<1>3. \A root : SegsOf(ClassAt(root)) = M(root)
  <2>. SUFFICES ASSUME NEW root PROVE SegsOf(ClassAt(root)) = M(root)
    OBVIOUS
  <2>1. SegsOf(ClassAt(root)) = {Place(pairs, g).seg : g \in M(root)}
    <3>. HIDE DEF M
    <3>. QED
      BY DEF SegsOf
  <2>. QED
    BY <1>2, <2>1
<1>4. \A p \in links : \E k \in DOMAIN pairs : p = pairs[k]
  BY DEF Range
<1>5. \A p \in links : p.a.seg \in Used(pairs) /\ p.b.seg \in Used(pairs) /\ p.a.seg \in D /\ F(p.a.seg) = F(p.b.seg)
  <2>1. \A p \in links : PairSegs(p) \subseteq Used(pairs)
    BY DEF Used
  <2>2. \A p \in links : p.a.seg \in D /\ F(p.a.seg) = F(p.b.seg)
    BY <1>4, ForestJoins DEF Joinable
  <2>. QED
    BY <2>1, <2>2 DEF PairSegs
<1>6. \A x \in D : F(x) \in D
  BY ForestJoins
<1>7. \A g, root : g \in M(root) <=> g \in Used(pairs) /\ F(g) = root
  BY DEF Members
<1>8. \A part : (\A p \in links : p.a.seg \in part <=> p.b.seg \in part)
                   => \A x, y \in D : F(x) = F(y) => (x \in part <=> y \in part)
  <2>. SUFFICES ASSUME NEW part, \A p \in links : p.a.seg \in part <=> p.b.seg \in part
                PROVE  \A x, y \in D : F(x) = F(y) => (x \in part <=> y \in part)
    OBVIOUS
  <2>1. \A k \in DOMAIN pairs : pairs[k] \in links
    BY DEF Range
  <2>2. Together(pairs, part)
    BY <2>1 DEF Together
  <2>. QED
    BY <2>2, ForestJoins
<1>. HIDE DEF D, M, Occs, F, links, classes
<1>9. ASSUME NEW p \in links, p.a.seg # p.b.seg PROVE \E c \in classes : PairSegs(p) \subseteq SegsOf(c)
  <2>. DEFINE root == F(p.a.seg)
  <2>1. root \in D /\ p.a.seg \in M(root) /\ p.b.seg \in M(root)
    BY <1>5, <1>6, <1>7
  <2>. HIDE DEF root
  <2>2. Cardinality(M(root)) >= 2
    BY <1>2, <1>9, <2>1, TwoOfThem
  <2>3. ClassAt(root) \in classes
    BY <1>1, <2>1, <2>2
  <2>4. SegsOf(ClassAt(root)) = M(root)
    BY <1>3
  <2>. HIDE DEF ClassAt
  <2>5. PairSegs(p) \subseteq SegsOf(ClassAt(root))
    BY <2>1, <2>4 DEF PairSegs
  <2>. QED
    BY <2>3, <2>5
<1>10. ASSUME NEW c \in classes
       PROVE  /\ Cardinality(SegsOf(c)) = Cardinality(c.occs)
              /\ \A part \in (SUBSET SegsOf(c)) \ {{}, SegsOf(c)} : \E g \in part : Linked(links, g) \ part # {}
  <2>1. PICK root \in D : c = ClassAt(root)
    BY <1>1
  <2>2. SegsOf(c) = M(root) /\ c.occs = Occs(root)
    BY <1>3, <2>1
  <2>3. ASSUME NEW part \in SUBSET M(root), part # {}, part # M(root), \A g \in part : Linked(links, g) \ part = {}
        PROVE  FALSE
    <3>1. ASSUME NEW p \in links PROVE p.a.seg \in part <=> p.b.seg \in part
      <4>1. p.a.seg \in PairSegs(p) /\ p.b.seg \in PairSegs(p)
        BY DEF PairSegs
      <4>2. ASSUME p.a.seg \in part, p.b.seg \notin part PROVE FALSE
        <5>1. p.b.seg \in Linked(links, p.a.seg)
          BY <4>1, <4>2 DEF Linked
        <5>. QED
          BY <2>3, <4>2, <5>1
      <4>3. ASSUME p.b.seg \in part, p.a.seg \notin part PROVE FALSE
        <5>1. p.a.seg \in Linked(links, p.b.seg)
          BY <4>1, <4>3 DEF Linked
        <5>. QED
          BY <2>3, <4>3, <5>1
      <4>. QED
        BY <4>2, <4>3
    <3>2. \A x, y \in D : F(x) = F(y) => (x \in part <=> y \in part)
      BY <1>8, <3>1
    <3>3. PICK x \in part : TRUE
      BY <2>3
    <3>4. PICK y \in M(root) : y \notin part
      BY <2>3
    <3>5. x \in M(root) /\ x \in D /\ y \in D /\ F(x) = root /\ F(y) = root
      BY <1>2, <1>7, <2>3, <3>3, <3>4
    <3>. QED
      BY <3>2, <3>3, <3>4, <3>5
  <2>4. Cardinality(SegsOf(c)) = Cardinality(c.occs)
    BY <1>2, <2>2
  <2>. HIDE DEF ClassAt
  <2>5. \A part \in SUBSET M(root) : part # {} /\ part # M(root) => \E g \in part : Linked(links, g) \ part # {}
    BY <2>3
  <2>6. \A part \in (SUBSET SegsOf(c)) \ {{}, SegsOf(c)} : part \in SUBSET M(root) /\ part # {} /\ part # M(root)
    BY <2>2
  <2>. QED
    BY <2>4, <2>5, <2>6
<1>. QED
  BY <1>9, <1>10 DEF AreComponents, links, classes

(***************************************************************************)
(* The best pairs: finitely many, one for any two segments, and the order  *)
(* they are joined in lists them all.                                      *)
(***************************************************************************)
Comparable(segs, p) ==
    /\ p.a.seg \in DOMAIN segs /\ p.b.seg \in DOMAIN segs
    /\ p.sim \in Int /\ p.len \in Int /\ p.a.from \in Int /\ p.b.from \in Int

LEMMA FilledIsAList ==
    ASSUME NEW segs, IsProgram(segs), NEW g \in DOMAIN segs, NEW i \in 1 .. Len(segs[g].stmts), NEW two, NEW types
    PROVE  Filled(segs, g, i, two, types) \in Seq(Range(Filled(segs, g, i, two, types)))
<1>. DEFINE toks == segs[g].stmts[i].toks
            f    == Filled(segs, g, i, two, types)
<1>1. DOMAIN segs[g].stmts = 1 .. Len(segs[g].stmts)
  <2>1. segs[g]["stmts"] \in Seq(Range(segs[g]["stmts"]))
    BY DEF IsProgram
  <2>. QED
    BY <2>1
<1>2. toks \in Seq(Range(toks))
  BY <1>1 DEF IsProgram
<1>. DEFINE E(k) == IF toks[k] = Hole /\ HolesBefore(segs, g, i) + HolesIn(SubSeq(toks, 1, k)) \in DOMAIN Children(segs, g)
                    THEN <<"block", types[Children(segs, g)[HolesBefore(segs, g, i) + HolesIn(SubSeq(toks, 1, k))]], 0>>
                    ELSE Normal(toks, two)[k]
<1>3. f = [k \in DOMAIN toks |-> E(k)]
  BY Zenon DEF Filled
<1>. HIDE DEF toks, E
<1>4. PICK n \in Nat : DOMAIN toks = 1 .. n
  BY <1>2
<1>5. DOMAIN f = 1 .. n /\ f = [k \in 1 .. n |-> f[k]]
  BY <1>3, <1>4
<1>. HIDE DEF f
<1>6. \A k \in 1 .. n : f[k] \in Range(f)
  BY <1>5 DEF Range
<1>7. f \in [1 .. n -> Range(f)]
  BY <1>5, <1>6
<1>8. f \in Seq(Range(f))
  BY <1>7
<1>. QED
  BY <1>8 DEF f

LEMMA JoinedIsAList ==
    ASSUME NEW T, Newline \in T, NEW texts \in Seq(Seq(T))
    PROVE  Joined(texts) \in Seq(T)
<1>. DEFINE Part(i) == IF i = Len(texts) THEN texts[i] ELSE Append(texts[i], Newline)
            parts == [i \in DOMAIN texts |-> Part(i)]
<1>1. Joined(texts) = FlattenSeq(parts)
  BY Zenon DEF Joined
<1>2. PICK n \in Nat : DOMAIN texts = 1 .. n /\ \A i \in 1 .. n : texts[i] \in Seq(T)
  OBVIOUS
<1>3. \A i \in 1 .. n : Part(i) \in Seq(T)
  BY <1>2
<1>. HIDE DEF Part
<1>4. parts \in [1 .. n -> Seq(T)]
  BY <1>2, <1>3
<1>. HIDE DEF parts
<1>5. parts \in Seq(Seq(T))
  BY <1>4
<1>. QED
  BY <1>1, <1>5, FlatIsASequence

LEMMA WindowIsAList ==
    ASSUME NEW segs, IsProgram(segs), NEW g \in DOMAIN segs, NEW w \in Nat,
           NEW from \in 1 .. Len(segs[g].stmts) - w + 1
    PROVE  \E T : Newline \in T /\ Window(segs, g, from, w) \in Seq(Seq(T))
<1>. DEFINE text(i) == Filled(segs, g, from + i - 1, TRUE, BlockTypes(segs, TRUE))
            T == {Newline} \cup UNION {Range(text(i)) : i \in 1 .. w}
<1>1. Window(segs, g, from, w) = [i \in 1 .. w |-> text(i)]
  BY Zenon DEF Window
<1>2. ASSUME NEW i \in 1 .. w PROVE text(i) \in Seq(T)
  <2>1. from + i - 1 \in 1 .. Len(segs[g].stmts)
    <3>1. Len(segs[g].stmts) \in Nat
      BY RowsAreSequences
    <3>. QED
      BY <3>1
  <2>2. text(i) \in Seq(Range(text(i)))
    BY <2>1, FilledIsAList
  <2>3. Range(text(i)) \subseteq T
    <3>1. Range(text(i)) \in {Range(text(j)) : j \in 1 .. w}
      OBVIOUS
    <3>. QED
      BY <3>1
  <2>. HIDE DEF T, text
  <2>. QED
    BY <2>2, <2>3, WiderSequences
<1>3. Newline \in T
  OBVIOUS
<1>. HIDE DEF T, text
<1>4. [i \in 1 .. w |-> text(i)] \in Seq(Seq(T))
  BY <1>2
<1>. QED
  BY <1>1, <1>3, <1>4

LEMMA WindowTokens ==
    ASSUME NEW segs, IsProgram(segs), NEW g \in DOMAIN segs, NEW w \in Nat,
           NEW from \in 1 .. Len(segs[g].stmts) - w + 1
    PROVE  IsList(Joined(Window(segs, g, from, w)))
<1>. DEFINE x == Joined(Window(segs, g, from, w))
<1>1. PICK T : Newline \in T /\ Window(segs, g, from, w) \in Seq(Seq(T))
  BY WindowIsAList
<1>2. x \in Seq(T)
  BY <1>1, JoinedIsAList
<1>. HIDE DEF x
<1>3. IsList(x)
  BY <1>2 DEF IsList
<1>. QED
  BY <1>3 DEF x

LEMMA SimilarityIsANumber == ASSUME NEW same \in Nat, NEW size \in Nat, size # 0 PROVE (20000 * same + size \div 2) \div size \in Int
<1>1. size \div 2 \in Int
  OBVIOUS
<1>2. 20000 * same + size \div 2 \in Int
  BY <1>1
<1>. DEFINE top == 20000 * same + size \div 2
<1>. HIDE DEF top
<1>3. top \in Int
  BY <1>2 DEF top
<1>4. top \div size \in Int
  BY <1>3
<1>. QED
  BY <1>4 DEF top

LEMMA PairIsComparable ==
    ASSUME NEW segs, IsProgram(segs), NEW g \in DOMAIN segs, NEW h \in DOMAIN segs, NEW w \in Nat,
           NEW s \in 1 .. Len(segs[g].stmts) - w + 1, NEW t \in 1 .. Len(segs[h].stmts) - w + 1
    PROVE  Comparable(segs, Pair(segs, g, s, h, t, w))
<1>. DEFINE wa == Window(segs, g, s, w)
            wb == Window(segs, h, t, w)
            x  == Joined(wa)
            y  == Joined(wb)
            same == Cardinality(Matching(x, y))
            size == Len(x) + Len(y)
            diffs == Len(wa) - Cardinality(Matching(wa, wb))
            a == [seg |-> g, from |-> s, to |-> s + w - 1]
            b == [seg |-> h, from |-> t, to |-> t + w - 1]
<1>1. Pair(segs, g, s, h, t, w) = Compared(a, b, same, size, diffs)
  BY Zenon DEF Pair, Compare
<1>2. IsList(x) /\ IsList(y)
  BY WindowTokens
<1>. HIDE DEF wa, wb, x, y, diffs
<1>3. same \in Nat
  <2>1. IsFiniteSet(DOMAIN x) /\ IsFiniteSet(DOMAIN y)
    BY <1>2, FS_Interval DEF IsList
  <2>2. IsFiniteSet((DOMAIN x) \X (DOMAIN y))
    BY <2>1, FS_Product
  <2>3. Matching(x, y) \in SUBSET ((DOMAIN x) \X (DOMAIN y))
    BY DEF Matching
  <2>4. IsFiniteSet(Matching(x, y))
    BY <2>2, <2>3, FS_Subset
  <2>. QED
    BY <2>4, FS_CardinalityType
<1>4. size \in Nat
  BY <1>2 DEF IsList
<1>. HIDE DEF same, size
<1>5. (IF size = 0 THEN 10000 ELSE (20000 * same + size \div 2) \div size) \in Int
  BY <1>3, <1>4, SimilarityIsANumber
<1>. DEFINE p == Compared(a, b, same, size, diffs)
<1>6. p.a = a /\ p.b = b /\ p.len = a.to - a.from + 1 /\ p.sim \in Int
  BY <1>5 DEF Compared
<1>. HIDE DEF p
<1>7. p.a.seg = g /\ p.b.seg = h /\ p.a.from = s /\ p.b.from = t /\ p.len = (s + w - 1) - s + 1
  BY <1>6
<1>8. s \in Int /\ t \in Int /\ (s + w - 1) - s + 1 \in Int
  OBVIOUS
<1>. HIDE DEF a, b
<1>9. Comparable(segs, p)
  BY <1>6, <1>7, <1>8 DEF Comparable
<1>. QED
  BY <1>1, <1>9 DEF p

LEMMA NearPairsAreComparable ==
    ASSUME NEW segs, IsProgram(segs), NEW exclude, NEW p \in NearPairs(segs, exclude)
    PROVE  Comparable(segs, p)
<1>1. PICK gh \in Windowed(segs) \X Windowed(segs) : p \in NearBetween(segs, gh[1], gh[2])
  BY DEF NearPairs
<1>. DEFINE g == gh[1]
            h == gh[2]
<1>2. g \in DOMAIN segs /\ h \in DOMAIN segs
  BY DEF Windowed
<1>3. p \in NearBetween(segs, g, h)
  BY <1>1
<1>. HIDE DEF g, h
<1>4. PICK w \in MinNear .. Longest(segs) : \E st \in WindowStarts(segs, g, h, w) : p = Pair(segs, g, st[1], h, st[2], w)
  BY <1>3 DEF NearBetween
<1>5. PICK st \in WindowStarts(segs, g, h, w) : p = Pair(segs, g, st[1], h, st[2], w)
  BY <1>4
<1>6. w \in Nat
  BY NearAssumption
<1>7. st[1] \in 1 .. Len(segs[g].stmts) - w + 1 /\ st[2] \in 1 .. Len(segs[h].stmts) - w + 1
  BY DEF WindowStarts
<1>. QED
  BY <1>2, <1>5, <1>6, <1>7, PairIsComparable

\* Better holds of two pairs one way only, so two segments have one best pair.
LEMMA BestPairsAreFew ==
    ASSUME NEW segs, IsFiniteSet(DOMAIN segs), NEW pairs, \A p \in pairs : Comparable(segs, p)
    PROVE  /\ IsFiniteSet(BestPairs(pairs))
           /\ \A p \in BestPairs(pairs) : Comparable(segs, p)
           /\ \A p, q \in BestPairs(pairs) : SameSegments(p, q) => p = q
<1>. DEFINE B == BestPairs(pairs)
            D == DOMAIN segs
<1>1. B \subseteq pairs /\ \A p, q \in B : p # q /\ SameSegments(p, q) => Better(p, q)
  BY DEF BestPairs
<1>. HIDE DEF B
<1>2. ASSUME NEW p \in B, NEW q \in B, SameSegments(p, q) PROVE p = q
  <2>1. SUFFICES ASSUME p # q PROVE FALSE
    OBVIOUS
  <2>2. SameSegments(q, p)
    BY <1>2 DEF SameSegments
  <2>3. Better(p, q) /\ Better(q, p)
    BY <1>1, <1>2, <2>1, <2>2
  <2>4. Comparable(segs, p) /\ Comparable(segs, q)
    BY <1>1
  <2>. QED
    BY <2>3, <2>4 DEF Better, Comparable
<1>3. \A p \in B : p.a.seg \in D /\ p.b.seg \in D
  BY <1>1 DEF Comparable
<1>. DEFINE ends == [p \in B |-> <<p.a.seg, p.b.seg>>]
<1>. HIDE DEF D
<1>4. ends \in [B -> (D \X D)]
  BY <1>3
<1>5. ASSUME NEW p \in B, NEW q \in B, ends[p] = ends[q] PROVE p = q
  <2>1. SameSegments(p, q)
    BY <1>5 DEF SameSegments
  <2>. QED
    BY <1>2, <2>1
<1>. HIDE DEF ends
<1>6. ends \in Injection(B, D \X D)
  BY <1>4, <1>5 DEF Injection, IsInjective
<1>7. IsFiniteSet(D \X D)
  BY FS_Product DEF D
<1>8. IsFiniteSet(B)
  BY <1>6, <1>7, FS_Injection
<1>. QED
  BY <1>1, <1>2, <1>8 DEF B

\* A finite set whose members come one before the other is listed by rank.
LEMMA RanksListThem ==
    ASSUME NEW P, IsFiniteSet(P),
           \A p, q \in P : p = q \/ Before(p, q) \/ Before(q, p),
           \A p, q \in P : ~(Before(p, q) /\ Before(q, p)),
           \A p, q, r \in P : Before(p, q) /\ Before(q, r) => Before(p, r)
    PROVE  IsList(JoinOrder(P)) /\ Range(JoinOrder(P)) = P
<1>. DEFINE n == Cardinality(P)
            upto(p) == {q \in P : q = p \/ Before(q, p)}
            rank == [p \in P |-> Rank(P, p)]
<1>1. n \in Nat
  BY FS_CardinalityType
<1>2. \A p \in P : rank[p] = Cardinality(upto(p))
  BY DEF Rank
<1>3. \A p \in P : IsFiniteSet(upto(p)) /\ upto(p) \subseteq P /\ p \in upto(p)
  BY FS_Subset
<1>4. ASSUME NEW p \in P, NEW q \in P, Before(p, q) PROVE rank[p] < rank[q]
  <2>1. upto(p) \subseteq upto(q)
    BY <1>4
  <2>2. q \in upto(q) /\ q \notin upto(p)
    BY <1>4
  <2>3. IsFiniteSet(upto(p)) /\ IsFiniteSet(upto(q))
    BY <1>3
  <2>. HIDE DEF upto, rank
  <2>4. Cardinality(upto(p)) < Cardinality(upto(q))
    BY <2>1, <2>2, <2>3, FS_Subset, FS_CardinalityType
  <2>. QED
    BY <1>2, <2>4
<1>5. ASSUME NEW p \in P PROVE rank[p] \in 1 .. n
  <2>1. IsFiniteSet(upto(p)) /\ upto(p) \subseteq P /\ p \in upto(p)
    BY <1>3
  <2>. HIDE DEF upto
  <2>2. Cardinality(upto(p)) \in Nat /\ Cardinality(upto(p)) <= n
    BY <2>1, FS_Subset, FS_CardinalityType
  <2>3. Cardinality(upto(p)) # 0
    BY <2>1, FS_EmptySet
  <2>. HIDE DEF rank
  <2>. QED
    BY <1>1, <1>2, <2>2, <2>3
<1>6. \A p \in P : rank[p] = Rank(P, p)
  OBVIOUS
<1>7. rank \in [P -> 1 .. n]
  <2>1. DOMAIN rank = P /\ rank = [p \in P |-> rank[p]]
    OBVIOUS
  <2>. HIDE DEF rank
  <2>. QED
    BY <1>5, <2>1
<1>. HIDE DEF rank, upto
<1>8. \A p, q \in P : rank[p] = rank[q] => p = q
  <2>1. \A p \in P : rank[p] \in Nat
    BY <1>5
  <2>. QED
    BY <1>4, <2>1
<1>9. rank \in Injection(P, 1 .. n)
  BY <1>7, <1>8 DEF Injection, IsInjective
<1>10. IsFiniteSet(1 .. n) /\ Cardinality(1 .. n) = n
  BY <1>1, FS_Interval
<1>11. rank \in Surjection(P, 1 .. n)
  BY <1>9, <1>10, FS_Injection
<1>12. \A k \in 1 .. n : \E p \in P : rank[p] = k
  BY <1>11 DEF Surjection
<1>. DEFINE list == JoinOrder(P)
<1>13. list = [k \in 1 .. n |-> CHOOSE p \in P : Rank(P, p) = k]
  BY DEF JoinOrder
<1>. HIDE DEF list
<1>14. DOMAIN list = 1 .. n /\ \A k \in 1 .. n : list[k] = CHOOSE p \in P : Rank(P, p) = k
  BY <1>13
<1>15. ASSUME NEW k \in 1 .. n PROVE list[k] \in P /\ rank[list[k]] = k
  <2>1. \E p \in P : Rank(P, p) = k
    BY <1>6, <1>12
  <2>2. list[k] \in P /\ Rank(P, list[k]) = k
    BY <1>14, <2>1
  <2>. QED
    BY <1>6, <2>2
<1>16. ASSUME NEW p \in P PROVE \E k \in 1 .. n : list[k] = p
  <2>1. rank[p] \in 1 .. n
    BY <1>5
  <2>2. list[rank[p]] \in P /\ rank[list[rank[p]]] = rank[p]
    BY <1>15, <2>1
  <2>3. list[rank[p]] = p
    BY <1>8, <2>2
  <2>. QED
    BY <2>1, <2>3
<1>17. IsList(list)
  <2>1. Len(list) = n
    BY <1>1, <1>13
  <2>. HIDE DEF n
  <2>. QED
    BY <1>1, <1>14, <2>1 DEF IsList
<1>18. Range(list) = P
  BY <1>14, <1>15, <1>16 DEF Range
<1>. QED
  BY <1>17, <1>18 DEF list

LEMMA JoinOrderListsPairs ==
    ASSUME NEW segs, NEW P, IsFiniteSet(P), DOMAIN segs \subseteq Int,
           \A p \in P : Comparable(segs, p), \A p, q \in P : SameSegments(p, q) => p = q
    PROVE  Joinable(segs, JoinOrder(P)) /\ Range(JoinOrder(P)) = P
<1>1. \A p \in P : p.a.seg \in Int /\ p.b.seg \in Int /\ p.sim \in Int /\ p.len \in Int
  BY DEF Comparable
<1>2. \A p, q \in P : p = q \/ Before(p, q) \/ Before(q, p)
  BY <1>1 DEF Before, SameSegments
<1>3. \A p, q \in P : ~(Before(p, q) /\ Before(q, p))
  BY <1>1 DEF Before
<1>4. \A p, q, r \in P : Before(p, q) /\ Before(q, r) => Before(p, r)
  BY <1>1 DEF Before
<1>5. IsList(JoinOrder(P)) /\ Range(JoinOrder(P)) = P
  BY <1>2, <1>3, <1>4, RanksListThem
<1>6. \A k \in DOMAIN JoinOrder(P) : JoinOrder(P)[k] \in P
  BY <1>5 DEF Range
<1>7. \A k \in DOMAIN JoinOrder(P) : JoinOrder(P)[k].a.seg \in DOMAIN segs /\ JoinOrder(P)[k].b.seg \in DOMAIN segs
  BY <1>6 DEF Comparable
<1>. QED
  BY <1>5, <1>7 DEF Joinable

LEMMA NearMissesAreComponents ==
    ASSUME NEW segs, IsProgram(segs), NEW exclude
    PROVE  AreComponents(NearMisses(segs, exclude), BestPairs(NearPairs(segs, exclude)))
<1>. DEFINE near == NearPairs(segs, exclude)
            best == BestPairs(near)
            list == JoinOrder(best)
<1>1. \A p \in near : Comparable(segs, p)
  BY NearPairsAreComparable
<1>2. DOMAIN segs \subseteq Int /\ IsFiniteSet(DOMAIN segs)
  <2>1. Len(segs) \in Nat /\ DOMAIN segs = 1 .. Len(segs)
    BY DEF IsProgram
  <2>. QED
    BY <2>1, FS_Interval
<1>. HIDE DEF near
<1>3. IsFiniteSet(best) /\ (\A p \in best : Comparable(segs, p)) /\ \A p, q \in best : SameSegments(p, q) => p = q
  BY <1>1, <1>2, BestPairsAreFew
<1>. HIDE DEF best
<1>4. Joinable(segs, list) /\ Range(list) = best
  BY <1>2, <1>3, JoinOrderListsPairs
<1>. HIDE DEF list
<1>5. AreComponents(NearClasses(segs, list), Range(list))
  BY <1>2, <1>4, ClassesAreComponents
<1>6. NearMisses(segs, exclude) = NearClasses(segs, list)
  BY DEF NearMisses, list, best, near
<1>. QED
  BY <1>4, <1>5, <1>6 DEF best, near

(***************************************************************************)
(* Type III comes last and once, so that what it leaves out is what all    *)
(* the other passes found.                                                 *)
(***************************************************************************)
NearComesLast ==
    /\ phase = "start" => DOMAIN results = {}
    /\ 3 \in DOMAIN results => todo = {}

NearInv == NearComesLast /\ NearComponents

LEMMA NearStays ==
    ASSUME NearInv, results' = results, todo' = todo, ir' = ir \/ DOMAIN results = {}, phase' # "start" \/ phase' = phase
    PROVE  NearInv'
<1>1. NearComesLast'
  BY DEF NearInv, NearComesLast
<1>2. NearComponents'
  BY DEF NearInv, NearComponents
<1>. QED
  BY <1>1, <1>2 DEF NearInv

LEMMA NearWaits ==
    ASSUME CmdInv, NearInv, todo # {}, NEW t \in 1 .. 4, t # 3, NEW classes, Record(t, classes), phase' # "start"
    PROVE  NearInv'
<1>1. 3 \notin DOMAIN results
  BY DEF NearInv, NearComesLast
<1>2. DOMAIN results' = DOMAIN results \cup {t}
  BY Recorded
<1>3. 3 \notin DOMAIN results'
  BY <1>1, <1>2
<1>. QED
  BY <1>3 DEF NearInv, NearComesLast, NearComponents

LEMMA NearIsFound == ASSUME CmdInv, NearInv, DetectNear PROVE NearInv'
<1>1. phase = "detect" /\ todo = {3} /\ Record(3, NearMisses(ir, Excluded)) /\ ir' = ir /\ phase' = phase
  BY DEF DetectNear
<1>2. 3 \notin DOMAIN results
  BY <1>1 DEF NearInv, NearComesLast
<1>. DEFINE near == NearMisses(ir, Excluded)
            excluded == Excluded
<1>3. near = NearMisses(ir, excluded)
  OBVIOUS
<1>4. excluded = UNION {PairsOf(results[t]) : t \in DOMAIN results}
  BY DEF Excluded
<1>. HIDE DEF near, excluded
<1>5. /\ DOMAIN results' = DOMAIN results \cup {3} /\ results'[3] = near
      /\ \A u \in DOMAIN results \ {3} : results'[u] = results[u]
      /\ todo' = todo \ {3}
  <2>1. 3 \in 1 .. 4 /\ Record(3, near)
    BY <1>1 DEF near
  <2>. QED
    BY <2>1, Recorded
<1>6. AreComponents(near, BestPairs(NearPairs(ir, excluded)))
  <2>1. IsProgram(ir)
    BY DEF CmdInv, CmdTypeOK
  <2>. QED
    BY <1>3, <2>1, NearMissesAreComponents
<1>7. {PairsOf(results'[t]) : t \in DOMAIN results' \ {3}} = {PairsOf(results[t]) : t \in DOMAIN results}
  <2>1. DOMAIN results' \ {3} = DOMAIN results
    BY <1>2, <1>5
  <2>2. \A u \in DOMAIN results : results'[u] = results[u]
    BY <1>2, <1>5
  <2>. QED
    BY <2>1, <2>2
<1>8. NearComponents'
  BY <1>1, <1>4, <1>5, <1>6, <1>7 DEF NearComponents
<1>9. NearComesLast'
  BY <1>1, <1>5 DEF NearComesLast
<1>. QED
  BY <1>8, <1>9 DEF NearInv

(***************************************************************************)
(* The classes of type III in the results of every command are the         *)
(* connected components of the best near-miss pairs among the segments no  *)
(* other pass has paired, for all programs and whatever the order the      *)
(* union-find takes the pairs in (detect_type3, detect_all).               *)
(***************************************************************************)
THEOREM NearMissesAreJoined == CmdSpec => []NearComponents
<1>1. CmdInit => NearInv
  BY DEF CmdInit, NearInv, NearComesLast, NearComponents
<1>2. NearInv /\ CmdInv /\ CmdInv' /\ [CmdNext]_vars => NearInv'
  <2>. SUFFICES ASSUME NearInv, CmdInv, CmdInv', [CmdNext]_vars PROVE NearInv'
    OBVIOUS
  <2>1. CASE ParseFiles
    <3>1. phase = "start" /\ results' = results /\ todo' = todo /\ phase' # "start"
      BY <2>1 DEF ParseFiles
    <3>2. DOMAIN results = {}
      BY <3>1 DEF NearInv, NearComesLast
    <3>. QED
      BY <3>1, <3>2, NearStays
  <2>2. CASE StartScan \/ WriteReport
    <3>1. results' = results /\ todo' = todo /\ ir' = ir /\ phase' # "start"
      BY <2>2 DEF StartScan, WriteReport
    <3>. QED
      BY <3>1, NearStays
  <2>3. CASE Scan \/ UNCHANGED vars
    <3>1. results' = results /\ todo' = todo /\ ir' = ir /\ phase' = phase
      BY <2>3 DEF Scan, vars, cmdVars
    <3>. QED
      BY <3>1, NearStays
  <2>4. CASE Classify
    <3>. DEFINE classes == Classes(flat, found, running = 2, Case.maximal, Case.overlaps)
    <3>1. phase = "scan" /\ Record(running, classes) /\ phase' # "start"
      BY <2>4 DEF Classify
    <3>. HIDE DEF classes
    <3>2. running \in Coming
      BY <3>1 DEF CmdInv, PassesInOrder
    <3>3. running \in 1 .. 4 /\ running # 3 /\ todo # {}
      BY <3>2 DEF Coming
    <3>. QED
      BY <3>1, <3>3, NearWaits
  <2>5. CASE DetectSemantic
    <3>. DEFINE classes == Semantic(ir)
    <3>1. phase = "detect" /\ todo # {} /\ Record(4, classes) /\ phase' # "start"
      BY <2>5 DEF DetectSemantic
    <3>. HIDE DEF classes
    <3>. QED
      BY <3>1, NearWaits
  <2>6. CASE DetectNear
    BY <2>6, NearIsFound
  <2>. QED
    BY <2>1, <2>2, <2>3, <2>4, <2>5, <2>6 DEF CmdNext
<1>3. NearInv => NearComponents
  BY DEF NearInv
<1>. QED
  BY <1>1, <1>2, <1>3, CmdInvariant, PTL DEF CmdSpec
=============================================================================
