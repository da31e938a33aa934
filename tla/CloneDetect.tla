---------------------------- MODULE CloneDetect ----------------------------
(***************************************************************************)
(* Clone detection as the detect command runs it (cdup/src/cli/cmds.py,    *)
(* cdup/src/detect.py): the source files are parsed and merged, types I    *)
(* and II come from the scan of CloneScan, type IV from fingerprints and   *)
(* type III from similar windows of what the others left; the report drops *)
(* what type I has already.  The matrix and the data-flow graph of the     *)
(* merged program are those of ProgramGraph.                               *)
(*                                                                         *)
(* A statement is [kind, toks, l, r, lits].  A token is <<class, text, n>>:*)
(* an identifier ("id"; n = 1 in capitals), a word C keeps ("c") or only   *)
(* Java keeps ("java"), a literal ("num", "str"), an operator ("op") or    *)
(* the {} a child segment was cut out of ("hole").                         *)
(***************************************************************************)
EXTENDS CloneScan, ProgramGraph

CONSTANTS Cases,       \* name -> [files, types, maximal, overlaps]
          MinNear,     \* statements of the shortest near-miss window
          Threshold    \* its least similarity, in per cent

ASSUME CasesAssumption ==
    \A c \in DOMAIN Cases :
        /\ Cases[c].types \subseteq 1 .. 4
        /\ Cases[c].maximal \in BOOLEAN /\ Cases[c].overlaps \in BOOLEAN
        /\ Cases[c].files \in Seq(Range(Cases[c].files))
        /\ \A k \in DOMAIN Cases[c].files : IsProgram(Cases[c].files[k].segs)

ASSUME NearAssumption == MinNear \in Nat /\ Threshold \in Nat

VARIABLES pick, order, ir, graph, todo, running, results, report, phase

cmdVars == <<pick, order, ir, graph, todo, running, results, report, phase>>

vars == <<scanVars, cmdVars>>

Case == Cases[pick]

(***************************************************************************)
(* Normalised statements.  Type I lower-cases; type II names identifiers   *)
(* by their first appearance and forgets literals.  Words of Java are      *)
(* identifiers to it: the table it consults is that of C.                  *)
(***************************************************************************)
Hole == <<"hole", "", 0>>

Renamed(toks) ==
    LET IsName(i) == toks[i][1] \in {"id", "java"}
        Names(k)  == {toks[i] : i \in {j \in 1 .. k : IsName(j)}}
        First(i)  == Min({j \in 1 .. i : toks[j] = toks[i]})
    IN  [i \in DOMAIN toks |->
            IF IsName(i) THEN <<"var", "", Cardinality(Names(First(i) - 1))>>
            ELSE IF toks[i][1] \in {"num", "str"} THEN <<toks[i][1], "", 0>>
            ELSE toks[i]]

Lowered(toks) == [i \in DOMAIN toks |-> <<toks[i][1], toks[i][2], 0>>]

Normal(toks, two) == IF two THEN Renamed(toks) ELSE Lowered(toks)

HolesIn(toks) == Cardinality({i \in DOMAIN toks : toks[i] = Hole})

(***************************************************************************)
(* The holes of a segment are filled with the types of its children, one   *)
(* after the other.  Block types are numbered by the hash of a segment's   *)
(* normalised text; here the text itself stands for the number.  deep      *)
(* tells which texts make the types, two which text the statement gets.    *)
(***************************************************************************)
HolesBefore(segs, g, i) == FoldLeft(LAMBDA n, st : n + HolesIn(st.toks), 0, SubSeq(segs[g].stmts, 1, i - 1))

Filled(segs, g, i, two, types) ==
    LET toks  == segs[g].stmts[i].toks
        kids  == Children(segs, g)
        Nth(k) == HolesBefore(segs, g, i) + HolesIn(SubSeq(toks, 1, k))
    IN  [k \in DOMAIN toks |-> IF toks[k] = Hole /\ Nth(k) \in DOMAIN kids
                               THEN <<"block", types[kids[Nth(k)]], 0>>
                               ELSE Normal(toks, two)[k]]

BlockTypes(segs, two) ==
    LET types[g \in DOMAIN segs] == FlattenSeq([i \in DOMAIN segs[g].stmts |-> Filled(segs, g, i, two, types)])
    IN  types

\* The statements of all segments, each segment closed by a separator.
Separator == [seg |-> 0, stmt |-> 0, norm |-> <<>>, norm1 |-> <<>>]

FlatOf(segs, two) ==
    LET types       == BlockTypes(segs, two)
        Entry(g, i) == [seg |-> g, stmt |-> i, norm |-> Filled(segs, g, i, two, types),
                        norm1 |-> Filled(segs, g, i, FALSE, types)]
    IN  FlattenSeq([g \in DOMAIN segs |-> Append([i \in DOMAIN segs[g].stmts |-> Entry(g, i)], Separator)])

(***************************************************************************)
(* Classes.  An occurrence is a range of statements of a segment.          *)
(***************************************************************************)
Occurrence(f, start, len) == [seg |-> f[start].seg, from |-> f[start].stmt, to |-> f[start + len - 1].stmt]

TextOf(f, p) == [k \in 1 .. p.len |-> f[p.a + k - 1].norm]

Class(type, text, occs) == [type |-> type, len |-> Len(text), text |-> text, occs |-> occs]

SameContent(f, pairs, text) ==
    UNION {{Occurrence(f, p.a, p.len), Occurrence(f, p.b, p.len)} : p \in {q \in pairs : TextOf(f, q) = text}}

Grouped(type, f, pairs) ==
    {Class(type, text, SameContent(f, pairs, text)) : text \in {TextOf(f, p) : p \in pairs}}

\* norm1 of an occurrence.
ExactText(f, occ) ==
    LET inside == {i \in DOMAIN f : f[i].seg = occ.seg /\ f[i].stmt \in occ.from .. occ.to}
    IN  [k \in 1 .. Cardinality(inside) |-> f[Min(inside) + k - 1].norm1]

\* The type I classes inside the type II classes.
Embedded(f, classes) ==
    LET Exact(c, text) == {o \in c.occs : ExactText(f, o) = text}
        Pairs == {p \in classes \X {ExactText(f, o) : o \in UNION {c.occs : c \in classes}} :
                      Cardinality(Exact(p[1], p[2])) >= 2}
    IN  {Class("I", text, UNION {Exact(p[1], text) : p \in {q \in Pairs : q[2] = text}}) : text \in {p[2] : p \in Pairs}}

Inside(o, e) == o.seg = e.seg /\ e.from <= o.from /\ o.to <= e.to

Occurrences(classes) == UNION {c.occs : c \in classes}

\* Mutant: one covered occurrence is enough.
CoveredByOne(c, kept) ==
    LET eligible == Occurrences({k \in kept : c.type = "I" => k.type = "I"})
    IN  \E o \in c.occs : \E e \in eligible : Inside(o, e)

Covered(c, kept) ==
    LET eligible == Occurrences({k \in kept : c.type = "I" => k.type = "I"})
    IN  \A o \in c.occs : \E e \in eligible : Inside(o, e)

(***************************************************************************)
(* The maximal filter: from the longest class down, type I first, a class  *)
(* is dropped when every occurrence lies inside one of a class already     *)
(* kept; for type I only type I counts.                                    *)
(***************************************************************************)
Keep(classes, kept, len, type) == kept \cup {c \in classes : c.len = len /\ c.type = type /\ ~Covered(c, kept)}

LongestOf(classes) == Max({c.len : c \in classes} \cup {0})

\* The classes kept of those that have at least the length longest - k + 1.
Kept(classes) ==
    LET longest == LongestOf(classes)
        upto[k \in 0 .. longest] ==
            IF k = 0 THEN {}
            ELSE Keep(classes, Keep(classes, upto[k - 1], longest - k + 1, "I"), longest - k + 1, "II")
    IN  upto

Maximal(classes) == Kept(classes)[LongestOf(classes)]

Overlap(o, e) == o # e /\ o.from <= e.to /\ e.from <= o.to

OverlapsItself(c) ==
    /\ Cardinality({o.seg : o \in c.occs}) = 1
    /\ \E o, e \in c.occs : Overlap(o, e)

\* All classes of a pass, before the filters.
AllClasses(f, pairs, two) ==
    IF two THEN Grouped("II", f, pairs) \cup Embedded(f, Grouped("II", f, pairs)) ELSE Grouped("I", f, pairs)

Large(classes, maximal) == IF maximal THEN Maximal(classes) ELSE classes

Classes(f, pairs, two, maximal, overlaps) ==
    LET large == Large(AllClasses(f, pairs, two), maximal)
    IN  IF overlaps THEN {c \in large : ~OverlapsItself(c)} ELSE large

(***************************************************************************)
(* Type IV: functions of the same fingerprint.  Kinds of statements the    *)
(* parser gives but the table does not have are all "X", and only the      *)
(* types of the function's own children are part of the signature.         *)
(***************************************************************************)
AbstractKind(kind) ==
    CASE kind = "assign" -> "A" [] kind = "decl" -> "D" [] kind = "call" -> "K" [] OTHER -> "X"

Shape(segs, g, shapes) ==
    LET stmts == segs[g].stmts
        kids  == Children(segs, g)
        HasHole(i) == HolesIn(stmts[i].toks) > 0
        Nth(i)     == Cardinality({j \in 1 .. i : HasHole(j)})
    IN  [i \in DOMAIN stmts |-> IF HasHole(i) /\ Nth(i) \in DOMAIN kids
                                THEN <<AbstractKind(stmts[i].kind), shapes[kids[Nth(i)]]>>
                                ELSE <<AbstractKind(stmts[i].kind)>>]

Fingerprints(segs) ==
    LET shapes[g \in DOMAIN segs] == Shape(segs, g, shapes)
    IN  shapes

Signature(segs, g) ==
    LET stmts == segs[g].stmts
        kids  == Children(segs, g)
    IN  [shape |-> Fingerprints(segs)[g],
         flow  |-> [i \in DOMAIN stmts |-> <<Len(stmts[i].r), stmts[i].l # <<>>>>],
         below |-> [k \in DOMAIN kids |-> segs[kids[k]].type]]

Whole(segs, g) == [seg |-> g, from |-> 1, to |-> Len(segs[g].stmts)]

Semantic(segs) ==
    LET functions == {g \in DOMAIN segs : segs[g].type = "function" /\ Len(segs[g].stmts) >= MinLength}
        Like(g)   == {h \in functions : Signature(segs, h) = Signature(segs, g)}
    IN  {[type |-> "IV", occs |-> {Whole(segs, h) : h \in Like(g)}] : g \in {h \in functions : Cardinality(Like(h)) >= 2}}

(***************************************************************************)
(* difflib's SequenceMatcher: the longest common block, the first of that  *)
(* length in a and then in b, and the same again on either side of it.     *)
(***************************************************************************)
LongestBlock(a, alo, ahi, b, blo, bhi) ==
    LET RunFrom(i, j) == {n \in 1 .. Min({ahi - i, bhi - j}) : \A k \in 0 .. n - 1 : a[i + k] = b[j + k]}
        starts  == {s \in (alo .. ahi - 1) \X (blo .. bhi - 1) : a[s[1]] = b[s[2]]}
        longest == Max({Cardinality(RunFrom(s[1], s[2])) : s \in starts})
        best    == {s \in starts : Cardinality(RunFrom(s[1], s[2])) = longest}
        i       == Min({s[1] : s \in best})
        j       == Min({s[2] : s \in {t \in best : t[1] = i}})
    IN  IF starts = {} THEN [i |-> ahi, j |-> bhi, len |-> 0] ELSE [i |-> i, j |-> j, len |-> longest]

Blocks(a, b) ==
    LET common[alo \in Nat, ahi \in Nat, blo \in Nat, bhi \in Nat] ==
            LET m == LongestBlock(a, alo, ahi, b, blo, bhi)
            IN  IF m.len = 0 THEN {}
                ELSE {<<m.i + k, m.j + k>> : k \in 0 .. m.len - 1}
                        \cup common[alo, m.i, blo, m.j] \cup common[m.i + m.len, ahi, m.j + m.len, bhi]
    IN  common[1, Len(a) + 1, 1, Len(b) + 1]

\* The places they match (the blocks name no others).
Matching(a, b) == Blocks(a, b) \cap ((DOMAIN a) \X (DOMAIN b))

(***************************************************************************)
(* Type III: pairs of windows of functions, classes or roots that are      *)
(* similar but not equal, over the type II texts.  The code compares their *)
(* characters; here a token is one.                                        *)
(***************************************************************************)
Newline == <<"nl", "", 0>>

Joined(texts) ==
    FlattenSeq([i \in DOMAIN texts |-> IF i = Len(texts) THEN texts[i] ELSE Append(texts[i], Newline)])

Window(segs, g, from, w) == [i \in 1 .. w |-> Filled(segs, g, from + i - 1, TRUE, BlockTypes(segs, TRUE))]

\* same: tokens in common; size: tokens of both windows.
Compared(a, b, same, size, diffs) ==
    [a |-> a, b |-> b, len |-> a.to - a.from + 1,
     sim   |-> IF size = 0 THEN 10000 ELSE (20000 * same + size \div 2) \div size,
     near  |-> 200 * same >= Threshold * size /\ 2 * same < size,
     diffs |-> diffs]

Compare(a, b, wa, wb) ==
    Compared(a, b, Cardinality(Matching(Joined(wa), Joined(wb))), Len(Joined(wa)) + Len(Joined(wb)),
             Len(wa) - Cardinality(Matching(wa, wb)))

Pair(segs, g, s, h, t, w) ==
    Compare([seg |-> g, from |-> s, to |-> s + w - 1], [seg |-> h, from |-> t, to |-> t + w - 1],
            Window(segs, g, s, w), Window(segs, h, t, w))

Windowed(segs) ==
    {g \in DOMAIN segs : segs[g].type \in {"function", "root", "class"} /\ Len(segs[g].stmts) >= MinNear}

Longest(segs) == Min({10, Max({Len(segs[g].stmts) : g \in DOMAIN segs})})

\* Windows of one segment must not overlap; the first stands before the second.
WindowStarts(segs, g, h, w) ==
    {st \in (1 .. Len(segs[g].stmts) - w + 1) \X (1 .. Len(segs[h].stmts) - w + 1) : g = h => st[1] + w <= st[2]}

NearBetween(segs, g, h) ==
    UNION {{p \in {Pair(segs, g, st[1], h, st[2], w) : st \in WindowStarts(segs, g, h, w)} : p.near} :
              w \in MinNear .. Longest(segs)}

NearPairs(segs, exclude) ==
    UNION {NearBetween(segs, gh[1], gh[2]) :
              gh \in {x \in Windowed(segs) \X Windowed(segs) : x[1] <= x[2] /\ {x[1], x[2]} \notin exclude}}

\* The order of the pairs of two segments: longer, more similar, found earlier.
Better(p, q) ==
    \/ p.len > q.len
    \/ p.len = q.len /\ p.sim > q.sim
    \/ p.len = q.len /\ p.sim = q.sim /\ p.a.from < q.a.from
    \/ p.len = q.len /\ p.sim = q.sim /\ p.a.from = q.a.from /\ p.b.from < q.b.from

SameSegments(p, q) == p.a.seg = q.a.seg /\ p.b.seg = q.b.seg

\* The best pair of any two segments, unless more than half of it differs.
BestPairs(pairs) ==
    {p \in pairs : /\ \A q \in pairs \ {p} : SameSegments(p, q) => Better(p, q)
                   /\ 2 * p.diffs <= p.len}

(***************************************************************************)
(* The union-find over the segments of the pairs.  That find shortens the  *)
(* ways it takes changes no root and is left out.                          *)
(***************************************************************************)
Find(parent, x) ==
    LET root[y \in DOMAIN parent] == IF parent[y] = y THEN y ELSE root[parent[y]]
    IN  root[x]

\* Mutant: the segments are joined, not their roots.
UnionOfEnds(parent, x, y) == [parent EXCEPT ![x] = y]

Union(parent, x, y) == [parent EXCEPT ![Find(parent, x)] = Find(parent, y)]

\* The pairs in the order they are joined in: most similar first.
Before(p, q) ==
    \/ p.sim > q.sim
    \/ p.sim = q.sim /\ p.len > q.len
    \/ p.sim = q.sim /\ p.len = q.len /\ p.a.seg < q.a.seg
    \/ p.sim = q.sim /\ p.len = q.len /\ p.a.seg = q.a.seg /\ p.b.seg < q.b.seg

Rank(pairs, p) == Cardinality({q \in pairs : q = p \/ Before(q, p)})

JoinOrder(pairs) == [k \in 1 .. Cardinality(pairs) |-> CHOOSE p \in pairs : Rank(pairs, p) = k]

PairSegs(p) == {p.a.seg, p.b.seg}

\* A segment's place comes from the first, most similar, pair that has it; a
\* class needs two segments.
Place(pairs, g) ==
    LET first == pairs[Min({i \in DOMAIN pairs : g \in PairSegs(pairs[i])})]
    IN  IF first.a.seg = g THEN first.a ELSE first.b

\* The forest when the pairs are joined.
Forest(segs, pairs) ==
    LET upto[k \in 0 .. Len(pairs)] ==
            IF k = 0 THEN [g \in DOMAIN segs |-> g] ELSE Union(upto[k - 1], pairs[k].a.seg, pairs[k].b.seg)
    IN  upto[Len(pairs)]

NearClasses(segs, pairs) ==
    LET joined == Forest(segs, pairs)
        used   == UNION {PairSegs(p) : p \in Range(pairs)}
        Members(root) == {g \in used : Find(joined, g) = root}
    IN  {[type |-> "III", occs |-> {Place(pairs, g) : g \in Members(root)}] :
            root \in {r \in DOMAIN segs : Cardinality(Members(r)) >= 2}}

NearMisses(segs, exclude) == NearClasses(segs, JoinOrder(BestPairs(NearPairs(segs, exclude))))

\* The pairs of segments other classes have: type III leaves them alone.
PairsOf(classes) ==
    UNION {{{oe[1].seg, oe[2].seg} : oe \in {x \in c.occs \X c.occs : x[1] # x[2]}} : c \in classes}

(***************************************************************************)
(* Merging: the segments of the files in a row, parents moved along.       *)
(* Scopes and slots keep their names.                                      *)
(***************************************************************************)
\* Mutant: parents stay where they were.
MovedAlone(files, n, offset) ==
    LET segs == files[n].segs
    IN  [g \in DOMAIN segs |-> [segs[g] EXCEPT !.file = n]]

Moved(files, n, offset) ==
    LET segs == files[n].segs
    IN  [g \in DOMAIN segs |-> [segs[g] EXCEPT !.parent = @ + offset, !.file = n]]

MergeFiles(files, ord) ==
    LET merged[k \in 0 .. Len(ord)] == IF k = 0 THEN <<>> ELSE merged[k - 1] \o Moved(files, ord[k], Len(merged[k - 1]))
    IN  merged[Len(ord)]

WithEdges(nodes) == [nodes |-> nodes, edges |-> BuildEdges(nodes)]

GraphOf(segs) == WithEdges(BuildNodes(segs, BuildMatrix(segs)))

NoGraph == [nodes |-> <<>>, edges |-> {}]

CmdInit ==
    /\ pick \in DOMAIN Cases
    /\ order = <<>> /\ ir = <<>> /\ graph = NoGraph
    /\ todo = Case.types
    /\ running = 0
    /\ results = [t \in {} |-> {}]
    /\ report = {}
    /\ phase = "start"
    /\ flat = <<>> /\ pos = 1 /\ active = [o \in {} |-> 0] /\ found = {}

(***************************************************************************)
(* The files come in the order the directory walk has them; one that       *)
(* cannot be read or parsed is skipped, and without any the command exits. *)
(***************************************************************************)
ParseFiles ==
    /\ phase = "start"
    /\ \E parsed \in SUBSET DOMAIN Case.files :
         \E ord \in SetToSeqs(parsed) :
            /\ order' = ord
            /\ ir' = MergeFiles(Case.files, ord)
            /\ graph' = GraphOf(ir')
            /\ phase' = IF parsed = {} THEN "exit" ELSE "detect"
    /\ UNCHANGED <<pick, todo, running, results, report, scanVars>>

\* Types I, II and IV come in this order; III waits for them.
Next124 == Min(todo \ {3})

StartScan ==
    /\ phase = "detect" /\ todo \ {3} # {} /\ Next124 \in {1, 2}
    /\ Load(FlatOf(ir, Next124 = 2))
    /\ running' = Next124
    /\ phase' = "scan"
    /\ UNCHANGED <<pick, order, ir, graph, todo, results, report>>

Scan ==
    /\ phase = "scan"
    /\ ScanStatement \/ ScanSeparator \/ EndScan
    /\ UNCHANGED cmdVars

Record(t, classes) ==
    /\ results' = [u \in DOMAIN results \cup {t} |-> IF u = t THEN classes ELSE results[u]]
    /\ todo' = todo \ {t}

Classify ==
    /\ phase = "scan" /\ ScanDone
    /\ Record(running, Classes(flat, found, running = 2, Case.maximal, Case.overlaps))
    /\ running' = 0
    /\ phase' = "detect"
    /\ UNCHANGED <<pick, order, ir, graph, report, scanVars>>

DetectSemantic ==
    /\ phase = "detect" /\ todo \ {3} # {} /\ Next124 = 4
    /\ Record(4, Semantic(ir))
    /\ UNCHANGED <<pick, order, ir, graph, running, report, phase, scanVars>>

Excluded == UNION {PairsOf(results[t]) : t \in DOMAIN results}

DetectNear ==
    /\ phase = "detect" /\ todo = {3}
    /\ Record(3, NearMisses(ir, Excluded))
    /\ UNCHANGED <<pick, order, ir, graph, running, report, phase, scanVars>>

\* Mutant: they stay.
ReportedTwice(res) == UNION {{[pass |-> t, type |-> c.type, occs |-> c.occs] : c \in res[t]} : t \in DOMAIN res}

\* Of type II's results those with the occurrences of a type I class go.
Reported(res) ==
    LET exact == IF 1 \in DOMAIN res THEN {c.occs : c \in res[1]} ELSE {}
    IN  UNION {{[pass |-> t, type |-> c.type, occs |-> c.occs] : c \in {d \in res[t] : t # 2 \/ d.occs \notin exact}} :
                  t \in DOMAIN res}

WriteReport ==
    /\ phase = "detect" /\ todo = {}
    /\ report' = Reported(results)
    /\ phase' = "done"
    /\ UNCHANGED <<pick, order, ir, graph, todo, running, results, scanVars>>

CmdNext ==
    \/ ParseFiles \/ StartScan \/ Scan \/ Classify
    \/ DetectSemantic \/ DetectNear \/ WriteReport

CmdSpec == CmdInit /\ [][CmdNext]_vars

(***************************************************************************)
(* The edges of the merged program's graph come from latest writes and     *)
(* from nothing else (build_dag's pass over the nodes): a read takes the   *)
(* latest write of its slot before it, and the phi behind an if takes from *)
(* every arm that writes it the last such write of the arm, although the   *)
(* pass sees the arms one after the other (last_write_by_scope).           *)
(***************************************************************************)
EdgesAreLatest ==
    /\ GraphReadsLatest(graph.nodes, graph.edges)
    /\ GraphJoinsArms(graph.nodes, graph.edges)

(***************************************************************************)
(* What the order of the nodes must give the pass: an arm has no write of  *)
(* a slot after the phi behind it; the loop's phi has one back edge, from  *)
(* the last write of the loop and all it contains where a statement makes  *)
(* it, found by comparing scopes as text; and whoever reads a              *)
(* parameter or a constant has an edge for it: its entry node stands       *)
(* before every reader, wherever the rows of the segments went             *)
(* (_make_entry_node: "so that every downstream read in the DAG has a      *)
(* traceable source").                                                     *)
(***************************************************************************)
GraphIsWhole ==
    /\ GraphArmsComeFirst(graph.nodes)
    /\ GraphClosesLoops(ir, graph.nodes, graph.edges)
    /\ GraphHasSources(ir, graph.nodes, graph.edges)

(***************************************************************************)
(* The command scans as CloneScan says: each type starts a new scan of the *)
(* whole program, and nothing but the scan touches its state.              *)
(***************************************************************************)
CommandScans == [][ScanStatement \/ ScanSeparator \/ EndScan \/ Load(flat')]_scanVars

(***************************************************************************)
(* Every run of clones the scan found lies, with both its ends, in a class *)
(* of the result or in one that the filter for overlaps is there to drop,  *)
(* a repetition within one segment: the maximal filter drops a clone only  *)
(* for another that holds it.                                              *)
(***************************************************************************)
LastPass == Max(DOMAIN results \cap {1, 2})

FoundClasses == AllClasses(flat, found, LastPass = 2)

Repetitions == IF Case.overlaps THEN {c \in FoundClasses : OverlapsItself(c)} ELSE {}

NothingIsLost ==
    (phase = "detect" /\ ScanDone) =>
        \A p \in found, start \in {"a", "b"} :
            \E o \in Occurrences(results[LastPass] \cup Repetitions) : Inside(Occurrence(flat, p[start], p.len), o)

(***************************************************************************)
(* No two classes of the types I and II have the same occurrences, though  *)
(* both passes find the exact clones.                                      *)
(***************************************************************************)
NoClassTwice ==
    Case.maximal => \A c, d \in {e \in report : e.pass \in {1, 2}} : c # d => c.occs # d.occs

(***************************************************************************)
(* What cmd_detect reports of the types I and II shows nothing twice and   *)
(* lacks no clone but those inside a repetition that the filter for        *)
(* overlaps drops.                                                         *)
(***************************************************************************)
ClassesAreComplete == NothingIsLost /\ NoClassTwice

(***************************************************************************)
(* The clones of a program do not depend on the order in which the         *)
(* directory walk has its files (types I, II and IV; the similarity of     *)
(* type III is not symmetric).                                             *)
(***************************************************************************)
RunsOf(f) ==
    LET Often(norm) == MaxFreq > 0 /\ Cardinality({k \in DOMAIN f : f[k].seg # 0 /\ f[k].norm = norm}) > MaxFreq
        Like(i, j)  == /\ i \in DOMAIN f /\ j \in DOMAIN f /\ f[i].seg # 0 /\ f[j].seg # 0
                       /\ f[i].norm = f[j].norm /\ ~Often(f[i].norm)
        Starts == {s \in (DOMAIN f) \X (DOMAIN f) : s[1] < s[2] /\ Like(s[1], s[2]) /\ ~Like(s[1] - 1, s[2] - 1)}
        Length(i, j) == Min({n \in 1 .. Len(f) : ~Like(i + n, j + n)})
    IN  {r \in {[a |-> s[1], b |-> s[2], len |-> Length(s[1], s[2])] : s \in Starts} : r.len >= MinLength}

ResultOf(segs, t) ==
    LET f == FlatOf(segs, t = 2)
    IN  IF t = 4 THEN Semantic(segs) ELSE Classes(f, RunsOf(f), t = 2, Case.maximal, Case.overlaps)

\* A segment by its file and its number there.
Home(segs, g) == <<segs[g].file, Cardinality({h \in 1 .. g : segs[h].file = segs[g].file})>>

AtHome(segs, classes) ==
    {[type |-> c.type, occs |-> {[o EXCEPT !.seg = Home(segs, @)] : o \in c.occs}] : c \in classes}

Sorted(ord) == SortSeq(ord, <)

OrderDoesNotMatter ==
    phase = "done" =>
        LET other == MergeFiles(Case.files, Sorted(order))
        IN  \A t \in DOMAIN results \ {3} : AtHome(ir, results[t]) = AtHome(other, ResultOf(other, t))

(***************************************************************************)
(* The classes of type III are the connected components of the best pairs, *)
(* in whatever order the union-find of detect_type3 joined them.           *)
(***************************************************************************)
Linked(pairs, g) == (UNION {PairSegs(p) : p \in {q \in pairs : g \in PairSegs(q)}}) \ {g}

SegsOf(c) == {o.seg : o \in c.occs}

AreComponents(classes, pairs) ==
    /\ \A p \in pairs : p.a.seg # p.b.seg => \E c \in classes : PairSegs(p) \subseteq SegsOf(c)
    /\ \A c \in classes :
          /\ Cardinality(SegsOf(c)) = Cardinality(c.occs)
          /\ \A part \in (SUBSET SegsOf(c)) \ {{}, SegsOf(c)} : \E g \in part : Linked(pairs, g) \ part # {}

NearComponents ==
    3 \in DOMAIN results =>
        AreComponents(results[3],
                      BestPairs(NearPairs(ir, UNION {PairsOf(results[t]) : t \in DOMAIN results \ {3}})))
=============================================================================
