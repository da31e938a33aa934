---------------------------- MODULE ProgramGraph ----------------------------
(***************************************************************************)
(* The dependency matrix (cdup/src/matrix.py) and the data-flow graph      *)
(* (cdup/src/dag.py) of a parsed program.                                  *)
(*                                                                         *)
(* A program is a sequence of segments; a segment's number is its place,   *)
(* and a root is its own parent.  Scopes and scoped slot names are         *)
(* sequences of components; a component is a sequence of its own, so that  *)
(* <<"loop", 1>> is a textual prefix of <<"loop", 1, 0>>.  The parser gives *)
(* an array element by the name of its array.  Expression trees and the    *)
(* texts of rows are left out.                                             *)
(***************************************************************************)
EXTENDS Integers, Sequences, FiniteSets, SequencesExt

\* Braces open before those inside them: a parent's number is not higher.
IsProgram(segs) ==
    /\ segs \in Seq(Range(segs))
    /\ \A g \in DOMAIN segs :
          /\ DOMAIN segs[g] = {"type", "parent", "scope", "memory", "stmts", "constants", "file"}
          /\ segs[g].parent \in 1 .. g
          /\ \A part \in {"memory", "stmts", "constants"} : segs[g][part] \in Seq(Range(segs[g][part]))
          /\ \A i \in DOMAIN segs[g].stmts : segs[g].stmts[i].toks \in Seq(Range(segs[g].stmts[i].toks))

Parent(segs, g) == segs[g].parent

IsRoot(segs, g) == Parent(segs, g) = g

\* A finite set of numbers as a sequence: the k-th has k of them up to it.
Ascending(S) == [k \in 1 .. Cardinality(S) |-> CHOOSE x \in S : Cardinality({y \in S : y <= x}) = k]

\* _build_children: the child segments in the order of their numbers.
Children(segs, g) == Ascending({c \in DOMAIN segs : Parent(segs, c) = g /\ c # g})

\* _all_scoped_slots: variables and constants of all segments.
Slots(segs) ==
    UNION {{segs[g].memory[i].name : i \in DOMAIN segs[g].memory} \cup Range(segs[g].constants) : g \in DOMAIN segs}

(***************************************************************************)
(* _resolve_slot: the innermost scope first, then outwards; <<>> when no   *)
(* scope has the name.                                                     *)
(***************************************************************************)
Visible(scope, n, slots) == {d \in 1 .. Len(scope) : SubSeq(scope, 1, d) \o n \in slots}

Resolve(scope, n, slots) ==
    LET depths == Visible(scope, n, slots)
    IN  IF n = <<>> \/ depths = {} THEN <<>>
        ELSE SubSeq(scope, 1, Max(depths)) \o n

\* The fields of a struct variable of this very scope.
Fields(scope, name, slots) ==
    {s \in slots : Len(s) = Len(scope) + Len(name) + 1 /\ IsPrefix(scope \o name, s)}

\* A struct that is declared: the fields found from the innermost scope that
\* has any.
DeclaredFields(scope, name, slots) ==
    LET Under(d) == {s \in slots : IsStrictPrefix(SubSeq(scope, 1, d) \o name, s)}
        depths   == {d \in 1 .. Len(scope) : Under(d) # {}}
    IN  IF depths = {} THEN {} ELSE Under(Max(depths))

(***************************************************************************)
(* Rows.  reads and writes are sets of slots; the reads of a branch phi    *)
(* are scopes.                                                             *)
(***************************************************************************)
None == 0       \* no segment (phi rows of branches)

Row(kind, g, scope, reads, writes, decls, note) ==
    [kind |-> kind, seg |-> g, scope |-> scope, reads |-> reads, writes |-> writes, decls |-> decls, note |-> note]

SlotOf(name, scope, slots) == {Resolve(scope, name, slots)} \ {<<>>}

\* A name that is no slot of its own may be a struct: its fields are read.
ReadOf(name, scope, slots) ==
    IF SlotOf(name, scope, slots) = {} THEN Fields(scope, name, slots) ELSE SlotOf(name, scope, slots)

ReadsOf(st, scope, slots) ==
    UNION ({ReadOf(name, scope, slots) : name \in Range(st.r)} \cup {SlotOf(c, scope, slots) : c \in st.lits})

DeclaredOf(st, scope, slots) ==
    IF st.l # <<>> /\ SlotOf(st.l, scope, slots) = {}
    THEN DeclaredFields(scope, st.l, slots) ELSE SlotOf(st.l, scope, slots)

RowOf(kind, g, scope, reads, target, declared) ==
    CASE kind = "decl"      -> Row(kind, g, scope, reads, declared, declared, "")
      [] kind = "assign"    -> Row(kind, g, scope, reads, target, {}, "")
      [] kind = "loop_head" -> Row(kind, g, scope, reads \ target, target, target, "")
      [] OTHER              -> Row(kind, g, scope, reads, {}, {}, "")

StmtRow(st, g, scope, slots) ==
    RowOf(st.kind, g, scope, ReadsOf(st, scope, slots), SlotOf(st.l, scope, slots), DeclaredOf(st, scope, slots))

StmtToRow(segs, g, st) == StmtRow(st, g, segs[g].scope, Slots(segs))

Rows(segs, g) == [i \in DOMAIN segs[g].stmts |-> StmtToRow(segs, g, segs[g].stmts[i])]

RowWrites(rows) == UNION {rows[i].writes \cup rows[i].decls : i \in DOMAIN rows}

(***************************************************************************)
(* Phi rows: after a group of arms one for each slot that a statement of   *)
(* an arm itself writes; before a loop body one for each slot that         *)
(* anything inside the loop writes.                                        *)
(***************************************************************************)
BranchPhis(segs, group) ==
    LET Sources(x) == {segs[c].scope : c \in {d \in Range(group) : x \in RowWrites(Rows(segs, d))}}
        written    == UNION {RowWrites(Rows(segs, c)) : c \in Range(group)}
        Phi(x)     == Row("phi", None, <<>>, Sources(x), {x}, {}, "branch_reconvergence")
    IN  SetToSeq({Phi(x) : x \in written})

\* A segment and all that it contains.
Subtree(segs, g) ==
    LET below[c \in DOMAIN segs] == c = g \/ (~IsRoot(segs, c) /\ below[Parent(segs, c)])
    IN  {c \in DOMAIN segs : below[c]}

SubtreeWrites(segs, g) == UNION {RowWrites(Rows(segs, c)) : c \in Subtree(segs, g)}

LoopPhis(segs, g) ==
    LET Phi(x) == Row("phi", g, segs[g].scope, {x}, {x}, {}, "loop_entry")
    IN  SetToSeq({Phi(x) : x \in SubtreeWrites(segs, g)})

(***************************************************************************)
(* _walk_segment: the rows of a segment and of all below it, in program    *)
(* order.  Statement i adds to done: its rows, the number of children      *)
(* walked and the arms whose phis are still to come, which the next other  *)
(* statement, loop body or end of the segment calls for.  A branch or loop *)
(* head is followed by the next child, whose rows walked gives.  A loop's  *)
(* own head stands before these phis.                                      *)
(***************************************************************************)
WalkStmt(segs, g, walked, done, i) ==
    LET st    == segs[g].stmts[i]
        row   == <<StmtToRow(segs, g, st)>>
        kids  == Children(segs, g)
        child == kids[done.kids + 1]
        phis  == BranchPhis(segs, done.group)
    IN  IF st.kind \notin {"branch", "loop_head"}
        THEN [rows |-> done.rows \o phis \o row, kids |-> done.kids, group |-> <<>>]
        ELSE IF done.kids = Len(kids)
        THEN [rows |-> done.rows \o row, kids |-> done.kids, group |-> done.group]
        ELSE IF segs[child].type = "branch"
        THEN [rows |-> done.rows \o row \o walked[child], kids |-> done.kids + 1, group |-> Append(done.group, child)]
        ELSE [rows |-> done.rows \o row \o phis \o walked[child], kids |-> done.kids + 1, group |-> <<>>]

WalkStmts(segs, g, walked) ==
    LET phis    == IF segs[g].type = "loop" THEN LoopPhis(segs, g) ELSE <<>>
        upto[i \in 0 .. Len(segs[g].stmts)] ==
            IF i = 0 THEN [rows |-> phis, kids |-> 0, group |-> <<>>]
            ELSE WalkStmt(segs, g, walked, upto[i - 1], i)
    IN  upto[Len(segs[g].stmts)]

\* Children that no statement stands for come last.
WalkSegment(segs, g, walked) ==
    LET done == WalkStmts(segs, g, walked)
        kids == Children(segs, g)
    IN  done.rows \o BranchPhis(segs, done.group)
            \o FlattenSeq([j \in 1 .. Len(kids) - done.kids |-> walked[kids[done.kids + j]]])

Walk(segs) ==
    LET walked[g \in DOMAIN segs] == WalkSegment(segs, g, walked)
    IN  walked

\* build_matrix: every root's own statements, then the segments below it.
BuildMatrix(segs) ==
    LET roots   == Ascending({g \in DOMAIN segs : IsRoot(segs, g)})
        Tree(g) == Rows(segs, g) \o FlattenSeq([j \in DOMAIN Children(segs, g) |-> Walk(segs)[Children(segs, g)[j]]])
    IN  FlattenSeq([j \in DOMAIN roots |-> Tree(roots[j])])

(***************************************************************************)
(* Nodes: the rows, with an entry node for every function, root and struct *)
(* in front of the first row of that segment, or at the end; of two at one *)
(* place the one that was inserted later, with the higher number, stands   *)
(* first.                                                                  *)
(***************************************************************************)
EntryNode(segs, g) ==
    LET params == {m \in Range(segs[g].memory) : m.param}
        writes == {m.name : m \in params} \cup Range(segs[g].constants)
    IN  Row("entry", g, segs[g].scope, {}, writes, writes, "synthetic")

RowsOfSeg(rows, g) == {i \in DOMAIN rows : rows[i].seg = g}

FirstRow(rows, g) == IF RowsOfSeg(rows, g) = {} THEN Len(rows) + 1 ELSE Min(RowsOfSeg(rows, g))

HasEntry(segs, g) == segs[g].type \in {"function", "root", "struct"}

EntriesAt(segs, rows, i) ==
    LET here == Reverse(Ascending({g \in DOMAIN segs : HasEntry(segs, g) /\ FirstRow(rows, g) = i}))
    IN  [j \in DOMAIN here |-> EntryNode(segs, here[j])]

RowAt(rows, i) == IF i \in DOMAIN rows THEN <<rows[i]>> ELSE <<>>

BuildNodes(segs, rows) ==
    FlattenSeq([i \in 1 .. Len(rows) + 1 |-> EntriesAt(segs, rows, i) \o RowAt(rows, i)])

(***************************************************************************)
(* Edges.  One pass over the nodes with the last write of every slot, and  *)
(* of every slot in every scope; then the back edges of the loops.  An     *)
(* edge that is there already keeps its kind.                              *)
(***************************************************************************)
Edge(from, to, slot, kind) == [from |-> from, to |-> to, slot |-> slot, kind |-> kind]

AddEdges(edges, new) ==
    edges \cup {e \in new : ~\E d \in edges : d.from = e.from /\ d.to = e.to /\ d.slot = e.slot}

At(fn, k) == IF k \in DOMAIN fn THEN {fn[k]} ELSE {}

Update(fn, keys, v) == [k \in DOMAIN fn \cup keys |-> IF k \in keys THEN v ELSE fn[k]]

\* Mutant: the phi of an if takes the last write of all.
EdgesIntoLast(acc, nodes, i) ==
    LET node == nodes[i]
        Kind == IF node.note = "branch_reconvergence" THEN "phi_branch"
                ELSE IF node.note = "loop_entry" THEN "phi_loop" ELSE "data_flow"
        slots == IF node.note = "branch_reconvergence" THEN node.writes ELSE node.reads
    IN  UNION {{Edge(j, i, x, Kind) : j \in At(acc.last, x)} : x \in slots}

EdgesInto(acc, nodes, i) ==
    LET node == nodes[i]
        slot == CHOOSE x \in node.writes : TRUE
    IN  IF node.note = "branch_reconvergence"
        THEN UNION {{Edge(j, i, slot, "phi_branch") : j \in At(acc.inScope, <<scope, slot>>)} : scope \in node.reads}
        ELSE UNION {{Edge(j, i, x, IF node.note = "loop_entry" THEN "phi_loop" ELSE "data_flow") :
                        j \in At(acc.last, x)} : x \in node.reads}

Visit(acc, nodes, i) ==
    LET node == nodes[i]
    IN  [edges   |-> AddEdges(acc.edges, EdgesInto(acc, nodes, i)),
         last    |-> Update(acc.last, node.writes, i),
         inScope |-> IF node.seg = None THEN acc.inScope
                     ELSE Update(acc.inScope, {<<node.scope, x>> : x \in node.writes}, i)]

\* startswith on the text of the scope paths.
StartsWith(scope, prefix) ==
    /\ Len(scope) >= Len(prefix)
    /\ SubSeq(scope, 1, Len(prefix) - 1) = Front(prefix)
    /\ IsPrefix(Last(prefix), scope[Len(prefix)])

\* Mutant: a back edge from the first write in the loop.
BackEdgesFirst(nodes) ==
    LET Body(i, x) == {j \in i + 1 .. Len(nodes) : nodes[j].seg # None /\ StartsWith(nodes[j].scope, nodes[i].scope)
                                                   /\ x \in nodes[j].writes}
        Back(i)    == UNION {{Edge(j, i, x, "phi_loop") : j \in {k \in Body(i, x) : \A l \in Body(i, x) : k <= l}} :
                                x \in nodes[i].writes}
    IN  UNION {Back(i) : i \in {j \in DOMAIN nodes : nodes[j].note = "loop_entry"}}

BackEdges(nodes) ==
    LET Body(i, x) == {j \in i + 1 .. Len(nodes) : nodes[j].seg # None /\ StartsWith(nodes[j].scope, nodes[i].scope)
                                                   /\ x \in nodes[j].writes}
        Back(i)    == UNION {{Edge(j, i, x, "phi_loop") : j \in {k \in Body(i, x) : \A l \in Body(i, x) : k >= l}} :
                                x \in nodes[i].writes}
    IN  UNION {Back(i) : i \in {j \in DOMAIN nodes : nodes[j].note = "loop_entry"}}

NothingSeen == [edges |-> {}, last |-> [x \in {} |-> 0], inScope |-> [k \in {} |-> 0]]

\* What the pass knows when it has visited the first i nodes.
Scanned(nodes) ==
    LET upto[i \in 0 .. Len(nodes)] == IF i = 0 THEN NothingSeen ELSE Visit(upto[i - 1], nodes, i)
    IN  upto

BuildEdges(nodes) == AddEdges(Scanned(nodes)[Len(nodes)].edges, BackEdges(nodes))

(***************************************************************************)
(* A read is joined to the write that stands last before it, and a slot    *)
(* that has been written is never read without one.                        *)
(***************************************************************************)
IsBranchPhi(node) == node.note = "branch_reconvergence"

WritesBefore(nodes, i, x) == {j \in 1 .. i - 1 : x \in nodes[j].writes}

GraphReadsLatest(nodes, edges) ==
    \A i \in DOMAIN nodes : ~IsBranchPhi(nodes[i]) =>
        \A x \in nodes[i].reads :
            {e.from : e \in {d \in edges : d.to = i /\ d.slot = x /\ d.from < i}}
                = {j \in WritesBefore(nodes, i, x) : \A k \in WritesBefore(nodes, i, x) : k <= j}

(***************************************************************************)
(* The phi of an if takes its values from its arms: from every arm the     *)
(* last write of the slot among the arm's own statements, and from nothing *)
(* else.  Each arm it reads has such a write before it, and none after it. *)
(***************************************************************************)
ArmWrites(nodes, i, scope, x) == {j \in WritesBefore(nodes, i, x) : nodes[j].seg # None /\ nodes[j].scope = scope}

GraphJoinsArms(nodes, edges) ==
    \A i \in DOMAIN nodes : IsBranchPhi(nodes[i]) =>
        \A x \in nodes[i].writes :
            /\ \A scope \in nodes[i].reads : ArmWrites(nodes, i, scope, x) # {}
            /\ {e.from : e \in {d \in edges : d.to = i}}
                  = UNION {{j \in ArmWrites(nodes, i, scope, x) : \A k \in ArmWrites(nodes, i, scope, x) : k <= j} :
                              scope \in nodes[i].reads}

GraphArmsComeFirst(nodes) ==
    \A i \in DOMAIN nodes : IsBranchPhi(nodes[i]) =>
        \A x \in nodes[i].writes, scope \in nodes[i].reads :
            ArmWrites(nodes, i, scope, x) = ArmWrites(nodes, Len(nodes) + 1, scope, x)

(***************************************************************************)
(* The body of a loop: the nodes of its segment and of all it contains,    *)
(* and the phis behind the ifs in it, which belong to no segment.          *)
(***************************************************************************)
InLoop(segs, g, node) ==
    IF node.seg # None THEN node.seg \in Subtree(segs, g)
    ELSE node.reads \cap {segs[c].scope : c \in Subtree(segs, g) \ {g}} # {}

LoopPhisOf(nodes) == {i \in DOMAIN nodes : nodes[i].note = "loop_entry"}

LoopBody(segs, nodes, i, x) ==
    {j \in i + 1 .. Len(nodes) : InLoop(segs, nodes[i].seg, nodes[j]) /\ x \in nodes[j].writes}

BackSources(edges, i, x) == {e.from : e \in {d \in edges : d.to = i /\ d.slot = x /\ d.from > i}}

LastOf(S) == {j \in S : \A k \in S : k <= j}

\* No other scope starts with the text of the loop's, as loop_10's with loop_1's.
OwnText(segs, g) == \A h \in DOMAIN segs : StartsWith(segs[h].scope, segs[g].scope) => h \in Subtree(segs, g)

(***************************************************************************)
(* A loop's phi takes the value of the last iteration: one back edge, from *)
(* the last write of the slot in the body.  Where that is the phi of an if *)
(* the code passes over it, against its own comment (dag.py:193-195): it   *)
(* has one back edge even so, from some write of the slot in the body.     *)
(* Nothing is said of a first loop where there is a tenth (dag.py:207).    *)
(***************************************************************************)
GraphClosesLoops(segs, nodes, edges) ==
    \A i \in {j \in LoopPhisOf(nodes) : OwnText(segs, nodes[j].seg)} : \A x \in nodes[i].writes :
        LET body == LoopBody(segs, nodes, i, x)
        IN  IF \A j \in LastOf(body) : ~IsBranchPhi(nodes[j])
            THEN BackSources(edges, i, x) = LastOf(body)
            ELSE \E j \in body : BackSources(edges, i, x) = {j}

(***************************************************************************)
(* "so that every downstream read in the DAG has a traceable source"       *)
(* (_make_entry_node): of parameters and constants.                        *)
(***************************************************************************)
GraphHasSources(segs, nodes, edges) ==
    \A g \in {h \in DOMAIN segs : HasEntry(segs, h)} :
        \A x \in {m.name : m \in {v \in Range(segs[g].memory) : v.param}} \cup Range(segs[g].constants) :
            \A i \in DOMAIN nodes :
                ~IsBranchPhi(nodes[i]) /\ x \in nodes[i].reads => \E e \in edges : e.to = i /\ e.slot = x
=============================================================================
