--------------------------- MODULE VMMemoryProofs ---------------------------
(***************************************************************************)
(* What every sequence of memory operations of cdup's interpreter keeps:   *)
(* stack and heap addresses stay apart, and every slot is found, with its  *)
(* value, under the address that was given to it last.                     *)
(***************************************************************************)
EXTENDS VMMemory, TLAPS

USE AddressesAssumption

Inv(m) == IsMemory(m) /\ HeapIsAboveStack(m) /\ StackIsBelowItsEnd(m) /\ SlotsAreOwned(m)

LEMMA IntVIsValue == \A n \in Int : IntV(n) \in Values
    BY DEF IntV, Values

LEMMA EmptyInv == Inv(EmptyMemory) /\ HeapIsBelowItsEnd(EmptyMemory)
    BY DEF Inv, EmptyMemory, IsMemory, HeapIsBelowItsEnd, HeapIsAboveStack, StackIsBelowItsEnd, SlotsAreOwned

\* A new slot takes the first free stack address.
LEMMA AllocSlotInv ==
    ASSUME NEW m, Inv(m), m.stack < HeapBase, NEW f \in Frames, NEW x \in Names, NEW v \in Values
    PROVE  Inv(AllocSlot(m, f, x, v)) /\ (HeapIsBelowItsEnd(m) => HeapIsBelowItsEnd(AllocSlot(m, f, x, v)))
<1> DEFINE k == <<f, x>>
           n == AllocSlot(m, f, x, v)
<1>1. /\ n = [stack |-> m.stack + 1, heap |-> m.heap, cells |-> m.cells,
              slots |-> Put(m.slots, k, [addr |-> m.stack, val |-> v]),
              owner |-> Put(m.owner, m.stack, k)]
  <2> DEFINE n1 == [m EXCEPT !.stack = m.stack + 1]
             n2 == [n1 EXCEPT !.slots = Put(m.slots, k, [addr |-> m.stack, val |-> v])]
             n3 == [n2 EXCEPT !.owner = Put(m.owner, m.stack, k)]
  <2>1. n1 = [stack |-> m.stack + 1, heap |-> m.heap, cells |-> m.cells, slots |-> m.slots, owner |-> m.owner]
    BY DEF Inv, IsMemory
  <2> HIDE DEF n1
  <2>2. n2 = [stack |-> m.stack + 1, heap |-> m.heap, cells |-> m.cells,
              slots |-> Put(m.slots, k, [addr |-> m.stack, val |-> v]), owner |-> m.owner]
    BY <2>1
  <2> HIDE DEF n2
  <2>3. n3 = [stack |-> m.stack + 1, heap |-> m.heap, cells |-> m.cells,
              slots |-> Put(m.slots, k, [addr |-> m.stack, val |-> v]), owner |-> Put(m.owner, m.stack, k)]
    BY <2>2
  <2>4. n = n3
    BY DEF AllocSlot, n1, n2
  <2> QED  BY <2>3, <2>4
<1>2. m.stack \in Int /\ k \in Frames \X Names
  BY DEF Inv, StackIsBelowItsEnd
<1>3. IsMemory(n)
  <2>1. DOMAIN n.slots = DOMAIN m.slots \cup {k}
    BY <1>1 DEF Put
  <2>2. \A s \in DOMAIN n.slots : n.slots[s] \in [addr : Int, val : Values]
    BY <1>1, <1>2 DEF Put, Inv, IsMemory
  <2> QED  BY <1>1, <1>2, <2>1, <2>2 DEF Inv, IsMemory
<1>4. HeapIsAboveStack(n) /\ (HeapIsBelowItsEnd(m) => HeapIsBelowItsEnd(n))
  BY <1>1 DEF Inv, HeapIsAboveStack, HeapIsBelowItsEnd
<1>5. StackIsBelowItsEnd(n)
  BY <1>1, <1>2 DEF Inv, StackIsBelowItsEnd, Put
<1>6. SlotsAreOwned(n)
  <2> SUFFICES ASSUME NEW s \in DOMAIN n.slots
               PROVE  n.slots[s].addr \in DOMAIN n.owner /\ n.owner[n.slots[s].addr] = s
    BY DEF SlotsAreOwned
  <2>1. CASE s = k
    BY <1>1, <2>1 DEF Put
  <2>2. CASE s # k
    BY <1>1, <2>2 DEF Put, Inv, SlotsAreOwned, StackIsBelowItsEnd
  <2> QED  BY <2>1, <2>2
<1> QED  BY <1>3, <1>4, <1>5, <1>6 DEF Inv

LEMMA WriteSlotInv ==
    ASSUME NEW m, Inv(m), NEW f \in Frames, NEW x \in Names, NEW v \in Values, HasSlot(m, f, x)
    PROVE  Inv(WriteSlot(m, f, x, v)) /\ (HeapIsBelowItsEnd(m) => HeapIsBelowItsEnd(WriteSlot(m, f, x, v)))
<1> DEFINE k == <<f, x>>
           n == WriteSlot(m, f, x, v)
<1>1. /\ n = [stack |-> m.stack, heap |-> m.heap, cells |-> m.cells, owner |-> m.owner,
              slots |-> [m.slots EXCEPT ![k] = [addr |-> m.slots[k].addr, val |-> v]]]
  BY DEF WriteSlot, Inv, IsMemory, HasSlot
<1>2. DOMAIN n.slots = DOMAIN m.slots /\ \A s \in DOMAIN m.slots : n.slots[s].addr = m.slots[s].addr
  BY <1>1
<1>3. IsMemory(n)
  BY <1>1, <1>2 DEF Inv, IsMemory, HasSlot
<1> QED  BY <1>1, <1>2, <1>3 DEF Inv, HeapIsAboveStack, HeapIsBelowItsEnd, StackIsBelowItsEnd, SlotsAreOwned

\* A map of heap cells.
AreCells(cells) ==
    \A a \in DOMAIN cells : a \in Int /\ HeapBase <= a /\ cells[a] \in Values

LEMMA StoreCells ==
    ASSUME NEW cells, AreCells(cells), NEW base \in Nat, HeapBase <= base, NEW vals \in Seq(Values)
    PROVE  /\ DOMAIN Store(cells, base, vals) = DOMAIN cells \cup (base .. base + Len(vals) - 1)
           /\ AreCells(Store(cells, base, vals))
           /\ \A a \in DOMAIN cells : a < base => Store(cells, base, vals)[a] = cells[a]
<1> DEFINE n == Store(cells, base, vals)
<1>1. Len(vals) \in Nat /\ DOMAIN vals = 1 .. Len(vals)
  OBVIOUS
<1>2. DOMAIN n = DOMAIN cells \cup (base .. base + Len(vals) - 1)
  BY DEF Store
<1>3. ASSUME NEW a \in base .. base + Len(vals) - 1
      PROVE  n[a] \in Values
  <2>1. n[a] = vals[a - base + 1]
    BY DEF Store
  <2>2. a - base + 1 \in DOMAIN vals
    BY <1>1
  <2> QED  BY <2>1, <2>2
<1>4. \A a \in DOMAIN cells : a \notin base .. base + Len(vals) - 1 => n[a] = cells[a]
  BY DEF Store
<1>5. \A a \in DOMAIN cells : a < base => n[a] = cells[a]
  BY <1>1, <1>4 DEF AreCells
<1>6. AreCells(n)
  BY <1>1, <1>2, <1>3, <1>4 DEF AreCells
<1> QED  BY <1>2, <1>5, <1>6

\* An object takes the cells from the end of the heap on.
LEMMA StoreObjectInv ==
    ASSUME NEW m, Inv(m), NEW vals \in Seq(Values)
    PROVE  /\ Inv(StoreObject(m, vals))
           /\ HeapIsBelowItsEnd(m) =>
                 /\ HeapIsBelowItsEnd(StoreObject(m, vals))
                 /\ \A a \in DOMAIN m.cells : /\ a \in DOMAIN StoreObject(m, vals).cells
                                              /\ StoreObject(m, vals).cells[a] = m.cells[a]
<1> DEFINE n == StoreObject(m, vals)
<1>1. n = [stack |-> m.stack, heap |-> m.heap + Len(vals), cells |-> Store(m.cells, m.heap, vals),
           slots |-> m.slots, owner |-> m.owner]
  <2> DEFINE n1 == [m EXCEPT !.cells = Store(m.cells, m.heap, vals)]
             n2 == [n1 EXCEPT !.heap = m.heap + Len(vals)]
  <2>1. n1 = [stack |-> m.stack, heap |-> m.heap, cells |-> Store(m.cells, m.heap, vals),
              slots |-> m.slots, owner |-> m.owner]
    BY DEF Inv, IsMemory
  <2> HIDE DEF n1
  <2>2. n2 = [stack |-> m.stack, heap |-> m.heap + Len(vals), cells |-> Store(m.cells, m.heap, vals),
              slots |-> m.slots, owner |-> m.owner]
    BY <2>1
  <2>3. n = n2
    BY DEF StoreObject, n1
  <2> QED  BY <2>2, <2>3
<1>2. /\ m.heap \in Nat /\ HeapBase <= m.heap /\ Len(vals) \in Nat
      /\ AreCells(m.cells)
  BY DEF Inv, HeapIsAboveStack, IsMemory, AreCells
<1>3. /\ DOMAIN n.cells = DOMAIN m.cells \cup (m.heap .. m.heap + Len(vals) - 1)
      /\ AreCells(n.cells)
      /\ \A a \in DOMAIN m.cells : a < m.heap => n.cells[a] = m.cells[a]
  <2> DEFINE cells == Store(m.cells, m.heap, vals)
  <2>1. n.cells = cells
    BY <1>1
  <2>2. /\ DOMAIN cells = DOMAIN m.cells \cup (m.heap .. m.heap + Len(vals) - 1)
        /\ AreCells(cells)
        /\ \A a \in DOMAIN m.cells : a < m.heap => cells[a] = m.cells[a]
    BY <1>2, StoreCells
  <2> HIDE DEF cells, n
  <2> QED  BY <2>1, <2>2
<1>4. IsMemory(n) /\ HeapIsAboveStack(n)
  BY <1>1, <1>2, <1>3 DEF Inv, IsMemory, HeapIsAboveStack, AreCells
<1>5. StackIsBelowItsEnd(n) /\ SlotsAreOwned(n)
  BY <1>1 DEF Inv, StackIsBelowItsEnd, SlotsAreOwned
<1>6. ASSUME HeapIsBelowItsEnd(m)
      PROVE  HeapIsBelowItsEnd(n) /\ \A a \in DOMAIN m.cells : a \in DOMAIN n.cells /\ n.cells[a] = m.cells[a]
  BY <1>1, <1>2, <1>3, <1>6 DEF HeapIsBelowItsEnd, AreCells
<1> QED  BY <1>4, <1>5, <1>6 DEF Inv

\* The rows of a list take cells from the end of the heap on, and their
\* addresses the first of these.
LEMMA RowsToHeapInv ==
    ASSUME NEW m, Inv(m), NEW width \in Nat \ {0}, NEW items \in Seq(Values)
    PROVE  Inv(RowsToHeap(m, width, items))
<1> DEFINE n == RowsToHeap(m, width, items)
           count == Len(items) \div width
           addresses == RowAddresses(m, width, items)
           cells == Store(Store(m.cells, m.heap, items), m.heap, addresses)
<1>1. /\ m.heap \in Nat /\ HeapBase <= m.heap /\ AreCells(m.cells)
      /\ count \in Nat
  <2>1. m.heap \in Nat /\ HeapBase <= m.heap /\ AreCells(m.cells)
    BY DEF Inv, HeapIsAboveStack, IsMemory, AreCells
  <2>2. Len(items) \in Nat
    OBVIOUS
  <2>3. count \in Nat
    BY <2>2
  <2> QED  BY <2>1, <2>3
<1>2. addresses \in Seq(Values)
  <2> DEFINE Start(i) == IntV(m.heap + (i - 1) * width)
  <2>1. ASSUME NEW i \in 1 .. count PROVE Start(i) \in Values
    <3>1. m.heap + (i - 1) * width \in Int
      BY <1>1
    <3> QED  BY <3>1, IntVIsValue
  <2>2. addresses = [i \in 1 .. count |-> Start(i)]
    BY DEF RowAddresses
  <2> HIDE DEF Start, count, addresses
  <2>3. [i \in 1 .. count |-> Start(i)] \in Seq(Values)
    BY <1>1, <2>1
  <2> QED  BY <2>2, <2>3
<1> HIDE DEF addresses
<1>3. AreCells(cells)
  BY <1>1, <1>2, StoreCells
<1>4. n = [stack |-> m.stack, heap |-> m.heap + count, cells |-> cells, slots |-> m.slots, owner |-> m.owner]
  <2> DEFINE n1 == [m EXCEPT !.cells = cells]
             n2 == [n1 EXCEPT !.heap = m.heap + count]
  <2> HIDE DEF cells, count
  <2>1. n1 = [stack |-> m.stack, heap |-> m.heap, cells |-> cells, slots |-> m.slots, owner |-> m.owner]
    BY DEF Inv, IsMemory
  <2> HIDE DEF n1
  <2>2. n2 = [stack |-> m.stack, heap |-> m.heap + count, cells |-> cells, slots |-> m.slots, owner |-> m.owner]
    BY <2>1
  <2>3. n = n2
    BY DEF RowsToHeap, n1, cells, count, addresses
  <2> QED  BY <2>2, <2>3
<1> HIDE DEF n, cells, count
<1>5. IsMemory(n) /\ HeapIsAboveStack(n)
  BY <1>1, <1>3, <1>4 DEF Inv, IsMemory, HeapIsAboveStack, AreCells
<1>6. StackIsBelowItsEnd(n) /\ SlotsAreOwned(n)
  BY <1>4 DEF Inv, StackIsBelowItsEnd, SlotsAreOwned
<1> QED  BY <1>5, <1>6 DEF Inv, n

\* What malloc and a string literal store is a sequence of values.
LEMMA ZeroesAreValues ==
    ASSUME NEW bytes \in Nat, NEW size \in Nat \ {0}
    PROVE  [i \in 1 .. CellsFor(bytes, size) |-> IntV(0)] \in Seq(Values)
<1>1. CellsFor(bytes, size) \in Nat
  BY DEF CellsFor
<1>2. IntV(0) \in Values
  BY IntVIsValue
<1> QED  BY <1>1, <1>2

\* A write through an address reaches one cell or one slot.
LEMMA WriteAtInv ==
    ASSUME NEW m, Inv(m), NEW a \in Int, Mapped(m, a), NEW v \in Values
    PROVE  Inv(WriteAt(m, a, v)) /\ (HeapIsBelowItsEnd(m) => HeapIsBelowItsEnd(WriteAt(m, a, v)))
<1>1. CASE a \in DOMAIN m.cells
  <2> DEFINE n == WriteAt(m, a, v)
  <2>1. n = [stack |-> m.stack, heap |-> m.heap, cells |-> [m.cells EXCEPT ![a] = v],
             slots |-> m.slots, owner |-> m.owner]
    BY <1>1 DEF WriteAt, Inv, IsMemory
  <2> QED  BY <2>1 DEF Inv, IsMemory, HeapIsAboveStack, HeapIsBelowItsEnd, StackIsBelowItsEnd, SlotsAreOwned
<1>2. CASE a \notin DOMAIN m.cells
  <2>1. m.owner[a] \in DOMAIN m.slots
    BY <1>2 DEF Mapped, Inv, StackIsBelowItsEnd
  <2>2. PICK f \in Frames, x \in Names : m.owner[a] = <<f, x>>
    BY <2>1 DEF Inv, IsMemory
  <2>3. WriteAt(m, a, v) = WriteSlot(m, f, x, v) /\ HasSlot(m, f, x)
    BY <1>2, <2>1, <2>2 DEF WriteAt, WriteSlot, HasSlot
  <2> QED  BY <2>3, WriteSlotInv
<1> QED  BY <1>1, <1>2

(***************************************************************************)
(* The four parts of MemoryInv hold together and are inductive as they     *)
(* stand, and so is the end of the heap without lists of rows; one step    *)
(* for each operation.                                                     *)
(***************************************************************************)
LEMMA FlatStep ==
    ASSUME Inv(mem), [FlatNext]_mem
    PROVE  Inv(mem') /\ (HeapIsBelowItsEnd(mem) => HeapIsBelowItsEnd(mem'))
<1> DEFINE Kept == Inv(mem') /\ (HeapIsBelowItsEnd(mem) => HeapIsBelowItsEnd(mem'))
<1> SUFFICES Kept
  OBVIOUS
<1>1. CASE \E f \in Frames, x \in Names, v \in Values : Declare(f, x, v)
  BY <1>1, AllocSlotInv DEF Declare, StackRoom
<1>2. CASE \E f \in Frames, x \in Names, v \in Values : Assign(f, x, v)
  BY <1>2, WriteSlotInv DEF Assign
<1>3. CASE \E bytes \in Nat, size \in Nat \ {0} : Malloc(bytes, size)
  BY <1>3, StoreObjectInv, ZeroesAreValues DEF Malloc, AllocHeap
<1>4. CASE \E vals \in Seq(Values) : Intern(vals)
  <2>1. PICK vals \in Seq(Values) : Intern(vals)
    BY <1>4
  <2>2. Append(vals, IntV(0)) \in Seq(Values)
    BY IntVIsValue
  <2> QED  BY <2>1, <2>2, StoreObjectInv DEF Intern, InternString
<1>5. CASE \E vals \in Seq(Values) : PromoteList(vals)
  BY <1>5, StoreObjectInv DEF PromoteList, ListToHeap
<1>6. CASE \E a \in Int, v \in Values : StoreThrough(a, v)
  BY <1>6, WriteAtInv DEF StoreThrough
<1>7. CASE Reset
  BY <1>7, EmptyInv DEF Reset
<1>8. CASE UNCHANGED mem
  BY <1>8
<1> HIDE DEF Kept
<1> QED  BY <1>1, <1>2, <1>3, <1>4, <1>5, <1>6, <1>7, <1>8 DEF FlatNext

LEMMA InvStep ==
    ASSUME Inv(mem), [Next]_mem
    PROVE  Inv(mem')
<1>1. CASE [FlatNext]_mem
  BY <1>1, FlatStep
<1>2. CASE \E width \in Nat \ {0}, items \in Seq(Values) : PromoteRows(width, items)
  BY <1>2, RowsToHeapInv DEF PromoteRows
<1> QED  BY <1>1, <1>2 DEF Next

(***************************************************************************)
(* Stack addresses stay below the heap and every slot is owned, whatever   *)
(* is allocated, declared again, moved to the heap or written.             *)
(***************************************************************************)
THEOREM MemoryHolds == Spec => []MemoryInv
<1>1. Init => MemoryInv
  BY EmptyInv DEF Init, Inv, MemoryInv
<1>2. MemoryInv /\ [Next]_mem => MemoryInv'
  BY InvStep DEF Inv, MemoryInv
<1> QED  BY <1>1, <1>2, PTL DEF Spec

(***************************************************************************)
(* &x: reading through the address of a slot gives the slot's value.       *)
(***************************************************************************)
THEOREM AddressesHold == Spec => []ReadBack
<1>1. MemoryInv => ReadBack
  BY DEF MemoryInv, ReadBack, AddressesReadBack, Mapped, ReadAt,
         HeapIsAboveStack, StackIsBelowItsEnd, SlotsAreOwned
<1> QED  BY <1>1, MemoryHolds, PTL

(***************************************************************************)
(* As long as no list of rows is moved to the heap, a new heap object      *)
(* takes no cell that is in use.                                           *)
(***************************************************************************)
THEOREM ObjectsHold == FlatSpec => ObjectsAreFresh
<1> DEFINE FlatInv == MemoryInv /\ HeapIsBelowItsEnd(mem)
<1>1. Init => FlatInv
  BY EmptyInv DEF Init, Inv, MemoryInv
<1>2. FlatInv /\ [FlatNext]_mem => FlatInv'
  BY FlatStep DEF Inv, MemoryInv
<1>3. FlatInv /\ [FlatNext]_mem =>
        [\A vals \in Seq(Values) :
            mem' = StoreObject(mem, vals) =>
                \A a \in DOMAIN mem.cells : a \in DOMAIN mem'.cells /\ mem'.cells[a] = mem.cells[a]]_mem
  BY StoreObjectInv DEF MemoryInv, Inv
<1> QED  BY <1>1, <1>2, <1>3, PTL DEF FlatSpec, ObjectsAreFresh
=============================================================================
