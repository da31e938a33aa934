------------------------------ MODULE VMMemory ------------------------------
(***************************************************************************)
(* The address space of cdup's interpreter (cdup/src/vm.py): frames whose  *)
(* named slots each get an address of their own, a heap of cells, and the  *)
(* map that leads from a stack address back to its slot.  The interpreter  *)
(* (CloneVM) is written over these operators; here they also make up a     *)
(* machine of their own, so that VMMemoryProofs can show what every        *)
(* sequence of them keeps.                                                 *)
(*                                                                         *)
(* Values are opaque but for the integers IntV(n), which the code       *)
(* stores where it keeps an address or clears a cell.  Type strings are    *)
(* left out: no operation on memory depends on them but the size of an     *)
(* element, which is an argument.                                          *)
(***************************************************************************)
EXTENDS Integers, Sequences, SequencesExt

CONSTANTS StackBase,   \* first stack address  (0x1000 in the code)
          HeapBase,    \* first heap address   (0x8000_0000 in the code)
          Names        \* slot names

ASSUME AddressesAssumption ==
    /\ StackBase \in Nat \ {0}
    /\ HeapBase \in Nat
    /\ StackBase < HeapBase

Frames == Nat

Values == [t : {"int", "list", "rows", "str", "none"}, w : Nat, v : Seq(Int)]

IntV(n) == [t |-> "int", w |-> 0, v |-> <<n>>]

ListV(ns) == [t |-> "list", w |-> 0, v |-> ns]

RowsV(width, ns) == [t |-> "rows", w |-> width, v |-> ns]

StrV(codes) == [t |-> "str", w |-> 0, v |-> codes]

NoneV == [t |-> "none", w |-> 0, v |-> <<>>]

VARIABLE mem

(***************************************************************************)
(* stack, heap: the two counters; cells: heap address -> value;            *)
(* slots: <<frame, name>> -> its address and value; owner: stack address   *)
(* -> <<frame, name>> (_addr_map).                                         *)
(***************************************************************************)
EmptyMemory == [stack |-> StackBase, heap |-> HeapBase,
                cells |-> [a \in {} |-> IntV(0)],
                slots |-> [s \in {} |-> [addr |-> 0, val |-> IntV(0)]],
                owner |-> [a \in {} |-> <<>>]]

Put(fn, k, v) == [x \in DOMAIN fn \cup {k} |-> IF x = k THEN v ELSE fn[x]]

\* Cells base, base + 1, ... take the values of a sequence.
Store(cells, base, vals) ==
    [a \in DOMAIN cells \cup (base .. base + Len(vals) - 1) |->
        IF a \in base .. base + Len(vals) - 1 THEN vals[a - base + 1] ELSE cells[a]]

\* Mutant: a slot that is declared again is not registered under its new address.
AllocSlotOnce(m, f, x, v) ==
    [m EXCEPT !.stack = @ + 1,
              !.slots = Put(@, <<f, x>>, [addr |-> m.stack, val |-> v]),
              !.owner = IF <<f, x>> \in DOMAIN m.slots THEN @ ELSE Put(@, m.stack, <<f, x>>)]

(***************************************************************************)
(* A declaration gives its slot a new address even when the slot exists    *)
(* (a declaration in a loop body): the old address keeps leading to the    *)
(* slot of that name.                                                      *)
(***************************************************************************)
AllocSlot(m, f, x, v) ==
    [m EXCEPT !.stack = @ + 1,
              !.slots = Put(@, <<f, x>>, [addr |-> m.stack, val |-> v]),
              !.owner = Put(@, m.stack, <<f, x>>)]

WriteSlot(m, f, x, v) == [m EXCEPT !.slots[<<f, x>>].val = v]

HasSlot(m, f, x) == <<f, x>> \in DOMAIN m.slots

SlotValue(m, f, x) == m.slots[<<f, x>>].val

SlotAddr(m, f, x) == m.slots[<<f, x>>].addr

(***************************************************************************)
(* Heap objects are cut off the end of the heap, which only grows.  size   *)
(* is that of one element; at least one cell is reserved.                  *)
(***************************************************************************)
CellsFor(bytes, size) == IF bytes \div size > 1 THEN bytes \div size ELSE 1

StoreObject(m, vals) == [m EXCEPT !.cells = Store(@, m.heap, vals),
                                  !.heap  = @ + Len(vals)]

AllocHeap(m, bytes, size) ==
    StoreObject(m, [i \in 1 .. CellsFor(bytes, size) |-> IntV(0)])

\* A string is stored with a terminating zero.
InternString(m, chars) == StoreObject(m, Append(chars, IntV(0)))

ListToHeap(m, vals) == StoreObject(m, vals)

Items(list) == [i \in DOMAIN list.v |-> IntV(list.v[i])]

(***************************************************************************)
(* A list of rows of one width (at least 1): the counter still has its old *)
(* value when the first row is copied and moves with the rows only, so the *)
(* items fill the cells from there on, one row after another.  The address *)
(* of each row is then put over them, a cell for each row: a later row     *)
(* does not reach back so far.  In the end the counter is set back to the  *)
(* end of these addresses, which may be before the end of the items.       *)
(***************************************************************************)
RowAddresses(m, width, items) ==
    [i \in 1 .. Len(items) \div width |-> IntV(m.heap + (i - 1) * width)]

RowsToHeap(m, width, items) ==
    [m EXCEPT !.cells = Store(Store(@, m.heap, items), m.heap, RowAddresses(m, width, items)),
              !.heap = @ + Len(items) \div width]

(***************************************************************************)
(* Reading and writing through an address: heap cells first, then the      *)
(* stack slots; anything else (0 is NULL) raises.                          *)
(***************************************************************************)
Mapped(m, a) == a # 0 /\ (a \in DOMAIN m.cells \/ a \in DOMAIN m.owner)

ReadAt(m, a) == IF a \in DOMAIN m.cells THEN m.cells[a] ELSE m.slots[m.owner[a]].val

\* Mutant: what is not a cell becomes one; the slot keeps its value.
WriteAtCells(m, a, v) == [m EXCEPT !.cells = Put(@, a, v)]

WriteAt(m, a, v) ==
    IF a \in DOMAIN m.cells
    THEN [m EXCEPT !.cells[a] = v]
    ELSE [m EXCEPT !.slots[m.owner[a]].val = v]

(***************************************************************************)
(* The machine: every operation of the address space, one per step.        *)
(* StackRoom is the one bound: the code's stack counter would have to pass *)
(* two thousand million slots to reach the heap.                           *)
(***************************************************************************)
StackRoom == mem.stack < HeapBase

Declare(f, x, v) == StackRoom /\ mem' = AllocSlot(mem, f, x, v)

Assign(f, x, v) == HasSlot(mem, f, x) /\ mem' = WriteSlot(mem, f, x, v)

Malloc(bytes, size) == mem' = AllocHeap(mem, bytes, size)

Intern(chars) == mem' = InternString(mem, chars)

PromoteList(vals) == mem' = ListToHeap(mem, vals)

PromoteRows(width, items) ==
    Len(items) % width = 0 /\ mem' = RowsToHeap(mem, width, items)

StoreThrough(a, v) == Mapped(mem, a) /\ mem' = WriteAt(mem, a, v)

Reset == mem' = EmptyMemory

Init == mem = EmptyMemory

\* The operations of programs that move no list of rows to the heap.
FlatNext ==
    \/ \E f \in Frames, x \in Names, v \in Values : Declare(f, x, v) \/ Assign(f, x, v)
    \/ \E bytes \in Nat, size \in Nat \ {0} : Malloc(bytes, size)
    \/ \E vals \in Seq(Values) : Intern(vals) \/ PromoteList(vals)
    \/ \E a \in Int, v \in Values : StoreThrough(a, v)
    \/ Reset

Next ==
    \/ FlatNext
    \/ \E width \in Nat \ {0}, items \in Seq(Values) : PromoteRows(width, items)

Spec == Init /\ [][Next]_mem

FlatSpec == Init /\ [][FlatNext]_mem

(***************************************************************************)
(* Two counters bound the two kinds of addresses, and each slot is found   *)
(* under its own address.                                                  *)
(***************************************************************************)
IsMemory(m) ==
    /\ m = [stack |-> m.stack, heap |-> m.heap, cells |-> m.cells, slots |-> m.slots, owner |-> m.owner]
    /\ DOMAIN m.slots \subseteq Frames \X Names
    /\ \A s \in DOMAIN m.slots : m.slots[s] \in [addr : Int, val : Values]
    /\ \A a \in DOMAIN m.cells : m.cells[a] \in Values

HeapIsAboveStack(m) ==
    /\ m.heap \in Nat /\ HeapBase <= m.heap
    /\ \A a \in DOMAIN m.cells : a \in Int /\ HeapBase <= a

\* What the rows of a list break.
HeapIsBelowItsEnd(m) == \A a \in DOMAIN m.cells : a < m.heap

StackIsBelowItsEnd(m) ==
    /\ m.stack \in Nat /\ StackBase <= m.stack /\ m.stack <= HeapBase
    /\ \A a \in DOMAIN m.owner : a \in Int /\ StackBase <= a /\ a < m.stack
    /\ \A a \in DOMAIN m.owner : m.owner[a] \in DOMAIN m.slots

SlotsAreOwned(m) ==
    \A s \in DOMAIN m.slots :
        m.slots[s].addr \in DOMAIN m.owner /\ m.owner[m.slots[s].addr] = s

(***************************************************************************)
(* What &x promises: reading through a slot's address gives the slot's     *)
(* value, whatever was allocated, declared again or overwritten since.     *)
(***************************************************************************)
AddressesReadBack(m) ==
    \A s \in DOMAIN m.slots :
        Mapped(m, m.slots[s].addr) /\ ReadAt(m, m.slots[s].addr) = m.slots[s].val

MemoryInv ==
    /\ IsMemory(mem)
    /\ HeapIsAboveStack(mem)
    /\ StackIsBelowItsEnd(mem)
    /\ SlotsAreOwned(mem)

ReadBack == AddressesReadBack(mem)

(***************************************************************************)
(* Without lists of rows a new object takes no cell that is in use: a cell *)
(* keeps its value unless it is stored to through its address.  The rows   *)
(* of a list lie past the end of the heap, where the next object goes.     *)
(***************************************************************************)
ObjectsAreFresh ==
    [][\A vals \in Seq(Values) :
          mem' = StoreObject(mem, vals) =>
              \A a \in DOMAIN mem.cells : a \in DOMAIN mem'.cells /\ mem'.cells[a] = mem.cells[a]]_mem
=============================================================================
