------------------------------ MODULE CoMemory -----------------------------
(***************************************************************************)
(* The memory partitions of CoOS (mm.c): blocks of one size, the free ones *)
(* linked through themselves.  Tasks take and return blocks; managers      *)
(* create and delete partitions.  A locked body is one step, what a call   *)
(* does after it another.                                                  *)
(***************************************************************************)
EXTENDS Naturals, Sequences

CONSTANTS
  CFG_MAX_MM, Users,
  Managers,        \* the tasks that create and delete partitions
  Areas, blockNum, \* memory a manager makes a partition of, and the blocks in each
  NoArea

ASSUME MemoryAssumption ==
  /\ CFG_MAX_MM \in Nat \ {0} /\ blockNum \in [Areas -> Nat \ {0, 1}] /\ Managers \subseteq Users
  /\ NoArea \notin Areas

Partitions == 0 .. CFG_MAX_MM - 1
BlocksOf(area) == {<<area, i>> : i \in 1 .. blockNum[area]}
AllBlocks == UNION {BlocksOf(area) : area \in Areas}

VARIABLES
  MemoryTbl,        \* memAddr, and the list of free blocks that starts at freeBlock
  MemoryIDVessel,   \* the ids in use
  todo,             \* what is left of a manager's call after its locked body
  held              \* history: the blocks each task has

memoryVars == <<MemoryTbl, MemoryIDVessel, todo, held>>

NoPartition == [memAddr |-> NoArea, freeBlock |-> <<>>]
Done == [op |-> "done", mm |-> 0, area |-> NoArea]

MemoryInit ==
  /\ MemoryTbl = [mm \in Partitions |-> NoPartition] /\ MemoryIDVessel = {}
  /\ todo = [c \in Managers |-> Done]
  /\ held = [u \in Users |-> {}]

InUse(area) ==
  \/ \E mm \in MemoryIDVessel : MemoryTbl[mm].memAddr = area
  \/ \E c \in Managers : todo[c].area = area

\* The id is claimed under the lock, the list is built after it.
CoCreateMemPartition(c, area) ==
  /\ todo[c] = Done /\ ~InUse(area)
  /\ \E mm \in Partitions \ MemoryIDVessel :
       /\ \A other \in Partitions \ MemoryIDVessel : mm <= other
       /\ MemoryIDVessel' = MemoryIDVessel \union {mm}
       /\ todo' = [todo EXCEPT ![c] = [op |-> "build", mm |-> mm, area |-> area]]
  /\ UNCHANGED <<MemoryTbl, held>>

Build(c) ==
  LET area == todo[c].area IN
  /\ todo[c].op = "build"
  /\ MemoryTbl' = [MemoryTbl EXCEPT ![todo[c].mm] =
       [memAddr |-> area, freeBlock |-> [i \in 1 .. blockNum[area] |-> <<area, i>>]]]
  /\ todo' = [todo EXCEPT ![c] = Done]
  /\ UNCHANGED <<MemoryIDVessel, held>>

BeingBuilt(mm) == \E c \in Managers : todo[c].op = "build" /\ todo[c].mm = mm
Ready == {mm \in MemoryIDVessel : ~BeingBuilt(mm)}
Handed(mm) == {b \in BlocksOf(MemoryTbl[mm].memAddr) : \E u \in Users : b \in held[u]}

\* A partition is deleted when every block is back; its control block is
\* cleared after the lock, when the id is free again.
CoDelMemoryPartition(c, mm) ==
  /\ todo[c] = Done /\ mm \in Ready /\ MemoryTbl[mm].memAddr # NoArea /\ Handed(mm) = {}
  /\ MemoryIDVessel' = MemoryIDVessel \ {mm}
  /\ todo' = [todo EXCEPT ![c] = [op |-> "clear", mm |-> mm, area |-> NoArea]]
  /\ UNCHANGED <<MemoryTbl, held>>

Clear(c) ==
  /\ todo[c].op = "clear"
  /\ MemoryTbl' = [MemoryTbl EXCEPT ![todo[c].mm] = NoPartition]
  /\ todo' = [todo EXCEPT ![c] = Done]
  /\ UNCHANGED <<MemoryIDVessel, held>>

\* A slip to rule out: the list still starts at the block handed out.
KeepFirst(list) == list
Unlinked(list) == Tail(list)

CoGetMemoryBuffer(u, mm) ==
  LET free == MemoryTbl[mm].freeBlock IN
  /\ mm \in Ready /\ free # <<>>
  /\ MemoryTbl' = [MemoryTbl EXCEPT ![mm].freeBlock = Unlinked(free)]
  /\ held' = [held EXCEPT ![u] = @ \union {Head(free)}]
  /\ UNCHANGED <<MemoryIDVessel, todo>>

CoFreeMemoryBuffer(u, mm, buf) ==
  /\ mm \in Ready /\ buf \in held[u] /\ buf[1] = MemoryTbl[mm].memAddr
  /\ MemoryTbl' = [MemoryTbl EXCEPT ![mm].freeBlock = <<buf>> \o @]
  /\ held' = [held EXCEPT ![u] = @ \ {buf}]
  /\ UNCHANGED <<MemoryIDVessel, todo>>

\* What CoGetFreeBlockNum counts on the list.
CoGetFreeBlockNum(mm) == Len(MemoryTbl[mm].freeBlock)

MemoryNext ==
  \/ \E c \in Managers :
       \/ Build(c) \/ Clear(c)
       \/ \E area \in Areas : CoCreateMemPartition(c, area)
       \/ \E mm \in Partitions : CoDelMemoryPartition(c, mm)
  \/ \E u \in Users, mm \in Partitions :
       \/ CoGetMemoryBuffer(u, mm)
       \/ \E buf \in held[u] : CoFreeMemoryBuffer(u, mm, buf)

MemorySpec == MemoryInit /\ [][MemoryNext]_memoryVars

---------------------------------------------------------------------------
FreeBlocks(mm) == {MemoryTbl[mm].freeBlock[i] : i \in DOMAIN MemoryTbl[mm].freeBlock}

\* Every block of a partition is on its free list once or with one task, never
\* both, and no block is with two.
PartitionsExact ==
  /\ \A u, v \in Users : u # v => held[u] \intersect held[v] = {}
  /\ \A mm \in Ready :
       LET free == MemoryTbl[mm].freeBlock IN
       /\ MemoryTbl[mm].memAddr \in Areas
       /\ \A i, j \in DOMAIN free : free[i] = free[j] => i = j
       /\ FreeBlocks(mm) \intersect Handed(mm) = {}
       /\ FreeBlocks(mm) \union Handed(mm) = BlocksOf(MemoryTbl[mm].memAddr)
=============================================================================
