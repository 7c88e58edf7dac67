------------------------------ MODULE CoBinary -----------------------------
(***************************************************************************)
(* The ready list of the binary scheduler, which task.c compiles in place  *)
(* of the ordered one when there may be 15 tasks or more: a table of the   *)
(* priorities in use tells where on the list a task belongs.  The ordered  *)
(* list is kept beside it, for comparison.  Sequence numbers start at 1    *)
(* here, at 0 in the code.                                                 *)
(***************************************************************************)
EXTENDS Integers, Sequences, FiniteSets, SequencesExt

CONSTANTS
  Ids, Prios,       \* the tasks, and the priorities they may have
  WordSize,         \* bits in a word of RdyTaskPriInfo: 32 in the code
  PriorityOfReady,  \* may CoSetPriority be called for a task on the list?
  INVALID_ID

ASSUME BinaryAssumption ==
  Prios \subseteq Nat /\ WordSize \in Nat \ {0} /\ PriorityOfReady \in BOOLEAN /\ INVALID_ID \notin Ids

VARIABLES
  taskState, taskPrio,
  TCBRdy, TaskSchedReq,
  pris,             \* per active priority, ascending: ActivePri, TaskNumPerPri, RdyTaskPri
  RdyTaskPriInfo,   \* the sequence numbers whose bit is set
  byList            \* the ready list and request of the ordered-list scheduler

binaryVars == <<taskState, taskPrio, TCBRdy, TaskSchedReq, pris, RdyTaskPriInfo, byList>>

BinaryInit ==
  /\ taskState = [t \in Ids |-> "DORMANT"] /\ taskPrio = [t \in Ids |-> 0]
  /\ TCBRdy = <<>> /\ TaskSchedReq = FALSE /\ pris = <<>> /\ RdyTaskPriInfo = {}
  /\ byList = [rdy |-> <<>>, req |-> FALSE]

---------------------------------------------------------------------------
(* The table of priorities *)

\* Where a priority is in the table, or belongs: a binary search.
GetPriSeqNum(table, pri) ==
  LET search[low \in 1 .. Len(table) + 1, high \in 1 .. Len(table) + 1] ==
        LET mid == (low + high) \div 2 IN
        IF low = high THEN low
        ELSE IF table[mid].ActivePri = pri THEN mid
        ELSE IF pri < table[mid].ActivePri THEN search[low, mid]
        ELSE search[mid + 1, high]
  IN search[1, Len(table) + 1]
IsActive(table, pri) == \E i \in DOMAIN table : table[i].ActivePri = pri

\* The bits are set anew from seqNum on; those of the words after the last one
\* in use stay.
Word(seqNum) == (seqNum - 1) \div WordSize
LastWord(table, seqNum) == IF Len(table) < seqNum THEN Word(seqNum) ELSE Word(Len(table))
PrioRemap(bits, table, seqNum) ==
  {i \in bits : i < seqNum \/ Word(i) > LastWord(table, seqNum)}
    \union {i \in seqNum .. Len(table) : table[i].RdyTaskPri # INVALID_ID}

Table(table, bits) == [pris |-> table, bits |-> bits]

\* A slip to rule out: a new priority does not move the bits of those after it.
ActiveTaskPriUnmapped(m, pri) ==
  LET seqNum == GetPriSeqNum(m.pris, pri)
      new == [ActivePri |-> pri, TaskNumPerPri |-> 1, RdyTaskPri |-> INVALID_ID]
  IN IF IsActive(m.pris, pri)
     THEN [m EXCEPT !.pris[seqNum].TaskNumPerPri = @ + 1]
     ELSE Table(InsertAt(m.pris, seqNum, new), m.bits)

ActiveTaskPri(m, pri) ==
  LET seqNum == GetPriSeqNum(m.pris, pri)
      new == [ActivePri |-> pri, TaskNumPerPri |-> 1, RdyTaskPri |-> INVALID_ID]
      table == InsertAt(m.pris, seqNum, new)
  IN IF IsActive(m.pris, pri)
     THEN [m EXCEPT !.pris[seqNum].TaskNumPerPri = @ + 1]
     ELSE Table(table, PrioRemap(m.bits, table, seqNum))

DeleteTaskPri(m, pri) ==
  LET seqNum == GetPriSeqNum(m.pris, pri)
      table == RemoveAt(m.pris, seqNum)
  IN IF m.pris[seqNum].TaskNumPerPri > 1
     THEN [m EXCEPT !.pris[seqNum].TaskNumPerPri = @ - 1]
     ELSE Table(table, PrioRemap(m.bits, table, seqNum))

---------------------------------------------------------------------------
(* The list: m holds the table, its bits, the list and the request *)

\* The greatest sequence number up to this one that has a ready task.
GetRdyPriSeqNum(m, seqNum) ==
  LET ready == {i \in m.bits : i <= seqNum}
  IN IF ready = {} THEN INVALID_ID ELSE CHOOSE i \in ready : \A j \in ready : j <= i

\* A task linked behind one that is not on the list is not reached from TCBRdy.
LinkAfter(list, ahead, t) ==
  IF ahead \in Range(list) THEN InsertAt(list, SelectInSeq(list, LAMBDA u : u = ahead) + 1, t) ELSE list

InsertToTCBRdyList(m, t, prio) ==
  LET seqNum == GetPriSeqNum(m.pris, prio)
      before == GetRdyPriSeqNum(m, seqNum)
      last == [m EXCEPT !.pris[seqNum].RdyTaskPri = t, !.bits = @ \union {seqNum}]
  IN IF seqNum \in m.bits
     THEN [last EXCEPT !.rdy = LinkAfter(@, m.pris[seqNum].RdyTaskPri, t)]
     ELSE IF before = INVALID_ID
     THEN [last EXCEPT !.rdy = <<t>> \o @, !.req = TRUE]
     ELSE [last EXCEPT !.rdy = LinkAfter(@, m.pris[before].RdyTaskPri, t)]

\* The task is the last ready one of its priority when the next has another;
\* it is the only one when the task before it has another too.  prioOf is what
\* the TCBs hold now.
RemoveFromTCBRdyList(m, t, prioOf) ==
  LET at == SelectInSeq(m.rdy, LAMBDA u : u = t)
      prio == prioOf[t]
      seqNum == GetPriSeqNum(m.pris, prio)
      SamePrio(i) == i \in DOMAIN m.rdy /\ prioOf[m.rdy[i]] = prio
      out == [m EXCEPT !.rdy = Remove(@, t)]
  IN IF SamePrio(at + 1) THEN out
     ELSE IF SamePrio(at - 1) THEN [out EXCEPT !.pris[seqNum].RdyTaskPri = m.rdy[at - 1]]
     ELSE [out EXCEPT !.pris[seqNum].RdyTaskPri = INVALID_ID, !.bits = @ \ {seqNum}]

Now == [pris |-> pris, bits |-> RdyTaskPriInfo, rdy |-> TCBRdy, req |-> FALSE]
Becomes(m) ==
  pris' = m.pris /\ RdyTaskPriInfo' = m.bits /\ TCBRdy' = m.rdy /\ TaskSchedReq' = m.req
WithTable(m, table) == [m EXCEPT !.pris = table.pris, !.bits = table.bits]

\* The same on the ordered list.
ListInsert(list, t, prioOf) ==
  LET k == Cardinality({i \in DOMAIN list : prioOf[list[i]] <= prioOf[t]})
  IN [rdy |-> InsertAt(list, k + 1, t), req |-> k = 0]
ListRemove(list, t) == [rdy |-> Remove(list, t), req |-> FALSE]

---------------------------------------------------------------------------
(* What the kernel does with a task *)

CoCreateTask(t, prio) ==
  /\ taskState[t] = "DORMANT"
  /\ taskState' = [taskState EXCEPT ![t] = "READY"]
  /\ taskPrio' = [taskPrio EXCEPT ![t] = prio]
  /\ Becomes(InsertToTCBRdyList(WithTable(Now, ActiveTaskPri(Now, prio)), t, prio))
  /\ byList' = ListInsert(byList.rdy, t, taskPrio')

\* The task waits no more, or is preempted.
MakeReady(t) ==
  /\ taskState[t] = "OFF"
  /\ taskState' = [taskState EXCEPT ![t] = "READY"]
  /\ Becomes(InsertToTCBRdyList(Now, t, taskPrio[t]))
  /\ byList' = ListInsert(byList.rdy, t, taskPrio)
  /\ UNCHANGED taskPrio

\* The task is given the CPU, or suspended.
TakeOff(t) ==
  /\ taskState[t] = "READY"
  /\ taskState' = [taskState EXCEPT ![t] = "OFF"]
  /\ Becomes(RemoveFromTCBRdyList(Now, t, taskPrio))
  /\ byList' = ListRemove(byList.rdy, t)
  /\ UNCHANGED taskPrio

CoDelTask(t) ==
  LET out == IF taskState[t] = "READY" THEN RemoveFromTCBRdyList(Now, t, taskPrio) ELSE Now
  IN /\ taskState[t] # "DORMANT"
     /\ taskState' = [taskState EXCEPT ![t] = "DORMANT"]
     /\ Becomes(WithTable(out, DeleteTaskPri(out, taskPrio[t])))
     /\ byList' = ListRemove(byList.rdy, t)
     /\ UNCHANGED taskPrio

\* The table is changed first, then the task's priority, then its place.
CoSetPriority(t, prio) ==
  LET m == WithTable(Now, ActiveTaskPri(DeleteTaskPri(Now, taskPrio[t]), prio))
  IN /\ taskState[t] # "DORMANT" /\ prio # taskPrio[t]
     /\ taskState[t] = "READY" => PriorityOfReady
     /\ taskPrio' = [taskPrio EXCEPT ![t] = prio]
     /\ IF taskState[t] = "READY"
        THEN /\ Becomes(InsertToTCBRdyList(RemoveFromTCBRdyList(m, t, taskPrio'), t, prio))
             /\ byList' = ListInsert(Remove(byList.rdy, t), t, taskPrio')
        ELSE Becomes(m) /\ byList' = [byList EXCEPT !.req = FALSE]
     /\ UNCHANGED taskState

BinaryNext ==
  \E t \in Ids :
    \/ MakeReady(t) \/ TakeOff(t) \/ CoDelTask(t)
    \/ \E prio \in Prios : CoCreateTask(t, prio) \/ CoSetPriority(t, prio)

---------------------------------------------------------------------------
\* The table puts every task where walking the ordered list would: the two
\* schedulers hold the same ready list and ask for a switch at the same time.
SameOrder == TCBRdy = byList.rdy /\ TaskSchedReq = byList.req
=============================================================================
