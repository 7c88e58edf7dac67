------------------------------ MODULE CoMutex -------------------------------
(***************************************************************************)
(* The mutexes of CoOS (mutex.c) and what task.c does about them when a    *)
(* task is deleted or its priority is changed: a task that has to wait     *)
(* lends its priority to the owner, and the owner hands the mutex, and the *)
(* priority that goes with it, to the first task of the waiting list.      *)
(***************************************************************************)
EXTENDS CoOS

CONSTANT CFG_MAX_MUTEX
Mutexes == 0 .. CFG_MAX_MUTEX - 1

\* INVALID_ID is the id of no mutex.
ASSUME MutexAssumption == CFG_MAX_MUTEX \in Nat /\ NULL \notin Mutexes

VARIABLES
  mutexID,       \* field of the TCBs: the mutex last entered or waited for
  MutexTbl,      \* mutexFlag, taskID, hipriTaskID, originalPrio, waittingList; and, of
                 \* its TCBs, whether the head's TCBprev names a task that left the list
  MutexFreeID,   \* mutexes are created in the order of their ids
  inside,        \* history: the mutex a task was let into and has not left
  asked          \* history: the priority the application gave a task

mutexVars == <<mutexID, MutexTbl, MutexFreeID, inside, asked>>

MutexInit ==
  /\ mutexID = [t \in Tasks |-> NULL]
  /\ MutexTbl = [m \in Mutexes |-> [mutexFlag |-> "FREE", taskID |-> Idle, hipriTaskID |-> Idle,
                                    originalPrio |-> 0, waittingList |-> <<>>, staleHead |-> FALSE]]
  /\ MutexFreeID = 0
  /\ inside = [t \in Tasks |-> NULL]
  /\ asked = BootPrio

\* The most urgent of the waiting tasks, none of them taken for floor.
Lowest(list, floor) ==
  LET prios == {floor} \cup {prio[list[i]] : i \in DOMAIN list} IN
  CHOOSE p \in prios : \A q \in prios : p <= q
HighestWaiter(list, floor, none) ==
  IF Lowest(list, floor) = floor THEN none
  ELSE list[CHOOSE i \in DOMAIN list : /\ prio[list[i]] = Lowest(list, floor)
                                       /\ \A j \in 1 .. i - 1 : prio[list[j]] # prio[list[i]]]

\* The lists once task o, not running, has priority p: its place in the ready
\* list or in a PRIO waiting list follows.  No event is deleted where mutexes are
\* used, so that no back link of such a list is stale.
Reordered(o, p) ==
  IF state[o] = "READY" THEN InsertBy(Unlink(TCBRdy, o), [prio EXCEPT ![o] = p], o) ELSE TCBRdy
Requeued(o, p) ==
  IF InPrioList(o)
  THEN [eventTCBList EXCEPT ![eventID[o]] = InsertBy(Unlink(@, o), [prio EXCEPT ![o] = p], o)]
  ELSE eventTCBList

---------------------------------------------------------------------------
CoCreateMutex(t) ==
  /\ Calls(t, "CoCreateMutex")
  /\ IF MutexFreeID < CFG_MAX_MUTEX
     THEN /\ MutexFreeID' = MutexFreeID + 1
          /\ WithArg(t, MutexFreeID, 0)
          /\ LockedSection(t, "initmutex")
     ELSE LockedSection(t, "app") /\ UNCHANGED <<MutexFreeID, arg>>
  /\ UNCHANGED <<listVars, delayVars, eventVars, poolVars, runVars, reqVars, credit,
                 mutexID, MutexTbl, inside, asked>>

\* The block is filled in behind the lock, before the id is returned.
InitMutex(t) ==
  /\ At(t, "initmutex")
  /\ MutexTbl' = [MutexTbl EXCEPT ![arg[t].on] =
       [mutexFlag |-> "FREE", taskID |-> NULL, hipriTaskID |-> NULL, originalPrio |-> 255,
        waittingList |-> <<>>, staleHead |-> FALSE]]
  /\ Goto(t, "app")
  /\ UNCHANGED <<listVars, delayVars, eventVars, poolVars, runVars, reqVars, callVars, OSSchedLock,
                 ret, mutexID, MutexFreeID, inside, asked>>

\* The ids the application has been given.
Created(m) == m < MutexFreeID /\ \A t \in Tasks : After(t) = "initmutex" => arg[t].on # m

---------------------------------------------------------------------------
Occupy(t, m) ==
  /\ MutexTbl' = [MutexTbl EXCEPT ![m].mutexFlag = "OCCUPY", ![m].taskID = t,
                                  ![m].hipriTaskID = t, ![m].originalPrio = prio[t]]
  /\ UNCHANGED <<listVars, prio, eventTCBList>>

\* A slip to rule out: a waiting task lends the owner nothing.
WaitQuietly(t, m) ==
  /\ MutexTbl' = [MutexTbl EXCEPT ![m].waittingList = Append(@, t)]
  /\ Block(t)
  /\ UNCHANGED <<prio, TCBRdy, eventTCBList>>

\* The owner is promoted, then the caller goes to the end of the list.
WaitForOwner(t, m) ==
  LET o == MutexTbl[m].taskID
      promote == prio[o] > prio[t]
  IN /\ MutexTbl' = [MutexTbl EXCEPT ![m].waittingList = Append(@, t),
                                     ![m].hipriTaskID = IF promote THEN t ELSE @]
     /\ prio' = IF promote THEN [prio EXCEPT ![o] = prio[t]] ELSE prio
     /\ TCBRdy' = IF promote THEN Reordered(o, prio[t]) ELSE TCBRdy
     /\ eventTCBList' = IF promote THEN Requeued(o, prio[t]) ELSE eventTCBList
     /\ Block(t)

\* The application enters one mutex at a time and not one it is in.
CoEnterMutexSection(t, m) ==
  /\ Calls(t, "CoEnterMutexSection") /\ inside[t] = NULL
  /\ OSSchedLock = 0 /\ Created(m)
  /\ mutexID' = [mutexID EXCEPT ![t] = m]
  /\ IF MutexTbl[m].mutexFlag = "FREE" THEN Occupy(t, m) ELSE WaitForOwner(t, m)
  /\ WithArg(t, m, 0) /\ LockedSection(t, "entered")
  /\ UNCHANGED <<delayVars, eventID, pmail, eventCounter, eventPtr, stalePrev, FreeTCB, ecb, FreeEventList,
                 runVars, reqVars, credit, MutexFreeID, inside, asked>>

\* The call returns E_OK.
Entered(t) ==
  /\ At(t, "entered")
  /\ inside' = [inside EXCEPT ![t] = arg[t].on]
  /\ Goto(t, "app")
  /\ UNCHANGED <<listVars, delayVars, eventVars, poolVars, runVars, reqVars, callVars, OSSchedLock,
                 ret, mutexID, MutexTbl, MutexFreeID, asked>>

---------------------------------------------------------------------------
FreeMutex(m) ==
  /\ MutexTbl' = [MutexTbl EXCEPT ![m].mutexFlag = "FREE", ![m].taskID = NULL]
  /\ UNCHANGED <<listVars, prio, eventTCBList>>

\* A slip to rule out: the mutex is handed over and free for all as well.
HandOverFree(m) ==
  /\ MutexTbl' = [MutexTbl EXCEPT ![m].mutexFlag = "FREE", ![m].taskID = Head(MutexTbl[m].waittingList),
                                  ![m].waittingList = Tail(@),
                                  ![m].staleHead = Len(MutexTbl[m].waittingList) > 1]
  /\ InsertToTCBRdyList(Head(MutexTbl[m].waittingList))
  /\ UNCHANGED <<prio, eventTCBList>>

\* CoSetPriority(owner, originalPrio), then the first waiting task becomes the
\* owner with the priority the old owner was lent, or with the highest of the
\* waiting tasks.  hipriTaskID keeps its value when that is the first one's.  The
\* TCBprev of the task that is the head from now on still names the new owner.
HandOver(m) ==
  LET o == MutexTbl[m].taskID
      list == MutexTbl[m].waittingList
      w == Head(list)
      orig == MutexTbl[m].originalPrio
      unlent == MutexTbl[m].hipriTaskID = o
      passed == IF unlent THEN Lowest(list, prio[w]) ELSE prio[o]
      moved == prio[o] # orig
      rest == IF moved THEN Reordered(o, orig) ELSE TCBRdy
      after == [prio EXCEPT ![o] = orig, ![w] = passed]
  IN /\ MutexTbl' = [MutexTbl EXCEPT
          ![m].hipriTaskID = IF unlent THEN HighestWaiter(list, prio[w], @) ELSE @,
          ![m].waittingList = Tail(@), ![m].staleHead = Len(list) > 1, ![m].originalPrio = prio[w], ![m].taskID = w]
     /\ prio' = after
     /\ eventTCBList' = IF moved THEN Requeued(o, orig) ELSE eventTCBList
     /\ state' = [state EXCEPT ![w] = "READY"]
     /\ TCBRdy' = InsertBy(rest, after, w)
     /\ TaskSchedReq' = \/ TaskSchedReq
                        \/ moved /\ (state[o] = "READY" => rest[1] = o)
                                 /\ (state[o] = "RUNNING" => orig > prio[Head(TCBRdy)])
                                 /\ (state[o] = "WAITING" => InPrioList(o))
                        \/ rest = <<>> \/ after[w] < after[Head(rest)]

\* The body, for whichever task owns the mutex.
LeaveBody(m) ==
  /\ mutexID' = [mutexID EXCEPT ![MutexTbl[m].taskID] = NULL]
  /\ inside' = [inside EXCEPT ![MutexTbl[m].taskID] = NULL]
  /\ IF MutexTbl[m].waittingList = <<>> THEN FreeMutex(m) ELSE HandOver(m)
  /\ UNCHANGED <<delayVars, eventID, pmail, eventCounter, eventPtr, stalePrev, FreeTCB, ecb, FreeEventList,
                 runVars, reqVars, credit, MutexFreeID, asked>>

\* The application leaves the mutex it is in.
CoLeaveMutexSection(t, m) ==
  /\ Calls(t, "CoLeaveMutexSection") /\ inside[t] = m
  /\ LeaveBody(m) /\ LockedSection(t, "app") /\ UNCHANGED arg

---------------------------------------------------------------------------
Holds(u) == mutexID[u] # NULL /\ MutexTbl[mutexID[u]].taskID = u

\* CoDelTask of an owner leaves the mutex first; mutexID and taskID are read
\* without the lock.
DelMutexTask(t, u) ==
  /\ Calls(t, "CoDelTask") \/ (u = t /\ Calls(t, "CoExitTask"))
  /\ MayManage(t, u) /\ ~Dormant(u) /\ u # Idle
  /\ ~(state[u] = "RUNNING" /\ OSSchedLock # 0)
  /\ IF Holds(u)
     THEN LeaveBody(mutexID[u]) /\ WithArg(t, u, 0) /\ LockedSection(t, "delete")
     ELSE Continue(t, "delete", u, 0) /\ UNCHANGED mutexVars

\* RemoveMutexList goes by the links of u.  The first of several tasks stays the
\* head (mutex.c:310).  A head whose TCBprev names the owner it once stood behind is
\* taken for the last one or for one in the middle: the owner's link in the ready
\* list is written, and u stays the head (mutex.c:304, 316).
LinksMislead(u) ==
  LET mx == MutexTbl[mutexID[u]]
  IN mx.waittingList # <<>> /\ Head(mx.waittingList) = u /\ (Len(mx.waittingList) > 1 \/ mx.staleHead)

\* RemoveMutexList of any other task: the only one, or one behind the head.  The
\* owner's priority follows when the deleted task was the one it was lent by; its
\* originalPrio stays, as taskID is hidden from CoSetPriority meanwhile.
LeaveWaitingList(u) ==
  LET m == mutexID[u]
      o == MutexTbl[m].taskID
      list == Unlink(MutexTbl[m].waittingList, u)
      orig == MutexTbl[m].originalPrio
      low == Lowest(list, orig)
      lent == MutexTbl[m].hipriTaskID = u
      none == IF state[o] = "WAITING" /\ prio[o] # low THEN NULL ELSE o
  IN /\ MutexTbl' = [MutexTbl EXCEPT ![m].waittingList = list,
                       ![m].hipriTaskID = IF lent THEN HighestWaiter(list, orig, none) ELSE @]
     /\ mutexID' = [mutexID EXCEPT ![u] = NULL]
     /\ IF lent /\ prio[o] # low
        THEN /\ prio' = [prio EXCEPT ![o] = low]
             /\ TCBRdy' = Reordered(o, low)
             /\ eventTCBList' = Requeued(o, low)
        ELSE UNCHANGED <<prio, TCBRdy, eventTCBList>>

\* Where the links mislead, or the delay is one a tick has spoilt (then RemoveDelayList
\* is called for a task in no list), a list is corrupt from there on, and the model
\* stops the task.
DeleteWaitingBody(t) ==
  /\ At(t, "delete")
  /\ LET u == arg[t].on IN
     /\ state[u] = "WAITING" /\ mutexID[u] # NULL /\ ~Contains(FreeTCB, u)
     /\ IF LinksMislead(u) \/ delay[u] # INVALID_VALUE
        THEN Fault(t) /\ UNCHANGED <<mutexID, MutexTbl>>
        ELSE /\ LeaveWaitingList(u)
             /\ state' = [state EXCEPT ![u] = "DORMANT"]
             /\ TaskSchedReq' = TRUE
             /\ FreeTCB' = <<u>> \o FreeTCB
             /\ LockedSection(t, "app")
             /\ UNCHANGED <<delayVars, eventID, pmail, eventCounter, eventPtr, stalePrev, ecb,
                            FreeEventList, runVars, reqVars>>
  /\ UNCHANGED <<callVars, MutexFreeID, inside, asked>>

---------------------------------------------------------------------------
\* CoSetPriority behind its first tests: an owner's new priority is kept for
\* the time it leaves the mutex, and does not lower what it was lent.
GivePriority(t, u, p) ==
  /\ MutexTbl' = IF Holds(u) THEN [MutexTbl EXCEPT ![mutexID[u]].originalPrio = p] ELSE MutexTbl
  /\ IF Holds(u) /\ prio[u] < p
     THEN Goto(t, "app") /\ UNCHANGED <<prio, arg>>
     ELSE /\ prio' = [prio EXCEPT ![u] = p]
          /\ WithArg(t, u, eventID[u])
          /\ Goto(t, IF state[u] = "READY" THEN "reorder"
                     ELSE IF state[u] = "RUNNING"
                     THEN IF p > prio[Head(TCBRdy)] THEN "resched" ELSE "app"
                     ELSE IF mutexID[u] # NULL THEN "hipri"
                     ELSE IF InPrioList(u) THEN "unwait" ELSE "app")
  /\ UNCHANGED <<listVars, delayVars, eventVars, FreeTCB, ecb, FreeEventList, runVars, reqVars,
                 credit, OSSchedLock, ret, mutexID, MutexFreeID, inside>>

SetMutexPriority(t, u, p) ==
  /\ Calls(t, "CoSetPriority") /\ MayManage(t, u)
  /\ u # Idle /\ ~Dormant(u) /\ prio[u] # p
  /\ GivePriority(t, u, p)
  /\ asked' = [asked EXCEPT ![u] = p]

\* The highest priority of the waiting tasks is found again; where it is not
\* the owner's own, CoSetPriority is called for the owner.
HipriBody(t) ==
  /\ At(t, "hipri")
  /\ LET u == arg[t].on
         mx == MutexTbl[mutexID[u]]
         low == Lowest(mx.waittingList, mx.originalPrio)
     IN /\ MutexTbl' = [MutexTbl EXCEPT ![mutexID[u]].hipriTaskID =
                          HighestWaiter(mx.waittingList, mx.originalPrio, mx.taskID)]
        /\ WithArg(t, u, low)
        /\ LockedSection(t, IF mx.originalPrio # low THEN "reown" ELSE "reevent")
  /\ UNCHANGED <<listVars, delayVars, eventVars, poolVars, runVars, reqVars, credit,
                 mutexID, MutexFreeID, inside, asked>>

ReownBody(t) ==
  /\ At(t, "reown")
  /\ LET o == MutexTbl[mutexID[arg[t].on]].taskID IN
     IF prio[o] = arg[t].val
     THEN /\ Goto(t, "app")
          /\ UNCHANGED <<listVars, delayVars, eventVars, poolVars, runVars, reqVars, callVars,
                         OSSchedLock, ret, mutexID, MutexTbl, MutexFreeID, inside>>
     ELSE GivePriority(t, o, arg[t].val)
  /\ UNCHANGED asked

\* The test for an event, behind that unlock.
ReeventBody(t) ==
  /\ At(t, "reevent")
  /\ WithArg(t, arg[t].on, eventID[arg[t].on])
  /\ Goto(t, IF InPrioList(arg[t].on) THEN "unwait" ELSE "app")
  /\ UNCHANGED <<listVars, delayVars, eventVars, poolVars, runVars, reqVars, credit, OSSchedLock, ret,
                 mutexVars>>

---------------------------------------------------------------------------
MutexCall(t) ==
  \/ CoCreateMutex(t)
  \/ \E m \in Mutexes : CoEnterMutexSection(t, m) \/ CoLeaveMutexSection(t, m)

MutexStep(t) ==
  \/ InitMutex(t) \/ Entered(t) \/ DeleteWaitingBody(t) \/ HipriBody(t) \/ ReownBody(t)
  \/ ReeventBody(t)
=============================================================================
