------------------------------- MODULE CoTask -------------------------------
(***************************************************************************)
(* The task and time API of CoOS (task.c, time.c, core.c), called by a     *)
(* task from its own code.  A call that tests shared state before it takes *)
(* the scheduler lock is two steps with a preemption point between them.   *)
(***************************************************************************)
EXTENDS CoKernel

CONSTANTS
  Api,       \* the pairs <<task, call>> the application makes
  Ids,       \* the task ids calls are made with
  Delays,    \* the tick counts calls are made with
  Priorities,    \* the priorities CreateTask and CoSetPriority are called with
  LockToManage,  \* does the application lock the scheduler to manage another task?
  MaxLock    \* bound on nested CoSchedLock calls

ASSUME TaskApiAssumption ==
  /\ Delays \subseteq 0 .. INVALID_VALUE - 1
  /\ Priorities \subseteq 0 .. CFG_LOWEST_PRIO
  /\ Ids \subseteq Tasks /\ LockToManage \in BOOLEAN
  /\ MaxLock \in 1 .. 255

\* Task t, in its own code, makes the call.
Calls(t, call) == <<t, call>> \in Api /\ At(t, "app")

\* In such an application t manages itself, or u under CoSchedLock.
MayManage(t, u) == LockToManage => u = t \/ OSSchedLock > 0

WithArg(t, on, val) == arg' = [arg EXCEPT ![t] = [on |-> on, val |-> val]]

\* The call ends here: what it kept on its stack is gone.
Ends(t) == WithArg(t, NULL, 0) /\ UNCHANGED credit

\* The call goes on behind its unlocked tests, at label.
Continue(t, label, on, val) ==
  /\ Goto(t, label) /\ WithArg(t, on, val)
  /\ UNCHANGED <<listVars, delayVars, eventVars, poolVars, runVars, reqVars, OSSchedLock, ret, credit>>

Dormant(u) == CFG_PAR_CHECKOUT_EN /\ state[u] = "DORMANT"

---------------------------------------------------------------------------
CoSchedLock(t) ==
  /\ Calls(t, "CoSchedLock")
  /\ OSSchedLock < MaxLock
  /\ OSSchedLock' = OSSchedLock + 1
  /\ UNCHANGED <<listVars, delayVars, eventVars, poolVars, runVars, reqVars, callVars, pc, ret>>

\* Only the task that took the lock runs while it is held.
CoSchedUnlock(t) ==
  /\ Calls(t, "CoSchedUnlock")
  /\ OSSchedLock > 0
  /\ IF OSSchedLock = 1
     THEN Goto(t, "respond") /\ ret' = [ret EXCEPT ![t] = "app"] /\ UNCHANGED OSSchedLock
     ELSE OSSchedLock' = OSSchedLock - 1 /\ UNCHANGED <<pc, ret>>
  /\ UNCHANGED <<listVars, delayVars, eventVars, poolVars, runVars, reqVars, callVars>>

CoTickDelay(t, ticks) ==
  /\ Calls(t, "CoTickDelay")
  /\ ticks # 0 /\ OSSchedLock = 0
  /\ LinkDelay(t, ticks) /\ Block(t)
  /\ LockedSection(t, "app")
  /\ UNCHANGED <<TCBRdy, eventVars, poolVars, runVars, reqVars, callVars>>

CoResetTaskDelayTick(t, u, ticks) ==
  /\ Calls(t, "CoResetTaskDelayTick") /\ MayManage(t, u)
  /\ delay[u] # INVALID_VALUE
  /\ Continue(t, "reset", u, ticks)

\* RemoveDelayList(ptcb), then InsertDelayList or InsertToTCBRdyList.
ResetBody(t) ==
  /\ At(t, "reset")
  /\ LET u == arg[t].on
         rest == Unlink(DlyList, u)
         d == [delay EXCEPT ![u] = IF arg[t].val = 0 THEN INVALID_VALUE ELSE arg[t].val]
     IN IF ~Contains(DlyList, u) THEN Fault(t)
        ELSE /\ delay' = d
             /\ IF arg[t].val = 0
                THEN DlyList' = rest /\ InsertToTCBRdyList(u)
                ELSE DlyList' = InsertBy(rest, d, u) /\ Block(u) /\ UNCHANGED TCBRdy
             /\ LockedSection(t, "app")
             /\ UNCHANGED <<eventVars, poolVars, runVars, reqVars>>
  /\ UNCHANGED callVars

---------------------------------------------------------------------------
\* AssignTCB(), the first locked section of CreateTask.
CreateTask(t, p, waiting) ==
  /\ Calls(t, "CreateTask")
  /\ IF FreeTCB = <<>>
     THEN LockedSection(t, "app") /\ UNCHANGED <<FreeTCB, arg>>
     ELSE /\ FreeTCB' = Tail(FreeTCB)
          /\ WithArg(t, Head(FreeTCB), p)
          /\ LockedSection(t, IF waiting THEN "initwait" ELSE "init")
  /\ UNCHANGED <<listVars, delayVars, eventVars, prio, ecb, FreeEventList, runVars, reqVars, credit>>

\* The fields of a TCB nobody else knows, then InsertToTCBRdyList under the
\* lock; a task created waiting is not inserted.  The task will start at its
\* entry point.
InitTask(t) ==
  /\ At(t, "init") \/ At(t, "initwait")
  /\ LET u == arg[t].on
         p == [prio EXCEPT ![u] = arg[t].val]
     IN /\ prio' = p
        /\ delay' = [delay EXCEPT ![u] = INVALID_VALUE]
        /\ eventID' = [eventID EXCEPT ![u] = NULL]
        /\ pmail' = [pmail EXCEPT ![u] = NULL]
        /\ stalePrev' = stalePrev \ {u}
        /\ IF pc[t] = "init"
           THEN /\ state' = [state EXCEPT ![u] = "READY"]
                /\ TCBRdy' = InsertBy(TCBRdy, p, u)
                /\ TaskSchedReq' = (TaskSchedReq \/ TCBRdy = <<>> \/ p[u] < p[Head(TCBRdy)])
                /\ OSSchedLock' = (IF OSSchedLock = 0 THEN 1 ELSE OSSchedLock)
                /\ pc' = [pc EXCEPT ![u] = "app", ![t] = IF OSSchedLock = 0 THEN "respond" ELSE "app"]
                /\ ret' = [ret EXCEPT ![t] = "app"]
           ELSE /\ state' = [state EXCEPT ![u] = "WAITING"]
                /\ pc' = [pc EXCEPT ![u] = "app", ![t] = "app"]
                /\ UNCHANGED <<TCBRdy, TaskSchedReq, OSSchedLock, ret>>
  /\ UNCHANGED <<DlyList, eventCounter, eventPtr, eventTCBList, FreeTCB, ecb, FreeEventList,
                 runVars, reqVars, callVars>>

CoDelTask(t, u) ==
  /\ Calls(t, "CoDelTask") \/ (u = t /\ Calls(t, "CoExitTask"))
  /\ MayManage(t, u)
  /\ ~Dormant(u) /\ u # Idle
  /\ ~(state[u] = "RUNNING" /\ OSSchedLock # 0)
  /\ Continue(t, "delete", u, 0)

\* A READY task is unlinked from the ready list; a WAITING one from the
\* delay list and from its event.  A TCB already free would enter FreeTCB
\* twice.
DeleteBody(t) ==
  /\ At(t, "delete")
  /\ LET u == arg[t].on IN
     IF \/ Contains(FreeTCB, u) \/ (state[u] = "READY" /\ ~Contains(TCBRdy, u))
        \/ state[u] = "WAITING" /\ eventID[u] # NULL /\ Misled(u)
     THEN Fault(t)
     ELSE /\ TCBRdy' = IF state[u] = "READY" THEN Unlink(TCBRdy, u) ELSE TCBRdy
          /\ IF state[u] = "WAITING" /\ delay[u] # INVALID_VALUE
             THEN RemoveDelayList(u) ELSE UNCHANGED delayVars
          /\ IF state[u] = "WAITING" /\ eventID[u] # NULL
             THEN RemoveEventWaittingList(u) ELSE UNCHANGED <<eventID, eventTCBList>>
          /\ state' = [state EXCEPT ![u] = "DORMANT"]
          /\ TaskSchedReq' = TRUE
          /\ FreeTCB' = <<u>> \o FreeTCB
          /\ LockedSection(t, "app")
          /\ UNCHANGED <<pmail, eventCounter, eventPtr, stalePrev, prio, ecb, FreeEventList, runVars, reqVars>>
  /\ UNCHANGED callVars

CoSuspendTask(t, u) ==
  /\ Calls(t, "CoSuspendTask")
  /\ u # Idle /\ ~Dormant(u)
  /\ OSSchedLock = 0
  /\ state[u] # "WAITING"
  /\ Continue(t, "suspend", u, 0)

SuspendBody(t) ==
  /\ At(t, "suspend")
  /\ LET u == arg[t].on IN
     IF u # TCBRunning /\ ~Contains(TCBRdy, u) THEN Fault(t)
     ELSE /\ TCBRdy' = IF u # TCBRunning THEN Unlink(TCBRdy, u) ELSE TCBRdy
          /\ TaskSchedReq' = (TaskSchedReq \/ u = TCBRunning)
          /\ state' = [state EXCEPT ![u] = "WAITING"]
          /\ LockedSection(t, "app")
          /\ UNCHANGED <<delayVars, eventVars, poolVars, runVars, reqVars>>
  /\ UNCHANGED callVars

CoAwakeTask(t, u) ==
  /\ Calls(t, "CoAwakeTask") /\ MayManage(t, u)
  /\ u # Idle /\ ~Dormant(u)
  /\ state[u] = "WAITING" /\ delay[u] = INVALID_VALUE /\ eventID[u] = NULL
  /\ Continue(t, "awake", u, 0)

AwakeBody(t) ==
  /\ At(t, "awake")
  /\ LET u == arg[t].on IN
     IF state[u] # "WAITING" \/ Contains(DlyList, u) THEN Fault(t)
     ELSE /\ InsertToTCBRdyList(u)
          /\ LockedSection(t, "app")
          /\ UNCHANGED <<delayVars, eventVars, poolVars, runVars, reqVars>>
  /\ UNCHANGED callVars

---------------------------------------------------------------------------
\* A slip to rule out: a waiting task keeps its place whatever its priority.
NeverInPrioList(u) == FALSE

InPrioList(u) ==
  /\ state[u] \notin {"READY", "RUNNING"}
  /\ eventID[u] # NULL
  /\ ecb[eventID[u]].eventSortType = "PRIO"

\* The new priority is stored before the lock is taken; where the task has
\* to be moved depends on the state read at that point.
CoSetPriority(t, u, p) ==
  /\ Calls(t, "CoSetPriority") /\ MayManage(t, u)
  /\ u # Idle /\ ~Dormant(u) /\ prio[u] # p
  /\ prio' = [prio EXCEPT ![u] = p]
  /\ WithArg(t, u, eventID[u])
  /\ Goto(t, IF state[u] = "READY" THEN "reorder"
             ELSE IF state[u] = "RUNNING" /\ p > prio[Head(TCBRdy)] THEN "resched"
             ELSE IF InPrioList(u) THEN "unwait" ELSE "app")
  /\ UNCHANGED <<listVars, delayVars, eventVars, FreeTCB, ecb, FreeEventList, runVars, reqVars,
                 credit, OSSchedLock, ret>>

ReorderBody(t) ==
  /\ At(t, "reorder")
  /\ LET u == arg[t].on
         rest == Unlink(TCBRdy, u)
     IN IF ~Contains(TCBRdy, u) THEN Fault(t)
        ELSE /\ state' = [state EXCEPT ![u] = "READY"]
             /\ TCBRdy' = InsertBy(rest, prio, u)
             /\ TaskSchedReq' = (TaskSchedReq \/ rest = <<>> \/ prio[u] < prio[Head(rest)])
             /\ LockedSection(t, "app")
             /\ UNCHANGED <<delayVars, eventVars, poolVars, runVars, reqVars>>
  /\ UNCHANGED callVars

\* A slip to rule out: a task that lowers itself keeps the CPU.
KeepRunningBody(t) ==
  /\ At(t, "resched")
  /\ LockedSection(t, "app")
  /\ UNCHANGED <<listVars, delayVars, eventVars, poolVars, runVars, reqVars, callVars>>

RescheduleBody(t) ==
  /\ At(t, "resched")
  /\ TaskSchedReq' = TRUE
  /\ LockedSection(t, "app")
  /\ UNCHANGED <<state, TCBRdy, delayVars, eventVars, poolVars, runVars, reqVars, callVars>>

\* RemoveEventWaittingList runs without the lock, on the eventID it finds
\* then; EventTaskToWait takes the lock, for the event read at the start.
UnwaitBody(t) ==
  /\ At(t, "unwait")
  /\ LET u == arg[t].on IN
     IF eventID[u] = NULL \/ Misled(u) THEN Fault(t)
     ELSE /\ RemoveEventWaittingList(u)
          /\ Goto(t, "rewait")
          /\ UNCHANGED <<listVars, delayVars, pmail, eventCounter, eventPtr, stalePrev, poolVars, runVars,
                         reqVars, OSSchedLock, ret>>
  /\ UNCHANGED callVars

RewaitBody(t) ==
  /\ At(t, "rewait")
  /\ LET u == arg[t].on IN
     IF state[u] # "WAITING" THEN Fault(t)
     ELSE /\ LinkEvent(arg[t].val, u) /\ Block(u)
          /\ LockedSection(t, "app")
          /\ UNCHANGED <<TCBRdy, delayVars, pmail, eventCounter, eventPtr, poolVars, runVars, reqVars>>
  /\ UNCHANGED callVars

---------------------------------------------------------------------------
TaskCall(t) ==
  \/ CoSchedLock(t) \/ CoSchedUnlock(t)
  \/ \E ticks \in Delays : CoTickDelay(t, ticks)
  \/ \E u \in Ids, ticks \in Delays : CoResetTaskDelayTick(t, u, ticks)
  \/ \E p \in Priorities, waiting \in BOOLEAN : CreateTask(t, p, waiting)
  \/ \E u \in Ids : CoDelTask(t, u) \/ CoSuspendTask(t, u) \/ CoAwakeTask(t, u)
  \/ \E u \in Ids, p \in Priorities : CoSetPriority(t, u, p)

TaskStep(t) ==
  \/ ResetBody(t) \/ InitTask(t) \/ DeleteBody(t) \/ SuspendBody(t) \/ AwakeBody(t)
  \/ ReorderBody(t) \/ RescheduleBody(t) \/ UnwaitBody(t) \/ RewaitBody(t)
=============================================================================
