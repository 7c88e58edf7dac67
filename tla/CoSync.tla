------------------------------- MODULE CoSync -------------------------------
(***************************************************************************)
(* The kernel with an application that uses its mutexes, its message       *)
(* queues or its event flags, whichever app says, and some of the calls    *)
(* that go with them.  Queues are posted to, and flags set, by a task or   *)
(* by the user's interrupt.                                                *)
(***************************************************************************)
EXTENDS CoMutex, CoQueue, CoFlag

CONSTANT Apps    \* applications: the objects each uses, what else it does, the tasks in it

ASSUME AppAssumption ==
  Apps \subseteq [uses : {"mutex", "queue", "flag"}, tasks : SUBSET Tasks,
                  also : SUBSET {"isr", "delete", "clear", "semaphore", "priority", "sleep"}]

VARIABLE app

svars == <<vars, mutexVars, queueVars, flagVars, app>>

SInit == Init /\ MutexInit /\ QueueInit /\ FlagInit /\ app \in Apps

NoMutex == UNCHANGED mutexVars
NoQueues == UNCHANGED queueVars
NoFlag == UNCHANGED flagVars
UseMutex == app.uses = "mutex" /\ NoQueues /\ NoFlag
UseQueue == app.uses = "queue" /\ NoMutex /\ NoFlag
UseFlag == app.uses = "flag" /\ NoMutex /\ NoQueues
Also(what) == what \in app.also
UseNone == NoMutex /\ NoQueues /\ NoFlag

\* Deleting the first of several tasks that wait for a mutex (mutex.c:310), or one
\* that came to be the first when the mutex was handed over (mutex.c:255-272),
\* corrupts the lists: this application does not.
Undeletable(u) == mutexID[u] # NULL /\ LinksMislead(u)

\* Inside a mutex a task waits for a semaphore without a time-out: one that ends
\* while CoSetPriority follows the owner breaks the event's list (task.c:682).
SemCalls(t) ==
  /\ Also("semaphore")
  /\ \E e \in Events : ecb[e].eventType = "SEM" /\ (CoPostSem(t, e) \/ CoPendSem(t, e, 0))
DelayCalls(t) == (t = BootOrder[1] \/ Also("sleep")) /\ \E ticks \in Delays : CoTickDelay(t, ticks)
PriorityCalls(t) ==
  Also("priority") /\ \E u \in Ids, p \in Priorities : SetMutexPriority(t, u, p)
DelTaskCalls(t) == Also("delete") /\ \E u \in Ids : DelMutexTask(t, u) /\ ~Undeletable(u)
PostCalls(t) == ~Also("isr") /\ \E e \in Events, mail \in Mails : CoPostQueueMail(t, e, mail)
DelQueueCalls(t) ==
  Also("delete") /\ \E e \in Events, anyway \in BOOLEAN : CoDelQueue(t, e, anyway)
DelFlagCalls(t) == Also("delete") /\ \E f \in Flags, anyway \in BOOLEAN : CoDelFlag(t, f, anyway)
SetCalls(t) ==
  \E f \in Flags : \/ ~Also("isr") /\ CoSetFlag(t, f)
                   \/ Also("clear") /\ CoClearFlag(t, f)

\* Waiting for ever, where it is the interrupt that posts and sets.
PatientCalls(t) ==
  /\ Also("isr")
  /\ \/ UseQueue /\ \E e \in Events : CoPendQueueMail(t, e, 0)
     \/ UseFlag /\ \E w \in Waits : CoWaitForFlags(t, w, 0)

SCall(t) ==
  /\ t \in app.tasks
  /\ \/ (MutexCall(t) \/ PriorityCalls(t) \/ DelTaskCalls(t)) /\ UseMutex
     \/ SemCalls(t) /\ UseNone
     \/ PatientCalls(t)
     \/ (QueueCall(t) \/ PostCalls(t) \/ DelQueueCalls(t)) /\ UseQueue
     \/ (FlagCall(t) \/ SetCalls(t) \/ DelFlagCalls(t)) /\ UseFlag
     \/ DelayCalls(t) /\ UseNone

\* The step of a task that is deleting one that waits for a mutex.
DeletesWaiting(t) ==
  pc[t] = "delete" /\ state[arg[t].on] = "WAITING" /\ mutexID[arg[t].on] # NULL

SStep(t) ==
  \/ MutexStep(t) /\ UseMutex
  \/ QueueStep(t) /\ UseQueue
  \/ FlagStep(t) /\ UseFlag
  \/ ~DeletesWaiting(t) /\ (TaskStep(t) \/ BlockBody(t) \/ Woken(t) \/ PostSem(t)) /\ UseNone

KnownCell == ServiceReq # <<>> /\ Head(ServiceReq).type \in {"QUEUE", "FLAG"}

\* OsSchedUnlock, with flags and queues compiled in.
SUnlockStep(c) ==
  \/ DisposeHead(c) /\ DisposeNode(c) /\ NoMutex /\ NoQueues
  \/ RespondQueueCell(c) /\ UseQueue
  \/ RespondFlagCell(c) /\ UseFlag
  \/ /\ \/ BeginUnlock(c) \/ UnlinkHead(c) \/ EndDispose(c) \/ ClearTimeReq(c)
        \/ EndCells(c) \/ ClearIsrReq(c) \/ UnlockSchedule(c) \/ ClearLock(c)
     /\ UseNone

SInterrupt ==
  \/ \E e \in Events, mail \in Mails : Also("isr") /\ isr_PostQueueMail(e, mail) /\ UseQueue
  \/ \E f \in Flags : Also("isr") /\ isr_SetFlag(f) /\ UseFlag

SNext ==
  /\ \/ \E t \in Tasks : SCall(t) \/ SStep(t) \/ SUnlockStep(t)
     \/ TickEnter /\ UseNone
     \/ SUnlockStep(SysTick) \/ SUnlockStep(Isr)
     \/ SInterrupt
     \/ (IsrExit \/ PendSV_Handler) /\ UseNone
  /\ UNCHANGED app

SSpec == SInit /\ [][SNext]_svars
---------------------------------------------------------------------------
(* Mutexes *)

\* A task is let in only as the owner, and one mutex has one owner: no two
\* tasks are in a section whatever was handed over, deleted or promoted in
\* between (CoEnterMutexSection, CoLeaveMutexSection, CoDelTask).
OneInside ==
  \A t \in Tasks : inside[t] # NULL =>
    MutexTbl[inside[t]].taskID = t /\ MutexTbl[inside[t]].mutexFlag = "OCCUPY" /\ mutexID[t] = inside[t]

\* CoDelTask is about to delete t and has left its mutex.
Leaving(t) == \E u \in Tasks : After(u) = "delete" /\ arg[u].on = t

\* The tasks in CoEnterMutexSection that have not been made the owner are in
\* the mutex's list, each once, WAITING; a free mutex has no list.
MutexListExact ==
  \A m \in Mutexes : LET list == MutexTbl[m].waittingList IN
    /\ IsInjective(list)
    /\ \A t \in Tasks : state[t] # "DORMANT" /\ ~Leaving(t) =>
         (Contains(list, t) <=> After(t) = "entered" /\ arg[t].on = m /\ MutexTbl[m].taskID # t)
    /\ \A i \in DOMAIN list : state[list[i]] = "WAITING"
    /\ MutexTbl[m].mutexFlag = "FREE" => list = <<>>

\* While tasks wait, the owner runs at a priority not below any of theirs
\* ("Promote prio of owner", mutex.c).
Inherits ==
  (\A t \in Tasks : pc[t] \notin {"hipri", "reown"} /\ After(t) # "reown") =>
    \A m \in Mutexes : \A i \in DOMAIN MutexTbl[m].waittingList :
      prio[MutexTbl[m].taskID] <= prio[MutexTbl[m].waittingList[i]]

\* A task that neither owns nor waits for a mutex has the priority the
\* application gave it.
PriorityGivenBack == \A t \in Tasks : mutexID[t] = NULL => prio[t] = asked[t]

---------------------------------------------------------------------------
(* Queues *)

\* The mails of the ring, oldest first.
Contents(e) ==
  IF IsQueue(e)
  THEN [i \in 1 .. QCB(e).qSize |-> QCB(e).qStart[(QCB(e).head + i - 1) % QCB(e).qMaxSize]]
  ELSE <<>>

---------------------------------------------------------------------------
(* Flags *)

\* A task has its node in the list exactly while it waits for flags, and is in
\* the delay list only while it does (FlagBlock, RemoveFromLink, TimeDispose).
FlagListExact ==
  /\ IsInjective(flagList)
  /\ \A t \in Tasks :
       /\ Contains(flagList, t) <=> pnode[t] = "node"
       /\ pnode[t] = "node" => state[t] = "WAITING" /\ After(t) = "flagwoken"
       /\ pnode[t] = "set" => state[t] # "WAITING" /\ ~Contains(DlyList, t)

\* The ready, delay and event lists, a mutex's list and the list of flags all
\* say of each task what its state and the call it is in say.
SyncListsExact == ListsExact /\ MutexListExact /\ FlagListExact

\* No task sleeps on flags that satisfy it, but for the time until the task
\* that was woken for an auto-reset flag resets it, and unless a flag it waited
\* for was deleted (CoSetFlag, CoWaitForMultipleFlags).
FlagsHeard ==
  \/ \E t \in Tasks : pnode[t] = "set" \/ pc[t] = "scanflags"
  \/ \A i \in DOMAIN flagList : LET t == flagList[i] IN
       node[t].flags = arg[t].on.flags => ~Satisfied(node[t], flagRdy)

---------------------------------------------------------------------------
\* Applications whose tasks, where they use mutexes, manage nobody but
\* themselves (LockToManage, and no such task calls CoSchedLock); pending for
\* ever is among the ways they pend.
MutexRules ==
  /\ Disciplined
  /\ \A a \in Apps : a.uses = "mutex" /\ "semaphore" \in a.also => 0 \in Timeouts
=============================================================================
