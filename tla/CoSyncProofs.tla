---------------------------- MODULE CoSyncProofs ----------------------------
(***************************************************************************)
(* TLAPS proofs about the mutexes of CoOS, for any number of tasks and     *)
(* mutexes, any priorities and any delays, in applications in which a task *)
(* manages only itself: it may change its own priority, sleep, wait for    *)
(* semaphores and exit, inside a mutex or outside.  The lists stay exact   *)
(* with the mutexes in them, at most one task is inside a mutex, and the   *)
(* owner of a mutex runs at a priority not below that of any task that     *)
(* waits for it.                                                           *)
(***************************************************************************)
EXTENDS CoSync, CoOSTokens

---------------------------------------------------------------------------
(* The inductive invariant *)

MutexTypes ==
  /\ mutexID \in [Tasks -> Mutexes \cup {NULL}] /\ inside \in [Tasks -> Mutexes \cup {NULL}]
  /\ MutexTbl \in [Mutexes -> [mutexFlag : {"FREE", "OCCUPY"}, taskID : Tasks \cup {NULL},
                               hipriTaskID : Tasks \cup {NULL}, originalPrio : Nat,
                               waittingList : Seq(Tasks), staleHead : BOOLEAN]]
  /\ MutexFreeID \in 0 .. CFG_MAX_MUTEX

\* Where the tasks of such an application are.  No task locks the scheduler and
\* no interrupt posts: whoever holds the lock is in its unlock, or is the tick.
Plain == {"app", "resched", "semblock", "semwoken", "postsem"}
AppInv ==
  /\ pc[Isr] = "off"
  /\ \A t \in Tasks : After(t) \in Plain \cup MutexLabels \cup {"off", "delete"}
  /\ OSSchedLock > 0 => HandlerLocks \/ pc[TCBRunning] \in UnlockLabels \cup {"clear"}

WaitsFor(t, m) == Contains(MutexTbl[m].waittingList, t)
Entering(t, m) == After(t) = "entered" /\ arg[t].on = m
Owns(t, m) == MutexTbl[m].mutexFlag = "OCCUPY" /\ MutexTbl[m].taskID = t

\* A mutex has an owner, who is inside or on its way in, or nobody waits for it;
\* a mutex that is not created yet is free.
OwnerInv ==
  \A m \in Mutexes :
    IF MutexTbl[m].mutexFlag = "OCCUPY"
    THEN \E o \in Tasks : /\ MutexTbl[m].taskID = o /\ (inside[o] = m \/ Entering(o, m))
                          /\ MutexTbl[m].originalPrio \in 0 .. CFG_LOWEST_PRIO /\ Created(m)
    ELSE MutexTbl[m].waittingList = <<>>

\* A task that is inside owns the mutex; a task on its way in owns it or waits.
EntryInv ==
  /\ \A t \in Tasks : inside[t] # NULL =>
       Owns(t, inside[t]) /\ mutexID[t] = inside[t] /\ After(t) \notin {"off", "delete", "entered"}
  /\ \A t \in Tasks : After(t) = "entered" =>
       /\ arg[t].on \in Mutexes /\ mutexID[t] = arg[t].on
       /\ Owns(t, arg[t].on) \/ WaitsFor(t, arg[t].on)
  /\ \A t \in Tasks : mutexID[t] # NULL => inside[t] = mutexID[t] \/ Entering(t, mutexID[t])
  /\ \A t \in Tasks : After(t) = "initmutex" => arg[t].on \in Mutexes

\* A task that waits for a mutex waits for nothing else.
Asleep(t) == state[t] = "WAITING" /\ eventID[t] = NULL /\ ~Contains(DlyList, t)
QueueInv ==
  \A m \in Mutexes :
    /\ IsInjective(MutexTbl[m].waittingList)
    /\ \A t \in Tasks : WaitsFor(t, m) => Asleep(t) /\ Entering(t, m) /\ MutexTbl[m].taskID # t

MutexInv == MutexTypes /\ AppInv /\ OwnerInv /\ EntryInv /\ QueueInv

\* The owner has been lent the priority of every task that waits.
Lent ==
  \A m \in Mutexes, t \in Tasks : WaitsFor(t, m) => prio[MutexTbl[m].taskID] <= prio[t]

\* An application without mutexes leaves them as they were.
SyncInv ==
  /\ app \in Apps
  /\ IF app.uses = "mutex" THEN KernelInv /\ HandlersSound /\ MutexInv /\ Lent /\ FlagInit ELSE MutexInit

---------------------------------------------------------------------------
(* The task on the CPU *)

\* In such an application a task that runs its own code, or a call outside an
\* unlock, runs it at lock 0.
LEMMA RunsUnlocked ==
  ASSUME KernelInv, AppInv, NEW t \in Tasks, Runs(t)
  PROVE  OSSchedLock = 0
<1>1. t = TCBRunning /\ ~HandlerLocks BY TaskAlone
<1> QED BY <1>1 DEF AppInv, Runs, KernelInv, LockInv

\* So it manages nobody but itself.
LEMMA ManagesItself ==
  ASSUME KernelInv, AppInv, Disciplined, NEW t \in Tasks, NEW u,
         \/ \E call \in Manage : Calls(t, call) /\ MayManage(t, u)
         \/ u = t /\ Calls(t, "CoExitTask")
  PROVE  u = t /\ Runs(t) /\ pc[t] = "app" /\ OSSchedLock = 0
<1>1. Runs(t) /\ pc[t] = "app" BY RunsCalling DEF Manage
<1>2. OSSchedLock = 0 BY <1>1, RunsUnlocked
<1>3. ASSUME NEW call \in Manage, Calls(t, call) PROVE LockToManage
  <2>1. <<t, call>> \in Api /\ <<t, call>>[2] \in Manage BY <1>3 DEF Calls
  <2> QED BY <2>1 DEF Disciplined
<1> QED BY <1>1, <1>2, <1>3 DEF MayManage

\* A task that sleeps does not run, and one that runs is at its step.
LEMMA RunnerAwake ==
  ASSUME KernelInv, MutexInv, NEW t \in Tasks, Runs(t)
  PROVE  /\ After(t) = pc[t] /\ ~Asleep(t) /\ \A m \in Mutexes : ~WaitsFor(t, m)
         /\ pc[t] \in Plain \cup MutexLabels \cup {"delete"}
<1>1. After(t) = pc[t] BY AfterRuns
<1>2. ~Asleep(t) /\ pc[t] # "off" BY TaskFree DEF Asleep
<1> QED BY <1>1, <1>2 DEF MutexInv, QueueInv, AppInv

\* An owner is neither dead nor in the list of a mutex.
LEMMA OwnerLives ==
  ASSUME MutexInv, NEW m \in Mutexes, NEW o \in Tasks, Owns(o, m)
  PROVE  /\ pc[o] # "off" /\ mutexID[o] = m /\ \A n \in Mutexes : ~WaitsFor(o, n)
         /\ inside[o] = m \/ Entering(o, m)
<1>1. inside[o] = m \/ Entering(o, m) BY DEF MutexInv, OwnerInv, Owns
<1>2. NULL \notin Mutexes BY MutexAssumption
<1>3. mutexID[o] = m /\ After(o) # "off" BY <1>1, <1>2 DEF MutexInv, EntryInv, Entering
<1>4. ASSUME NEW n \in Mutexes, WaitsFor(o, n) PROVE FALSE
  <2>1. Entering(o, n) /\ MutexTbl[n].taskID # o BY <1>4 DEF MutexInv, QueueInv
  <2>2. inside[o] # m BY <1>2, <2>1 DEF MutexInv, EntryInv, Entering
  <2> QED BY <1>1, <2>1, <2>2 DEF Entering, Owns
<1> QED BY <1>1, <1>3, <1>4 DEF After, UnlockLabels

---------------------------------------------------------------------------
(* The steps of the kernel *)

\* A step that is about no mutex.
Spares ==
  /\ UNCHANGED mutexVars
  /\ \A t \in Tasks : After(t) \in MutexLabels => After(t)' = After(t) /\ arg'[t] = arg[t]
  /\ \A t \in Tasks : After(t) \notin MutexLabels =>
       After(t)' \notin MutexLabels /\ (inside[t] # NULL => After(t)' \notin {"off", "delete"})
  /\ \A t \in Tasks : Asleep(t) => Asleep(t)'

LEMMA SparesKeeps ==
  ASSUME MutexInv, Spares, AppInv'
  PROVE  MutexInv'
<1>1. MutexTypes' BY DEF MutexInv, MutexTypes, Spares, mutexVars
<1>2. UNCHANGED <<mutexID, MutexTbl, MutexFreeID, inside>> BY DEF Spares, mutexVars
<1>3. \A t \in Tasks, m \in Mutexes : (Entering(t, m)' <=> Entering(t, m)) /\ (WaitsFor(t, m)' <=> WaitsFor(t, m))
  BY <1>2 DEF Spares, Entering, WaitsFor, MutexLabels
<1>4. \A m \in Mutexes : Created(m)' <=> Created(m)
  BY <1>2 DEF Spares, Created, MutexLabels
<1>5. OwnerInv' BY <1>2, <1>3, <1>4 DEF MutexInv, OwnerInv
<1>6. EntryInv'
  <2>1. /\ \A t \in Tasks : inside[t] # NULL => After(t)' \notin {"off", "delete", "entered"}
        /\ \A t \in Tasks : After(t)' = "entered" => After(t) = "entered" /\ arg'[t] = arg[t]
        /\ \A t \in Tasks : After(t)' = "initmutex" => After(t) = "initmutex" /\ arg'[t] = arg[t]
    BY DEF MutexInv, EntryInv, Spares, MutexLabels
  <2>2. \A t \in Tasks : mutexID[t] # NULL => mutexID[t] \in Mutexes BY DEF MutexInv, MutexTypes
  <2>3. \A t \in Tasks : mutexID'[t] # NULL => inside'[t] = mutexID'[t] \/ Entering(t, mutexID[t])'
    BY <1>2, <1>3, <2>2 DEF MutexInv, EntryInv
  <2>4. \A t \in Tasks : After(t)' = "entered" =>
          /\ arg'[t].on \in Mutexes /\ mutexID'[t] = arg'[t].on
          /\ Owns(t, arg[t].on)' \/ WaitsFor(t, arg[t].on)'
    BY <1>2, <2>1 DEF MutexInv, EntryInv, Owns, WaitsFor
  <2> QED BY <1>2, <2>1, <2>3, <2>4 DEF MutexInv, EntryInv, Entering, Owns
<1>7. QueueInv' BY <1>2, <1>3 DEF MutexInv, QueueInv, Spares
<1> QED BY <1>1, <1>5, <1>6, <1>7 DEF MutexInv

LEMMA LentStays ==
  ASSUME Lent, Spares, UNCHANGED prio
  PROVE  Lent'
BY DEF Lent, Spares, WaitsFor, mutexVars

\* Where a step leaves the task that made it: a locked section, or none.
Goals == Plain \cup MutexLabels \cup {"delete"}

LEMMA GoalLabels == Goals \subseteq ReturnLabels /\ Goals \subseteq Labels \ (UnlockLabels \cup {"clear"})
BY DEF Goals, Plain, MutexLabels, ReturnLabels, Labels, TaskArgLabels, EventArgLabels, UnlockLabels

LEMMA SectionApp ==
  ASSUME KernelInv, AppInv, NEW t \in Tasks, Runs(t), NEW next \in Goals, LockedSection(t, next), UNCHANGED runVars
  PROVE  AppInv' /\ Moves(t, next)
<1>1. Moves(t, next) BY GoalLabels, SectionMoves, ControlNow
<1>2. OSSchedLock = 0 /\ t = TCBRunning BY RunsUnlocked, TaskAlone
<1>3. DOMAIN pc = Contexts /\ t # Isr BY ContextAssumption DEF KernelInv, LockInv
<1>4. pc'[t] = "respond" /\ pc'[Isr] = "off" /\ TCBRunning' = t
  BY <1>2, <1>3 DEF LockedSection, Goto, AppInv, Contexts, runVars
<1>5. \A u \in Tasks : After(u)' \in Plain \cup MutexLabels \cup {"off", "delete"}
  BY <1>1 DEF AppInv, Moves, Goals
<1> QED BY <1>1, <1>4, <1>5 DEF AppInv, UnlockLabels

LEMMA GotoApp ==
  ASSUME KernelInv, AppInv, NEW t \in Tasks, Runs(t), NEW label \in Goals, Goto(t, label),
         UNCHANGED <<runVars, ret, OSSchedLock>>
  PROVE  AppInv' /\ Moves(t, label)
<1>1. OSSchedLock = 0 /\ t = TCBRunning /\ OSSchedLock \in Nat BY RunsUnlocked, TaskAlone
<1>2. Moves(t, label) BY <1>1, GoalLabels, GotoMoves, ControlNow
<1>3. DOMAIN pc = Contexts /\ t # Isr BY ContextAssumption DEF KernelInv, LockInv
<1>4. pc'[Isr] = "off" BY <1>3 DEF Goto, AppInv, Contexts
<1>5. \A u \in Tasks : After(u)' \in Plain \cup MutexLabels \cup {"off", "delete"}
  BY <1>2 DEF AppInv, Moves, Goals
<1> QED BY <1>1, <1>2, <1>4, <1>5 DEF AppInv

LEMMA TaskSpares ==
  ASSUME KernelInv, MutexInv, NEW t \in Tasks, Runs(t), pc[t] \notin MutexLabels,
         NEW label \in Goals \ MutexLabels, Moves(t, label), label = "delete" => inside[t] = NULL,
         UNCHANGED mutexVars, \A u \in Tasks \ {t} : arg'[u] = arg[u] /\ (Asleep(u) => Asleep(u)')
  PROVE  Spares
<1>1. After(t) = pc[t] /\ ~Asleep(t) BY RunnerAwake
<1>2. \A u \in Tasks \ {t} : inside[u] # NULL => After(u) \notin {"off", "delete"} BY DEF MutexInv, EntryInv
<1>3. After(t)' = label /\ label \notin MutexLabels \cup {"off"} /\ \A u \in Tasks \ {t} : After(u)' = After(u)
  BY DEF Moves, Goals, Plain, MutexLabels
<1> QED BY <1>1, <1>2, <1>3 DEF Spares

\* The calls.
LEMMA CallSpares ==
  ASSUME KernelInv, MutexInv, Disciplined, UNCHANGED mutexVars, NEW t \in Tasks,
         \/ \E ticks \in Delays : CoTickDelay(t, ticks)
         \/ \E e \in Events : CoPostSem(t, e) \/ CoPendSem(t, e, 0)
         \/ inside[t] = NULL /\ CoDelTask(t, t)
  PROVE  Spares /\ AppInv' /\ UNCHANGED prio
<1>0. AppInv BY DEF MutexInv
<1>1. /\ Runs(t) /\ pc[t] = "app" /\ UNCHANGED <<runVars, prio>>
      /\ \A u \in Tasks \ {t} : arg'[u] = arg[u]
  BY RunsCalling, ControlNow DEF CoTickDelay, CoPostSem, CoPendSem, CoDelTask, Continue, WithArg, poolVars, callVars
<1>2. CASE \E ticks \in Delays : CoTickDelay(t, ticks)
  <2>1. PICK ticks \in Delays : CoTickDelay(t, ticks) BY <1>2
  <2>2. LockedSection(t, "app") /\ UNCHANGED eventID BY <2>1 DEF CoTickDelay, eventVars
  <2>3. "app" \in Goals \ MutexLabels BY DEF Goals, Plain, MutexLabels
  <2>4. ASSUME NEW u \in Tasks \ {t}, Asleep(u) PROVE Asleep(u)'
    <3>1. state'[u] = state[u] BY <2>1, ListsNow DEF CoTickDelay, Block
    <3>2. \A x : Contains(DlyList', x) <=> Contains(DlyList, x) \/ x = t
      BY <2>1, ListsNow, InsertByItems DEF CoTickDelay, LinkDelay, DelayTypes
    <3> QED BY <2>2, <2>4, <3>1, <3>2 DEF Asleep
  <2> QED BY <1>0, <1>1, <2>2, <2>3, <2>4, SectionApp, TaskSpares DEF MutexLabels
<1>3. ASSUME UNCHANGED <<state, DlyList, eventID>>, NEW label \in Goals \ MutexLabels,
             label = "delete" => inside[t] = NULL,
             LockedSection(t, label) \/ (Goto(t, label) /\ UNCHANGED <<ret, OSSchedLock>>)
      PROVE  Spares /\ AppInv' /\ UNCHANGED prio
  <2>1. AppInv' /\ Moves(t, label) BY <1>0, <1>1, <1>3, SectionApp, GotoApp
  <2>2. \A u \in Tasks : Asleep(u) => Asleep(u)' BY <1>3 DEF Asleep
  <2> QED BY <1>1, <1>3, <2>1, <2>2, TaskSpares DEF MutexLabels
<1>4. {"app", "semblock", "postsem", "delete"} \subseteq Goals \ MutexLabels
  BY DEF Goals, Plain, MutexLabels
<1>5. CASE \E e \in Events : CoPostSem(t, e)
  BY <1>3, <1>4, <1>5 DEF CoPostSem, Continue, listVars, delayVars, eventVars
<1>6. CASE \E e \in Events : CoPendSem(t, e, 0)
  BY <1>3, <1>4, <1>6 DEF CoPendSem, listVars, delayVars
<1>7. CASE inside[t] = NULL /\ CoDelTask(t, t)
  BY <1>3, <1>4, <1>7 DEF CoDelTask, Continue, listVars, delayVars, eventVars
<1> QED BY <1>2, <1>5, <1>6, <1>7

\* A post wakes a task that waits for its event, and nobody else.
LEMMA PostLetsSleep ==
  ASSUME KernelInv, NEW e \in Events, NEW n, NEW mail, PostBody(e, n, mail)
  PROVE  \A u \in Tasks : Asleep(u) => Asleep(u)'
<1>1. CASE eventTCBList[e] = <<>> BY <1>1 DEF PostBody, Asleep, delayVars, listVars
<1>2. CASE eventTCBList[e] # <<>>
  <2>1. eventTCBList[e] \in Seq(Tasks) /\ IsInjective(eventTCBList[e]) BY ListsNow DEF EventTypes, WaitInv
  <2>2. PICK w \in Tasks : w = Head(eventTCBList[e]) BY <1>2, <2>1, HeadTailType
  <2>3. eventID[w] = e /\ e # NULL
    BY <1>2, <2>1, <2>2, HeadTailItems, ListsNow, ContextAssumption DEF WaitInv
  <2>4. \A u \in Tasks \ {w} : state'[u] = state[u] /\ eventID'[u] = eventID[u]
    BY <1>2, <2>2, ListsNow DEF PostBody, InsertToTCBRdyList, EventTypes
  <2>5. \A u : Contains(DlyList', u) => Contains(DlyList, u)
    <3>1. CASE delay[w] # INVALID_VALUE
      <4>1. DlyList' = Unlink(DlyList, w) BY <1>2, <2>2, <3>1 DEF PostBody, RemoveDelayList
      <4>2. eventID[w] # NULL /\ state[w] = "WAITING" BY <2>3, ListsNow DEF WaitInv
      <4>3. Contains(DlyList, w) BY <3>1, <4>2, ListsNow DEF DelayInv, Spoilt
      <4> QED BY <4>1, <4>3, ListsNow, UnlinkItems DEF DelayInv, DelayTypes
    <3>2. CASE delay[w] = INVALID_VALUE BY <1>2, <2>2, <3>2 DEF PostBody, delayVars
    <3> QED BY <3>1, <3>2
  <2> QED BY <2>3, <2>4, <2>5 DEF Asleep
<1> QED BY <1>1, <1>2

\* The steps in a call.
LEMMA StepSpares ==
  ASSUME KernelInv, MutexInv, UNCHANGED mutexVars, NEW t \in Tasks,
         DeleteBody(t) \/ RescheduleBody(t) \/ BlockBody(t) \/ Woken(t) \/ PostSem(t)
  PROVE  Spares /\ AppInv' /\ UNCHANGED prio
<1>0. AppInv BY DEF MutexInv
<1>1. /\ Runs(t) /\ pc[t] \in {"delete", "resched", "semblock", "mailblock", "semwoken", "mailwoken", "postsem"}
  BY RunsInCall DEF DeleteBody, RescheduleBody, BlockBody, Woken, PostSem, UnlockLabels
<1>2. pc[t] \in {"delete", "resched", "semblock", "semwoken", "postsem"}
  BY <1>1, RunnerAwake DEF Plain, MutexLabels
<1>3. UNCHANGED <<runVars, prio, arg>>
  <2>1. CASE DeleteBody(t) BY <2>1 DEF DeleteBody, Fault, poolVars, callVars
  <2>2. CASE ~DeleteBody(t) BY <2>2 DEF RescheduleBody, BlockBody, Woken, PostSem, poolVars, callVars
  <2> QED BY <2>1, <2>2
<1>4. {"app", "semwoken"} \subseteq Goals \ MutexLabels
  BY DEF Goals, Plain, MutexLabels
<1>5. ASSUME NEW label \in {"app", "semwoken"},
             LockedSection(t, label) \/ (Goto(t, label) /\ UNCHANGED <<ret, OSSchedLock>>),
             \A u \in Tasks \ {t} : Asleep(u) => Asleep(u)'
      PROVE  Spares /\ AppInv' /\ UNCHANGED prio
  <2>1. AppInv' /\ Moves(t, label) BY <1>0, <1>1, <1>3, <1>4, <1>5, SectionApp, GotoApp
  <2> QED BY <1>1, <1>2, <1>3, <1>4, <1>5, <2>1, TaskSpares DEF MutexLabels
<1>6. CASE RescheduleBody(t) \/ Woken(t)
  <2>1. \A u \in Tasks : Asleep(u) => Asleep(u)'
    BY <1>6 DEF RescheduleBody, Woken, Asleep, delayVars, eventVars, listVars
  <2> QED BY <1>5, <1>6, <2>1 DEF RescheduleBody, Woken
<1>7. CASE BlockBody(t)
  <2>1. LockedSection(t, "semwoken") BY <1>2, <1>7 DEF BlockBody, At
  <2>2. ASSUME NEW u \in Tasks \ {t}, Asleep(u) PROVE Asleep(u)'
    <3>1. state'[u] = state[u] /\ eventID'[u] = eventID[u] BY <1>7, BlockFacts, ListsNow DEF EventTypes
    <3>2. Contains(DlyList', u) => Contains(DlyList, u)
      <4>1. CASE arg[t].val # 0 BY <1>7, <4>1, ListsNow, InsertByItems DEF BlockBody, LinkDelay, DelayTypes
      <4>2. CASE arg[t].val = 0 BY <1>7, <4>2 DEF BlockBody, delayVars
      <4> QED BY <4>1, <4>2
    <3> QED BY <2>2, <3>1, <3>2 DEF Asleep
  <2> QED BY <1>5, <2>1, <2>2
<1>8. CASE DeleteBody(t)
  <2>1. arg[t].on = t
    <3>1. OSSchedLock = 0 BY <1>0, <1>1, RunsUnlocked
    <3> QED BY <1>8, <3>1, ManagerAt DEF DeleteBody, Managing
  <2>2. state[t] = "RUNNING" /\ ~Contains(FreeTCB, t) BY <1>1, TaskFree
  <2>3. /\ LockedSection(t, "app") /\ state' = [state EXCEPT ![t] = "DORMANT"]
        /\ UNCHANGED <<delayVars, eventID>>
    BY <1>8, <2>1, <2>2 DEF DeleteBody
  <2>4. \A u \in Tasks \ {t} : Asleep(u) => Asleep(u)' BY <2>3, ListsNow DEF Asleep, delayVars
  <2> QED BY <1>5, <2>3, <2>4
<1>9. CASE PostSem(t)
  <2>1. arg[t].on \in Events BY <1>9, ControlNow, ArgAt DEF PostSem, Fits, EventArgLabels, UnlockLabels
  <2>2. LockedSection(t, "app") BY <1>9 DEF PostSem
  <2> QED BY <1>5, <1>9, <2>1, <2>2, PostLetsSleep DEF PostSem, PostSemBody
<1> QED BY <1>6, <1>7, <1>8, <1>9

\* The unlock and the exceptions: every task stays where it is in its call.
LEMMA StaysSpares ==
  ASSUME MutexInv, Stays, UNCHANGED mutexVars, \A u \in Tasks : Asleep(u) => Asleep(u)'
  PROVE  /\ Spares
         /\ pc'[Isr] = "off" /\ (OSSchedLock' > 0 => HandlerLocks' \/ pc'[TCBRunning'] \in UnlockLabels \cup {"clear"})
              => AppInv'
<1>1. Spares BY DEF Stays, Spares, MutexInv, EntryInv
<1>2. \A u \in Tasks : After(u)' \in Plain \cup MutexLabels \cup {"off", "delete"}
  BY DEF Stays, MutexInv, AppInv
<1> QED BY <1>1, <1>2 DEF AppInv

LEMMA ScheduleLetsSleep ==
  ASSUME KernelInv, NEW level, NEW nesting,
         IF TaskSchedReq THEN Schedule(level, nesting) ELSE UNCHANGED <<listVars, TCBNext, PendSV>>
  PROVE  \A v \in Tasks : state[v] = "WAITING" => state'[v] = "WAITING"
<1>1. TCBRdy # <<>> => Head(TCBRdy) \in Tasks /\ state[Head(TCBRdy)] = "READY"
  BY ListsNow, HeadTailItems, HeadTailType DEF ReadyInv
<1>2. \/ state' = state
      \/ TCBRdy # <<>> /\ state' = [state EXCEPT ![Head(TCBRdy)] = "RUNNING"]
      \/ /\ TCBRdy # <<>> /\ state[TCBRunning] = "RUNNING"
         /\ state' = [state EXCEPT ![TCBRunning] = "READY", ![Head(TCBRdy)] = "RUNNING"]
  BY DEF Schedule, listVars
<1> QED BY <1>1, <1>2, ListsNow

LEMMA UnlockSpares ==
  ASSUME KernelInv, MutexInv, UNCHANGED mutexVars, NEW c \in Contexts, UnlockStep(c), ~RespondCell(c)
  PROVE  Spares /\ AppInv' /\ UNCHANGED prio
<1>1. Stays /\ UNCHANGED prio
  BY UnlockStays DEF UnlockStep, BeginUnlock, DisposeHead, UnlinkHead, EndDispose, ClearTimeReq,
     EndCells, ClearIsrReq, UnlockSchedule, ClearLock, poolVars
<1>2. \A u \in Tasks : Asleep(u) => Asleep(u)'
  <2>1. CASE DisposeHead(c)
    <3>1. UNCHANGED <<state, DlyList>> BY <2>1 DEF DisposeHead, listVars
    <3>2. \A u \in Tasks : eventID[u] = NULL => eventID'[u] = NULL
      BY <2>1, ListsNow DEF DisposeHead, RemoveEventWaittingList, EventTypes
    <3> QED BY <3>1, <3>2 DEF Asleep
  <2>2. CASE UnlinkHead(c)
    <3>1. Disposing BY <2>2 DEF UnlinkHead, At, Disposing
    <3>2. DlyList # <<>> BY <3>1 DEF KernelInv, HeadThere
    <3>3. DlyList \in Seq(Tasks) /\ IsInjective(DlyList) BY ListsNow DEF DelayInv, DelayTypes
    <3>4. /\ Contains(DlyList, Head(DlyList))
          /\ \A x : Contains(Tail(DlyList), x) => Contains(DlyList, x)
      BY <3>2, <3>3, HeadTailItems
    <3>5. UNCHANGED eventID /\ DlyList' = Tail(DlyList) /\ state' = [state EXCEPT ![Head(DlyList)] = "READY"]
      BY <2>2 DEF UnlinkHead, InsertToTCBRdyList, eventVars
    <3> QED BY <3>4, <3>5, ListsNow DEF Asleep
  <2>3. CASE UnlockSchedule(c)
    BY <2>3, ScheduleLetsSleep DEF UnlockSchedule, Asleep, delayVars, eventVars
  <2>4. CASE ~DisposeHead(c) /\ ~UnlinkHead(c) /\ ~UnlockSchedule(c)
    <3>1. UNCHANGED <<state, DlyList, eventID>>
      BY <2>4 DEF UnlockStep, BeginUnlock, EndDispose, ClearTimeReq, EndCells, ClearIsrReq, ClearLock,
                  listVars, delayVars, eventVars
    <3> QED BY <3>1 DEF Asleep
  <2> QED BY <2>1, <2>2, <2>3, <2>4
<1>3. AppInv'
  <2>1. PICK label : /\ Goto(c, label) /\ UNCHANGED TCBRunning
                     /\ ClearLock(c) \/ label \in UnlockLabels \cup {"clear"}
    BY DEF UnlockStep, BeginUnlock, DisposeHead, UnlinkHead, EndDispose, ClearTimeReq, EndCells,
           ClearIsrReq, UnlockSchedule, ClearLock, UnlockLabels, runVars
  <2>2. OnCPU(c) /\ pc[c] \in UnlockLabels \cup {"clear"}
    BY DEF UnlockStep, BeginUnlock, DisposeHead, UnlinkHead, EndDispose, ClearTimeReq, EndCells,
           ClearIsrReq, UnlockSchedule, ClearLock, At, UnlockLabels
  <2>3. DOMAIN pc = Contexts /\ pc[Isr] = "off" BY DEF KernelInv, LockInv, MutexInv, AppInv
  <2>4. c # Isr /\ pc'[Isr] = "off" /\ pc'[c] = label
    BY <2>1, <2>2, <2>3 DEF Goto, Contexts, UnlockLabels
  <2>5. CASE ClearLock(c)
    <3>1. ~(OSSchedLock' > 0) BY <2>5 DEF ClearLock
    <3> QED BY <1>1, <1>2, <2>4, <3>1, StaysSpares
  <2>6. CASE label \in UnlockLabels \cup {"clear"}
    <3>1. HandlerLocks' \/ pc'[TCBRunning'] \in UnlockLabels \cup {"clear"}
      <4>1. CASE c = SysTick BY <2>4, <2>6, <4>1 DEF HandlerLocks, Locking, LockLabels
      <4>2. CASE c = TCBRunning BY <2>1, <2>4, <2>6, <4>2
      <4> QED BY <2>2, <2>4, <4>1, <4>2 DEF OnCPU
    <3> QED BY <1>1, <1>2, <2>4, <3>1, StaysSpares
  <2> QED BY <2>1, <2>5, <2>6
<1> QED BY <1>1, <1>2, <1>3, StaysSpares

LEMMA ExceptionSpares ==
  ASSUME KernelInv, MutexInv, UNCHANGED mutexVars, TickEnter \/ IsrExit \/ PendSV_Handler
  PROVE  Spares /\ AppInv' /\ UNCHANGED prio
<1>1. Stays /\ UNCHANGED prio
  BY ExceptionStays DEF TickEnter, IsrExit, PendSV_Handler, poolVars
<1>2. DOMAIN pc = Contexts /\ pc[Isr] = "off" /\ AppInv BY DEF KernelInv, LockInv, MutexInv, AppInv
<1>3. UNCHANGED <<state, DlyList, eventID>>
  BY <1>2 DEF TickEnter, IsrExit, PendSV_Handler, listVars, delayVars, eventVars
<1>4. \A u \in Tasks : Asleep(u) => Asleep(u)' BY <1>3 DEF Asleep
<1>5. CASE TickEnter
  <2>1. pc'[Isr] = "off" BY <1>2, <1>5, ContextAssumption DEF TickEnter, Goto, Contexts
  <2>2. CASE OSSchedLock > 0
    <3>1. UNCHANGED <<pc, OSSchedLock, TCBRunning>> BY <1>5, <2>2 DEF TickEnter, runVars
    <3>2. HandlerLocks' <=> HandlerLocks BY <3>1 DEF HandlerLocks, Locking
    <3> QED BY <1>1, <1>2, <1>4, <2>1, <3>1, <3>2, StaysSpares DEF AppInv
  <2>3. CASE ~(OSSchedLock > 0)
    <3>1. \E label \in UnlockLabels : Goto(SysTick, label) BY <1>5, <2>3 DEF TickEnter, UnlockLabels
    <3>2. HandlerLocks' BY <1>2, <3>1 DEF HandlerLocks, Locking, LockLabels, Goto, Contexts
    <3> QED BY <1>1, <1>4, <2>1, <3>2, StaysSpares
  <2> QED BY <2>2, <2>3
<1>6. CASE PendSV_Handler
  <2>1. UNCHANGED pc /\ OSSchedLock' = 0 BY <1>6 DEF PendSV_Handler
  <2> QED BY <1>1, <1>2, <1>4, <2>1, StaysSpares
<1> QED BY <1>1, <1>2, <1>4, <1>5, <1>6, StaysSpares DEF IsrExit

---------------------------------------------------------------------------
(* What the steps of the mutexes owe the kernel *)

\* A step of the task on the CPU as the kernel sees it: the types, the lock and
\* the exit follow once the lists are known to be exact.
Settles(t, next) ==
  /\ TaskStepShape(t) /\ OnlyMoves(t, next)
  /\ next = "delete" => arg'[t].on = t
  /\ \A u \in Tasks \ {t} : arg'[u] = arg[u]

LEMMA SettlesKeeps ==
  ASSUME KernelInv, NEW t \in Tasks, Runs(t), NEW next, Settles(t, next), UNCHANGED <<runVars, stalePrev>>,
         ListTypes', DelayTypes', EventTypes', PoolTypes', ReqTypes', ControlTypes', CallTypes', OrderInv'
  PROVE  KernelInv' /\ HandlersSound'
<1>1. LockInv' BY ShapeKeepsLockInv DEF Settles, KernelInv
<1>2. RunTypes' BY KeptTypes, ControlNow DEF TypeOK
<1>3. TypeOK' BY <1>2 DEF TypeOK
<1>4. HeadThere' BY DEF Settles, OnlyMoves, HeadThere
<1>5. ExitInv'
  <2>1. \A u \in Tasks \ {t} : After(u)' = After(u) /\ pc'[u] = pc[u] BY DEF Settles, OnlyMoves, After
  <2> QED BY <2>1 DEF Settles, OnlyMoves, KernelInv, ExitInv
<1>6. HandlersSound' BY DEF Settles, OnlyMoves, HandlersSound
<1>7. NoneStale' BY DEF KernelInv, NoneStale
<1> QED BY <1>1, <1>3, <1>4, <1>5, <1>6, <1>7 DEF KernelInv

LEMMA SectionSettles ==
  ASSUME KernelInv, NEW t \in Tasks, Runs(t), NEW next \in Returns, LockedSection(t, next), UNCHANGED <<runVars, credit, stalePrev>>,
         UNCHANGED arg \/ (\E on, val : WithArg(t, on, val)), Fits(next, arg'[t]), next = "delete" => arg'[t].on = t,
         ListTypes', DelayTypes', EventTypes', PoolTypes', ReqTypes', OrderInv'
  PROVE  KernelInv' /\ HandlersSound'
<1>1. next \in ReturnLabels BY DEF Returns, MutexLabels, ReturnLabels, TaskArgLabels, EventArgLabels
<1>2. ControlTypes' /\ Moves(t, next) BY <1>1, SectionMoves, ControlNow
<1>3. credit' \in [Events -> Int] BY ControlNow
<1>4. CallTypes'
  <2>1. ASSUME NEW on, NEW val, WithArg(t, on, val) PROVE CallTypes'
    <3>1. arg'[t] = [on |-> on, val |-> val] BY <2>1, ControlNow DEF WithArg
    <3> QED BY <1>2, <1>3, <2>1, <3>1, CallMovedWithArg, ControlNow
  <2>2. CASE UNCHANGED arg BY <1>2, <1>3, <2>2, CallMovedSame, ControlNow
  <2> QED BY <2>1, <2>2
<1>5. TaskStepShape(t) BY <1>1, LockedSectionShape DEF Runs, KernelInv
<1>6. OnlyMoves(t, next) BY SectionControl
<1>7. \A u \in Tasks \ {t} : arg'[u] = arg[u] BY ControlNow DEF WithArg
<1>8. Settles(t, next) BY <1>5, <1>6, <1>7 DEF Settles
<1> QED BY <1>2, <1>4, <1>8, SettlesKeeps

LEMMA GotoSettles ==
  ASSUME KernelInv, NEW t \in Tasks, Runs(t), NEW label \in {"app", "resched"}, Goto(t, label),
         UNCHANGED <<runVars, credit, ret, stalePrev, OSSchedLock>>,
         UNCHANGED arg \/ (\E on, val : WithArg(t, on, val)), Fits(label, arg'[t]),
         ListTypes', DelayTypes', EventTypes', PoolTypes', ReqTypes', OrderInv'
  PROVE  KernelInv' /\ HandlersSound'
<1>1. /\ label \in Labels /\ label \notin UnlockLabels \cup NeverAt \cup {"clear", "off"} /\ label \notin LockLabels
      /\ OSSchedLock' \in Nat
  BY ControlNow DEF Labels, UnlockLabels, TaskArgLabels, NeverAt, LockLabels
<1>2. ControlTypes' /\ Moves(t, label) BY <1>1, GotoMoves, ControlNow
<1>3. credit' \in [Events -> Int] BY ControlNow
<1>4. CallTypes'
  <2>1. ASSUME NEW on, NEW val, WithArg(t, on, val) PROVE CallTypes'
    <3>1. arg'[t] = [on |-> on, val |-> val] BY <2>1, ControlNow DEF WithArg
    <3> QED BY <1>2, <1>3, <2>1, <3>1, CallMovedWithArg, ControlNow
  <2>2. CASE UNCHANGED arg BY <1>2, <1>3, <2>2, CallMovedSame, ControlNow
  <2> QED BY <2>1, <2>2
<1>5. TaskStepShape(t) BY <1>1, GotoShape DEF Runs, KernelInv
<1>6. OnlyMoves(t, label) BY <1>1, GotoControl
<1>7. \A u \in Tasks \ {t} : arg'[u] = arg[u] BY ControlNow DEF WithArg
<1>8. Settles(t, label) BY <1>5, <1>6, <1>7 DEF Settles
<1> QED BY <1>2, <1>4, <1>8, SettlesKeeps

\* A task that is moved to where its priority belongs in the list it waits in.
LEMMA WaitMoves ==
  ASSUME WaitInv, EventTypes, NEW t \in Tasks, NEW e \in Events, NEW key, eventID[t] = e,
         eventTCBList' = [eventTCBList EXCEPT ![e] = InsertBy(Unlink(@, t), key, t)], UNCHANGED eventID,
         \A u \in Tasks : eventID[u] # NULL => state'[u] = "WAITING"
  PROVE  WaitInv'
<1>1. PICK list \in Seq(Tasks) : list = eventTCBList[e] BY DEF EventTypes
<1>2. PICK new : new = InsertBy(Unlink(list, t), key, t) OBVIOUS
<1>3. Contains(list, t) /\ IsInjective(list) BY <1>1 DEF WaitInv
<1>4. /\ IsInjective(Unlink(list, t)) /\ Unlink(list, t) \in Seq(Tasks)
      /\ \A x : Contains(Unlink(list, t), x) <=> Contains(list, x) /\ x # t
  BY <1>3, UnlinkItems, UnlinkType
<1>5. IsInjective(new) /\ \A x : Contains(new, x) <=> Contains(list, x)
  BY <1>2, <1>3, <1>4, InsertByItems
<1>6. eventTCBList'[e] = new /\ \A f \in Events \ {e} : eventTCBList'[f] = eventTCBList[f]
  BY <1>1, <1>2 DEF EventTypes
<1> QED BY <1>1, <1>5, <1>6 DEF WaitInv

\* The lowest of some priorities is one of them, and below none.
LEMMA LowestIs ==
  ASSUME PoolTypes, NEW list \in Seq(Tasks), NEW floor \in 0 .. CFG_LOWEST_PRIO
  PROVE  /\ Lowest(list, floor) \in 0 .. CFG_LOWEST_PRIO /\ Lowest(list, floor) <= floor
         /\ \A i \in DOMAIN list : Lowest(list, floor) <= prio[list[i]]
<1> DEFINE prios == {floor} \cup {prio[list[i]] : i \in DOMAIN list}
<1>1. \A i \in DOMAIN list : prio[list[i]] \in 0 .. CFG_LOWEST_PRIO BY DEF PoolTypes
<1>2. prios \subseteq 0 .. CFG_LOWEST_PRIO BY <1>1
<1>3. prios \in SUBSET Nat /\ prios # {} BY <1>2
<1>4. \E p \in prios : \A q \in prios : p <= q BY <1>3, LeastNumber
<1>5. Lowest(list, floor) \in prios /\ \A q \in prios : Lowest(list, floor) <= q
  BY <1>4 DEF Lowest
<1> QED BY <1>2, <1>5

\* Creating a mutex, and entering and leaving one nobody waits for, touch no list.
LEMMA QuietMutex ==
  ASSUME KernelInv, AppInv, NEW t \in Tasks, Runs(t),
         UNCHANGED <<listVars, delayVars, eventVars, poolVars, runVars, reqVars, credit>>,
         UNCHANGED arg \/ (\E on, val : WithArg(t, on, val)),
         \/ \E next \in MutexLabels \cup {"app", "delete"} :
              LockedSection(t, next) /\ (next = "delete" => arg'[t].on = t)
         \/ Goto(t, "app") /\ UNCHANGED <<OSSchedLock, ret>>
  PROVE  KernelInv' /\ HandlersSound'
<1>1. OSSchedLock = 0 BY RunsUnlocked
<1>2. ListTypes' /\ DelayTypes' /\ EventTypes' /\ PoolTypes' /\ ReqTypes'
  BY KeptTypes, ControlNow DEF TypeOK
<1>3. UNCHANGED <<FreeTCB, ecb, FreeEventList, state, TCBRdy, delayVars, eventID, eventTCBList>>
  BY DEF listVars, eventVars, poolVars
<1>7. UNCHANGED stalePrev BY DEF eventVars
<1>4. \A u \in Tasks \ {t} : arg'[u] = arg[u] BY ControlNow DEF WithArg
<1>5. ASSUME NEW next \in MutexLabels \cup {"app", "delete"}, LockedSection(t, next),
             next = "delete" => arg'[t].on = t
      PROVE  KernelInv' /\ HandlersSound'
  <2>1. next \in Returns \ {"init", "initwait"} /\ next \notin {"semblock", "mailblock"} BY DEF Returns, MutexLabels
  <2>2. OrderInv' BY <1>1, <1>3, <1>4, <1>5, <2>1, QuietSection
  <2>3. Fits(next, arg'[t]) BY <1>5 DEF MutexLabels, Fits, TaskArgLabels, EventArgLabels
  <2> QED BY <1>2, <1>5, <1>7, <2>1, <2>2, <2>3, SectionSettles
<1>6. CASE Goto(t, "app") /\ UNCHANGED <<OSSchedLock, ret>>
  <2>1. "app" \in Labels /\ "app" \notin UnlockLabels \cup NeverAt \cup {"clear", "off", "init", "initwait"}
    BY DEF Labels, UnlockLabels, NeverAt
  <2>2. OnlyMoves(t, "app") /\ pc'[t] = "app" BY <1>6, <2>1, GotoControl, ControlNow
  <2>3. Managed(t)' BY <2>2 DEF Managed, Managing, SleepsAt
  <2>4. OrderInv' BY <1>3, <1>4, <1>6, <2>1, <2>3, QuietGoto
  <2>5. Fits("app", arg'[t]) BY DEF Fits, TaskArgLabels, EventArgLabels
  <2> QED BY <1>2, <1>6, <1>7, <2>4, <2>5, GotoSettles
<1> QED BY <1>5, <1>6

\* A task whose priority changes is moved to its place: the ready list.
LEMMA OwnerReorders ==
  ASSUME KernelInv, MutexInv, NEW o \in Tasks, pc[o] # "off", NEW p, NEW rest, rest = Reordered(o, p)
  PROVE  /\ rest \in Seq(Tasks) /\ IsInjective(rest)
         /\ \A x : Contains(rest, x) <=> Contains(TCBRdy, x)
<1>1. ReadyInv /\ TCBRdy \in Seq(Tasks) BY ListsNow
<1>2. CASE state[o] = "READY"
  <2>1. Contains(TCBRdy, o) /\ IsInjective(TCBRdy) BY <1>1, <1>2 DEF ReadyInv
  <2>2. PICK list : list = Unlink(TCBRdy, o) OBVIOUS
  <2>3. /\ list \in Seq(Tasks) /\ IsInjective(list)
        /\ \A x : Contains(list, x) <=> Contains(TCBRdy, x) /\ x # o
    BY <1>1, <2>1, <2>2, UnlinkItems, UnlinkType
  <2>4. PICK key : key = [prio EXCEPT ![o] = p] OBVIOUS
  <2>5. rest = InsertBy(list, key, o) BY <1>2, <2>2, <2>4 DEF Reordered
  <2> QED BY <2>1, <2>3, <2>5, InsertByItems, InsertByType
<1>3. CASE state[o] # "READY" BY <1>1, <1>3 DEF Reordered, ReadyInv
<1> QED BY <1>2, <1>3

\* The lists of the events.
LEMMA OwnerRequeues ==
  ASSUME KernelInv, NEW o \in Tasks, NEW p, eventTCBList' = Requeued(o, p), UNCHANGED eventID,
         \A u \in Tasks : eventID[u] # NULL => state'[u] = "WAITING"
  PROVE  WaitInv' /\ eventTCBList' \in [Events -> Seq(Tasks)]
<1>1. WaitInv /\ EventTypes BY ListsNow
<1>2. CASE InPrioList(o)
  <2>1. PICK e \in Events : e = eventID[o] BY <1>1, <1>2 DEF InPrioList, EventTypes
  <2>2. PICK key : key = [prio EXCEPT ![o] = p] OBVIOUS
  <2>3. eventTCBList' = [eventTCBList EXCEPT ![e] = InsertBy(Unlink(@, o), key, o)]
    BY <1>2, <2>1, <2>2 DEF Requeued
  <2>4. eventTCBList[e] \in Seq(Tasks) BY <1>1 DEF EventTypes
  <2>5. InsertBy(Unlink(eventTCBList[e], o), key, o) \in Seq(Tasks) BY <2>4, UnlinkType, InsertByType
  <2> QED BY <1>1, <2>1, <2>3, <2>5, WaitMoves DEF EventTypes
<1>3. CASE ~InPrioList(o) BY <1>1, <1>3, WaitKept DEF Requeued, EventTypes
<1> QED BY <1>2, <1>3

\* Who calls is outside, and what it asks for is not its own.
LEMMA EnterFacts ==
  ASSUME KernelInv, MutexInv, Disciplined, NEW t \in Tasks, NEW m \in Mutexes, CoEnterMutexSection(t, m)
  PROVE  /\ Runs(t) /\ pc[t] = "app" /\ OSSchedLock = 0 /\ inside[t] = NULL /\ mutexID[t] = NULL
         /\ MutexTbl[m].mutexFlag # "FREE" =>
              \E o \in Tasks \ {t} : MutexTbl[m].taskID = o /\ Owns(o, m) /\ pc[o] # "off"
<1>1. Runs(t) /\ pc[t] = "app" BY RunsCalling DEF CoEnterMutexSection
<1>2. OSSchedLock = 0 /\ inside[t] = NULL BY DEF CoEnterMutexSection
<1>3. After(t) = "app" BY <1>1, AfterRuns
<1>4. mutexID[t] = NULL
  <2>1. ~Entering(t, mutexID[t]) BY <1>3 DEF Entering
  <2> QED BY <1>2, <2>1 DEF MutexInv, EntryInv
<1>5. ASSUME MutexTbl[m].mutexFlag # "FREE"
      PROVE  \E o \in Tasks \ {t} : MutexTbl[m].taskID = o /\ Owns(o, m) /\ pc[o] # "off"
  <2>1. MutexTbl[m].mutexFlag = "OCCUPY" BY <1>5 DEF MutexInv, MutexTypes
  <2>2. PICK o \in Tasks : MutexTbl[m].taskID = o BY <2>1 DEF MutexInv, OwnerInv
  <2>3. Owns(o, m) BY <2>1, <2>2 DEF Owns
  <2>4. pc[o] # "off" /\ mutexID[o] = m BY <2>3, OwnerLives
  <2>5. o # t BY <1>4, <2>4, MutexAssumption
  <2> QED BY <2>2, <2>3, <2>4, <2>5
<1> QED BY <1>1, <1>2, <1>4, <1>5

LEMMA EnterKeepsKernel ==
  ASSUME KernelInv, MutexInv, Disciplined, NEW t \in Tasks, NEW m \in Mutexes, CoEnterMutexSection(t, m)
  PROVE  KernelInv' /\ HandlersSound'
<1>1. Runs(t) /\ OSSchedLock = 0 BY EnterFacts
<1>2. /\ UNCHANGED <<delayVars, eventID, pmail, eventCounter, eventPtr, stalePrev, FreeTCB, ecb,
                     FreeEventList, runVars, reqVars, credit>>
      /\ WithArg(t, m, 0) /\ LockedSection(t, "entered")
  BY DEF CoEnterMutexSection
<1>3. CASE MutexTbl[m].mutexFlag = "FREE"
  <2>1. UNCHANGED <<listVars, eventVars, poolVars>>
    BY <1>2, <1>3 DEF CoEnterMutexSection, Occupy, eventVars, poolVars
  <2> QED BY <1>1, <1>2, <2>1, QuietMutex DEF MutexLabels, MutexInv
<1>4. CASE MutexTbl[m].mutexFlag # "FREE"
  <2>1. PICK o \in Tasks \ {t} : MutexTbl[m].taskID = o /\ pc[o] # "off" BY <1>4, EnterFacts
  <2>2. /\ prio' = prio \/ prio' = [prio EXCEPT ![o] = prio[t]]
        /\ TCBRdy' = TCBRdy \/ TCBRdy' = Reordered(o, prio[t])
        /\ eventTCBList' = eventTCBList \/ eventTCBList' = Requeued(o, prio[t])
        /\ state' = [state EXCEPT ![t] = "WAITING"] /\ TaskSchedReq'= TRUE
    BY <1>4, <2>1 DEF CoEnterMutexSection, WaitForOwner, Block
  <2>3. state'[t] = "WAITING" /\ \A u \in Tasks \ {t} : state'[u] = state[u] BY <2>2, ListsNow
  <2>4. OnlyMoves(t, "entered") BY <1>1, <1>2, SectionControl DEF Returns, MutexLabels
  <2>5. \A u \in Tasks : Ready(u)' <=> Ready(u) BY <1>1, <2>3, <2>4, OffKept, TaskFree DEF Ready
  <2>6. TCBRdy' \in Seq(Tasks) /\ ReadyInv'
    <3>1. /\ TCBRdy' \in Seq(Tasks) /\ IsInjective(TCBRdy')
          /\ \A x : Contains(TCBRdy', x) <=> Contains(TCBRdy, x)
      BY <2>1, <2>2, OwnerReorders, ListsNow DEF ReadyInv
    <3> QED BY <2>5, <3>1, ListsNow DEF ReadyInv, Ready
  <2>7. DelayInv'
    <3>1. ~Disposing /\ ~Disposing' BY <1>1, <2>4, TaskAlone DEF OnlyMoves
    <3>2. \A u \in Tasks : Contains(DlyList, u) => state'[u] = "WAITING" BY <2>3, ListsNow DEF DelayInv
    <3>3. ret'[t] = "entered" /\ \A u \in Tasks \ {t} : ret'[u] = ret[u]
      <4>1. ret' = [ret EXCEPT ![t] = "entered"] BY <1>1, <1>2 DEF LockedSection
      <4> QED BY <2>4, <4>1, ControlNow DEF OnlyMoves, ControlTypes, Contexts
    <3>4. state[t] = "RUNNING" /\ eventID[t] = NULL BY <1>1, TaskFree, ListsNow DEF WaitInv
    <3>5. StaySpoilt(Tasks)
      <4>1. Spoilt(t) => Spoilt(t)' BY <1>2, <3>3, <3>4 DEF Spoilt
      <4>2. StaySpoilt(Tasks \ {t}) BY <1>2, <2>3, <3>3, SpoiltStays
      <4> QED BY <4>1, <4>2 DEF StaySpoilt
    <3> QED BY <1>2, <3>1, <3>2, <3>5, ListsNow, DelayKept DEF delayVars
  <2>8. WaitInv' /\ eventTCBList' \in [Events -> Seq(Tasks)]
    <3>1. \A u \in Tasks : eventID[u] # NULL => state'[u] = "WAITING" BY <2>3, ListsNow DEF WaitInv
    <3>2. CASE eventTCBList' = eventTCBList BY <1>2, <3>1, <3>2, ListsNow, WaitKept DEF EventTypes
    <3>3. CASE eventTCBList' = Requeued(o, prio[t]) BY <1>2, <3>1, <3>3, OwnerRequeues
    <3> QED BY <2>2, <3>2, <3>3
  <2>9. OrderInv'
    <3>1. /\ \A u \in Tasks \ {t} : arg'[u] = arg[u]
          /\ \A u \in Tasks : state[u] = "DORMANT" \/ pc[u] = "off" => state'[u] = state[u]
          /\ \A u \in Tasks \ {t} : state'[u] # "RUNNING"
          /\ state'[Idle] \in {"READY", "RUNNING"}
      BY <1>1, <1>2, <2>3, TaskFree, ControlNow, ContextAssumption DEF WithArg, Runs
    <3>2. "entered" \in Returns \ {"init", "initwait", "semblock", "mailblock", "delete"}
      BY DEF Returns, MutexLabels
    <3> QED BY <1>1, <1>2, <2>2, <2>6, <2>7, <2>8, <3>1, <3>2, SectionKeeps DEF ListInv
  <2>10. ListTypes'
    <3>1. state' \in [Tasks -> States] BY <2>2, ListsNow DEF States
    <3> QED BY <2>2, <2>6, <3>1 DEF ListTypes
  <2>11. DelayTypes' /\ ReqTypes' BY <1>2, KeptTypes, ControlNow DEF TypeOK
  <2>12. EventTypes' BY <1>2, <2>8, ListsNow DEF EventTypes
  <2>13. PoolTypes' BY <1>2, <2>1, <2>2, ListsNow DEF PoolTypes
  <2>14. "entered" \in Returns /\ Fits("entered", arg'[t])
    BY DEF Fits, TaskArgLabels, EventArgLabels, Returns, MutexLabels
  <2> QED BY <1>1, <1>2, <2>9, <2>10, <2>11, <2>12, <2>13, <2>14, SectionSettles
<1> QED BY <1>3, <1>4

\* The first of the waiting tasks, and what the hand-over does to the lists when
\* it is the owner that leaves.
LEMMA NextOwner ==
  ASSUME KernelInv, MutexInv, NEW t \in Tasks, Runs(t), NEW m \in Mutexes, Owns(t, m),
         MutexTbl[m].waittingList # <<>>
  PROVE  \E w \in Tasks \ {t, Idle} :
           /\ w = Head(MutexTbl[m].waittingList) /\ WaitsFor(w, m) /\ Asleep(w) /\ Entering(w, m) /\ pc[w] # "off"
           /\ ~Contains(TCBRdy, w)
           /\ MutexTbl[m].originalPrio \in 0 .. CFG_LOWEST_PRIO
           /\ Lowest(MutexTbl[m].waittingList, prio[w]) \in 0 .. CFG_LOWEST_PRIO
<1>1. MutexTbl[m].waittingList \in Seq(Tasks) BY DEF MutexInv, MutexTypes
<1>2. IsInjective(MutexTbl[m].waittingList) BY DEF MutexInv, QueueInv
<1>3. PICK w \in Tasks : w = Head(MutexTbl[m].waittingList) /\ WaitsFor(w, m)
  BY <1>1, <1>2, HeadTailType, HeadTailItems DEF WaitsFor
<1>4. Asleep(w) /\ Entering(w, m) BY <1>3 DEF MutexInv, QueueInv
<1>5. w # t /\ w # Idle
  BY <1>4, RunnerAwake, TaskFree DEF Asleep
<1>6. pc[w] # "off" BY <1>4 DEF Entering, After, UnlockLabels
<1>7. ~Contains(TCBRdy, w) BY <1>4, ListsNow DEF Asleep, ReadyInv
<1>8. MutexTbl[m].originalPrio \in 0 .. CFG_LOWEST_PRIO BY DEF MutexInv, OwnerInv, Owns
<1>9. prio[w] \in 0 .. CFG_LOWEST_PRIO /\ PoolTypes BY ListsNow DEF PoolTypes
<1> QED BY <1>1, <1>3, <1>4, <1>5, <1>6, <1>7, <1>8, <1>9, LowestIs

LEMMA HandOverFacts ==
  ASSUME KernelInv, MutexInv, NEW t \in Tasks, Runs(t), NEW m \in Mutexes, Owns(t, m), LeaveBody(m),
         MutexTbl[m].waittingList # <<>>, NEW w \in Tasks \ {t}, w = Head(MutexTbl[m].waittingList)
  PROVE  /\ eventTCBList' = eventTCBList /\ state' = [state EXCEPT ![w] = "READY"]
         /\ TCBRdy' = InsertBy(TCBRdy, prio', w)
         /\ prio' = [prio EXCEPT ![t] = MutexTbl[m].originalPrio,
                                 ![w] = IF MutexTbl[m].hipriTaskID = t
                                        THEN Lowest(MutexTbl[m].waittingList, prio[w]) ELSE prio[t]]
         /\ TaskSchedReq' \in BOOLEAN
<1>1. state[t] = "RUNNING" BY TaskFree
<1>2. HandOver(m) /\ MutexTbl[m].taskID = t BY DEF LeaveBody, Owns
<1>3. \A p : Reordered(t, p) = TCBRdy /\ Requeued(t, p) = eventTCBList
  BY <1>1 DEF Reordered, Requeued, InPrioList
<1>4. /\ eventTCBList' = eventTCBList /\ state' = [state EXCEPT ![w] = "READY"]
      /\ prio' = [prio EXCEPT ![t] = MutexTbl[m].originalPrio,
                              ![w] = IF MutexTbl[m].hipriTaskID = t
                                     THEN Lowest(MutexTbl[m].waittingList, prio[w]) ELSE prio[t]]
  BY <1>2, <1>3 DEF HandOver
<1>5. TCBRdy' = InsertBy(TCBRdy, prio', w)
  BY <1>2, <1>3 DEF HandOver
<1>6. TaskSchedReq' \in BOOLEAN
  <2>1. TaskSchedReq \in BOOLEAN BY ControlNow DEF TypeOK, ListTypes
  <2> QED BY <1>2, <2>1 DEF HandOver
<1> QED BY <1>4, <1>5, <1>6

LEMMA LeaveKeepsKernel ==
  ASSUME KernelInv, MutexInv, NEW t \in Tasks, Runs(t), NEW m \in Mutexes, Owns(t, m), LeaveBody(m),
         NEW next \in {"app", "delete"}, LockedSection(t, next), UNCHANGED arg \/ WithArg(t, t, 0),
         next = "delete" => arg'[t].on = t
  PROVE  KernelInv' /\ HandlersSound'
<1>1. OSSchedLock = 0 BY RunsUnlocked DEF MutexInv
<1>2. UNCHANGED <<delayVars, eventID, pmail, eventCounter, eventPtr, stalePrev, FreeTCB, ecb, FreeEventList,
                  runVars, reqVars, credit>>
  BY DEF LeaveBody
<1>3. next \in MutexLabels \cup {"app", "delete"} /\ (UNCHANGED arg \/ \E on, val : WithArg(t, on, val)) OBVIOUS
<1>4. CASE MutexTbl[m].waittingList = <<>>
  <2>1. UNCHANGED <<listVars, eventVars, poolVars>>
    BY <1>2, <1>4 DEF LeaveBody, FreeMutex, eventVars, poolVars
  <2> QED BY <1>2, <1>3, <2>1, QuietMutex DEF MutexInv
<1>5. CASE MutexTbl[m].waittingList # <<>>
  <2>1. PICK w \in Tasks \ {t, Idle} :
           /\ w = Head(MutexTbl[m].waittingList) /\ Asleep(w) /\ pc[w] # "off"
           /\ ~Contains(TCBRdy, w)
           /\ MutexTbl[m].originalPrio \in 0 .. CFG_LOWEST_PRIO
           /\ Lowest(MutexTbl[m].waittingList, prio[w]) \in 0 .. CFG_LOWEST_PRIO
    BY <1>5, NextOwner
  <2>2. /\ eventTCBList' = eventTCBList /\ state' = [state EXCEPT ![w] = "READY"]
        /\ TCBRdy' = InsertBy(TCBRdy, prio', w)
        /\ prio' = [prio EXCEPT ![t] = MutexTbl[m].originalPrio,
                                ![w] = IF MutexTbl[m].hipriTaskID = t
                                       THEN Lowest(MutexTbl[m].waittingList, prio[w]) ELSE prio[t]]
        /\ TaskSchedReq' \in BOOLEAN
    BY <1>5, <2>1, HandOverFacts
  <2>3. /\ \A v \in Tasks : state[v] = "DORMANT" \/ pc[v] = "off" => state'[v] = state[v]
        /\ \A v \in Tasks \ {t} : state'[v] # "RUNNING"
        /\ state'[Idle] \in {"READY", "RUNNING"} /\ state'[t] = "RUNNING"
        /\ state'[w] = "READY" /\ \A v \in Tasks \ {w} : state'[v] = state[v]
    <3>1. state[w] = "WAITING" /\ pc[w] # "off" BY <2>1 DEF Asleep
    <3>2. state'[w] = "READY" /\ \A v \in Tasks \ {w} : state'[v] = state[v] BY <2>2, ListsNow
    <3>3. state[t] = "RUNNING" /\ \A v \in Tasks \ {t} : state[v] # "RUNNING" BY TaskFree, ListsNow DEF CpuInv
    <3>4. state[Idle] \in {"READY", "RUNNING"} BY ListsNow DEF CpuInv
    <3> QED BY <3>1, <3>2, <3>3, <3>4, ContextAssumption
  <2>4. next \in Returns \ {"init", "initwait", "semblock", "mailblock"} BY DEF Returns
  <2>5. OnlyMoves(t, next) BY <2>4, SectionControl
  <2>6. ReadyInv' /\ TCBRdy' \in Seq(Tasks)
    <3>1. Ready(w)' /\ \A v \in Tasks \ {w} : Ready(v)' <=> Ready(v)
      BY <2>1, <2>3, <2>5, OffKept DEF Ready
    <3>2. PICK key : key = prio' OBVIOUS
    <3>3. TCBRdy' = InsertBy(TCBRdy, key, w) BY <2>2, <3>2
    <3> QED BY <2>1, <3>1, <3>3, ListsNow, ReadyJoins, InsertByType
  <2>7. DelayInv'
    <3>1. ~Disposing /\ ~Disposing' BY <2>5, TaskAlone DEF OnlyMoves
    <3>2. \A u \in Tasks : Contains(DlyList, u) => state'[u] = "WAITING" BY <2>1, <2>3, ListsNow DEF DelayInv, Asleep
    <3>3. \A u \in Tasks \ {t} : ret'[u] = ret[u] BY <2>5 DEF OnlyMoves
    <3>4. StaySpoilt(Tasks)
      <4>1. Spoilt(t)' <=> Spoilt(t) BY <2>3, TaskFree DEF Spoilt
      <4>2. Spoilt(w) => Spoilt(w)' BY <2>3 DEF Spoilt
      <4>3. StaySpoilt(Tasks \ {t, w}) BY <1>2, <2>3, <3>3, SpoiltStays
      <4> QED BY <4>1, <4>2, <4>3 DEF StaySpoilt
    <3> QED BY <1>2, <3>1, <3>2, <3>4, ListsNow, DelayKept DEF delayVars
  <2>8. WaitInv'
    <3>1. \A u \in Tasks : eventID[u] # NULL => state'[u] = "WAITING" BY <2>1, <2>3, ListsNow DEF WaitInv, Asleep
    <3> QED BY <1>2, <2>2, <3>1, ListsNow, WaitKept
  <2>9. OrderInv'
    <3>1. \A u \in Tasks \ {t} : arg'[u] = arg[u] BY ControlNow DEF WithArg
    <3> QED BY <1>1, <1>2, <2>3, <2>4, <2>6, <2>7, <2>8, <3>1, SectionKeeps DEF ListInv
  <2>10. ListTypes'
    <3>1. state' \in [Tasks -> States] BY <2>2, ListsNow DEF States
    <3> QED BY <2>2, <2>6, <3>1 DEF ListTypes
  <2>11. DelayTypes' /\ ReqTypes' BY <1>2, KeptTypes, ControlNow DEF TypeOK
  <2>12. EventTypes' BY <1>2, <2>2, ListsNow DEF EventTypes
  <2>13. PoolTypes'
    <3>1. PoolTypes /\ prio[t] \in 0 .. CFG_LOWEST_PRIO BY ListsNow DEF PoolTypes
    <3>2. prio' \in [Tasks -> 0 .. CFG_LOWEST_PRIO] BY <2>1, <2>2, <3>1 DEF PoolTypes
    <3> QED BY <1>2, <3>1, <3>2 DEF PoolTypes
  <2>14. Fits(next, arg'[t]) BY DEF Fits, TaskArgLabels, EventArgLabels
  <2> QED BY <1>2, <1>3, <2>4, <2>9, <2>10, <2>11, <2>12, <2>13, <2>14, SectionSettles
<1> QED BY <1>4, <1>5

\* A task changes its own priority: it runs, and so is in no list.
LEMMA OwnPriority ==
  ASSUME KernelInv, MutexInv, NEW t \in Tasks, Runs(t), NEW p, GivePriority(t, t, p)
  PROVE  \/ Holds(t) /\ prio[t] < p /\ Goto(t, "app") /\ UNCHANGED <<prio, arg>>
         \/ /\ ~(Holds(t) /\ prio[t] < p) /\ prio' = [prio EXCEPT ![t] = p]
            /\ \E on, val : WithArg(t, on, val) /\ on = t
            /\ Goto(t, "app") \/ Goto(t, "resched")
<1>1. state[t] = "RUNNING" BY TaskFree
<1> QED BY <1>1 DEF GivePriority

LEMMA PriorityKeepsKernel ==
  ASSUME KernelInv, MutexInv, NEW t \in Tasks, Runs(t), NEW p \in Priorities, GivePriority(t, t, p)
  PROVE  KernelInv' /\ HandlersSound'
<1>1. UNCHANGED <<listVars, delayVars, eventVars, FreeTCB, ecb, FreeEventList, runVars, reqVars, credit,
                  OSSchedLock, ret>>
  BY DEF GivePriority
<1>2. CASE Goto(t, "app") /\ UNCHANGED <<prio, arg>>
  BY <1>1, <1>2, QuietMutex DEF poolVars, MutexInv
<1>3. ASSUME NEW label \in {"app", "resched"}, Goto(t, label), prio' = [prio EXCEPT ![t] = p],
             \E on, val : WithArg(t, on, val) /\ on = t
      PROVE  KernelInv' /\ HandlersSound'
  <2>1. /\ label \in Labels
        /\ label \notin UnlockLabels \cup NeverAt \cup {"clear", "off", "init", "initwait", "postmail"}
    BY DEF Labels, UnlockLabels, TaskArgLabels, NeverAt
  <2>2. pc'[t] = label BY <1>1, <1>3, <2>1, GotoControl, ControlNow
  <2>3. Managed(t)' BY <2>2 DEF Managed, Managing, SleepsAt
  <2>4. arg'[t].on = t /\ \A u \in Tasks \ {t} : arg'[u] = arg[u] BY <1>3, ControlNow DEF WithArg
  <2>5. OrderInv'
    <3>1. UNCHANGED <<state, TCBRdy, eventID, eventTCBList>> BY <1>1 DEF listVars, eventVars
    <3> QED BY <1>1, <1>3, <2>1, <2>3, <2>4, <3>1, QuietGoto
  <2>6. ListTypes' /\ DelayTypes' /\ EventTypes' /\ ReqTypes' BY <1>1, KeptTypes, ControlNow DEF TypeOK
  <2>7. PoolTypes'
    <3>1. p \in 0 .. CFG_LOWEST_PRIO BY CallValues
    <3> QED BY <1>1, <1>3, <3>1, ListsNow DEF PoolTypes
  <2>8. Fits(label, arg'[t]) BY <2>4 DEF Fits, TaskArgLabels, EventArgLabels
  <2>9. UNCHANGED stalePrev BY <1>1 DEF eventVars
  <2> QED BY <1>1, <1>3, <2>5, <2>6, <2>7, <2>8, <2>9, GotoSettles
<1> QED BY <1>2, <1>3, OwnPriority

---------------------------------------------------------------------------
(* What the steps of the mutexes do to the mutexes *)

\* A step of task t that leaves the calls of the others alone.
Others(t) ==
  \A u \in Tasks \ {t} : /\ After(u)' = After(u) /\ arg'[u] = arg[u]
                         /\ \A n \in Mutexes : Entering(u, n)' <=> Entering(u, n)

LEMMA CallsElsewhere ==
  ASSUME NEW t \in Tasks, NEW next, Moves(t, next), \A u \in Tasks \ {t} : arg'[u] = arg[u]
  PROVE  Others(t)
<1>1. ASSUME NEW u \in Tasks \ {t}
      PROVE  After(u)' = After(u) /\ arg'[u] = arg[u] /\ \A n \in Mutexes : Entering(u, n)' <=> Entering(u, n)
  <2>1. After(u)' = After(u) /\ arg'[u] = arg[u] BY DEF Moves
  <2> QED BY <2>1 DEF Entering
<1> QED BY <1>1 DEF Others

\* A task in its own code owns what it is inside of, and nothing else.
LEMMA OutsideOwnsNone ==
  ASSUME KernelInv, MutexInv, NEW t \in Tasks, Runs(t), pc[t] # "entered"
  PROVE  /\ mutexID[t] = inside[t] /\ \A m \in Mutexes : Owns(t, m) <=> inside[t] = m
         /\ \A m \in Mutexes : ~Entering(t, m)
<1>1. \A m \in Mutexes : ~Entering(t, m) BY AfterRuns DEF Entering
<1>2. mutexID[t] = inside[t]
  <2>1. mutexID[t] # NULL => mutexID[t] \in Mutexes BY DEF MutexInv, MutexTypes
  <2> QED BY <1>1, <2>1 DEF MutexInv, EntryInv
<1>3. \A m \in Mutexes : Owns(t, m) => inside[t] = m BY <1>1, OwnerLives
<1>4. \A m \in Mutexes : inside[t] = m => Owns(t, m) BY MutexAssumption DEF MutexInv, EntryInv
<1> QED BY <1>1, <1>2, <1>3, <1>4

LEMMA CreateKeepsMutex ==
  ASSUME KernelInv, MutexInv, Lent, Disciplined, NEW t \in Tasks, CoCreateMutex(t)
  PROVE  KernelInv' /\ HandlersSound' /\ MutexInv' /\ Lent'
<1>1. Runs(t) /\ pc[t] = "app" /\ After(t) = "app" BY RunsCalling, AfterRuns DEF CoCreateMutex
<1>2. UNCHANGED <<listVars, delayVars, eventVars, poolVars, runVars, reqVars, credit, mutexID, MutexTbl, inside, asked>>
  BY DEF CoCreateMutex
<1>3. AppInv /\ MutexTypes BY DEF MutexInv
<1>4. CASE MutexFreeID < CFG_MAX_MUTEX
  <2>1. /\ LockedSection(t, "initmutex") /\ WithArg(t, MutexFreeID, 0)
        /\ MutexFreeID' = MutexFreeID + 1
    BY <1>4 DEF CoCreateMutex
  <2>2. KernelInv' /\ HandlersSound'
    <3>1. "initmutex" \in MutexLabels \cup {"app", "delete"} BY DEF MutexLabels
    <3> QED BY <1>1, <1>2, <1>3, <2>1, <3>1, QuietMutex
  <2>3. AppInv' /\ Moves(t, "initmutex")
    <3>1. "initmutex" \in Goals BY DEF Goals, MutexLabels
    <3> QED BY <1>1, <1>2, <1>3, <2>1, <3>1, SectionApp
  <2>4. MutexFreeID \in Mutexes /\ MutexFreeID \in Nat BY <1>3, <1>4, MutexAssumption DEF MutexTypes, Mutexes
  <2>5. arg'[t].on = MutexFreeID /\ After(t)' = "initmutex" /\ Others(t)
    <3>1. arg'[t].on = MutexFreeID /\ \A u \in Tasks \ {t} : arg'[u] = arg[u] BY <2>1, ControlNow DEF WithArg
    <3> QED BY <2>3, <3>1, CallsElsewhere DEF Moves
  <2>6. MutexTypes' BY <1>2, <1>3, <1>4, <2>1, MutexAssumption DEF MutexTypes
  <2>7. OwnerInv'
    <3>1. ASSUME NEW m \in Mutexes, NEW o \in Tasks, Owns(o, m), inside[o] = m \/ Entering(o, m), Created(m)
          PROVE  (inside[o] = m \/ Entering(o, m)') /\ Created(m)'
      <4>1. ~Entering(t, m) BY <1>1 DEF Entering
      <4>2. inside[o] = m \/ Entering(o, m)' BY <2>5, <3>1, <4>1 DEF Others
      <4>3. m \in Int BY MutexAssumption DEF Mutexes
      <4>4. Created(m)' BY <2>1, <2>4, <2>5, <3>1, <4>3 DEF Created, Others
      <4> QED BY <4>2, <4>4
    <3> QED BY <1>2, <3>1 DEF MutexInv, OwnerInv, Owns
  <2>8. EntryInv'
    <3>1. \A u \in Tasks : inside'[u] # NULL =>
            Owns(u, inside[u])' /\ mutexID'[u] = inside'[u] /\ After(u)' \notin {"off", "delete", "entered"}
      BY <1>2, <2>5 DEF MutexInv, EntryInv, Owns, Others
    <3>2. \A u \in Tasks : After(u)' = "entered" =>
            /\ arg'[u].on \in Mutexes /\ mutexID'[u] = arg'[u].on
            /\ Owns(u, arg[u].on)' \/ WaitsFor(u, arg[u].on)'
      BY <1>2, <2>5 DEF MutexInv, EntryInv, Owns, WaitsFor, Others
    <3>3. ASSUME NEW u \in Tasks, mutexID'[u] # NULL PROVE inside'[u] = mutexID'[u] \/ Entering(u, mutexID[u])'
      <4>1. CASE u = t BY <1>1, <1>2, <3>3, <4>1, OutsideOwnsNone
      <4>2. CASE u # t BY <1>2, <2>5, <3>3, <4>2 DEF MutexInv, EntryInv, Entering, Others
      <4> QED BY <4>1, <4>2
    <3>4. \A u \in Tasks : After(u)' = "initmutex" => arg'[u].on \in Mutexes
      BY <2>4, <2>5 DEF MutexInv, EntryInv, Others
    <3> QED BY <3>1, <3>2, <3>3, <3>4 DEF EntryInv
  <2>9. QueueInv'
    <3>1. \A u \in Tasks : Asleep(u)' <=> Asleep(u) BY <1>2 DEF Asleep, listVars, delayVars, eventVars
    <3>2. \A m \in Mutexes : ~WaitsFor(t, m) BY <1>1, RunnerAwake
    <3>3. \A u \in Tasks, m \in Mutexes : WaitsFor(u, m)' <=> WaitsFor(u, m) BY <1>2 DEF WaitsFor
    <3> QED BY <1>2, <2>5, <3>1, <3>2, <3>3 DEF MutexInv, QueueInv, Others
  <2>10. Lent' BY <1>2 DEF Lent, WaitsFor, poolVars
  <2> QED BY <2>2, <2>3, <2>6, <2>7, <2>8, <2>9, <2>10 DEF MutexInv
<1>5. CASE ~(MutexFreeID < CFG_MAX_MUTEX)
  <2>1. LockedSection(t, "app") /\ UNCHANGED mutexVars /\ UNCHANGED arg
    BY <1>2, <1>5 DEF CoCreateMutex, mutexVars
  <2>2. KernelInv' /\ HandlersSound' BY <1>1, <1>2, <1>3, <2>1, QuietMutex
  <2>3. "app" \in Goals \ MutexLabels BY DEF Goals, Plain, MutexLabels
  <2>4. AppInv' /\ Moves(t, "app") BY <1>1, <1>2, <1>3, <2>1, <2>3, SectionApp
  <2>5. \A u \in Tasks : Asleep(u) => Asleep(u)' BY <1>2 DEF Asleep, listVars, delayVars, eventVars
  <2>6. Spares BY <1>1, <2>1, <2>3, <2>4, <2>5, TaskSpares DEF MutexLabels
  <2>7. UNCHANGED prio BY <1>2 DEF poolVars
  <2> QED BY <2>2, <2>4, <2>6, <2>7, SparesKeeps, LentStays
<1> QED BY <1>4, <1>5

LEMMA InitKeepsMutex ==
  ASSUME KernelInv, MutexInv, Lent, NEW t \in Tasks, InitMutex(t)
  PROVE  KernelInv' /\ HandlersSound' /\ MutexInv' /\ Lent'
<1>1. Runs(t) /\ pc[t] = "initmutex" BY RunsInCall DEF InitMutex, UnlockLabels
<1>2. PICK i \in Mutexes : i = arg[t].on /\ After(t) = "initmutex" BY <1>1, AfterRuns DEF MutexInv, EntryInv
<1>3. /\ UNCHANGED <<listVars, delayVars, eventVars, poolVars, runVars, reqVars, credit, arg, OSSchedLock, ret,
                     mutexID, MutexFreeID, inside, asked>>
      /\ Goto(t, "app")
  BY DEF InitMutex, callVars
<1>4. AppInv /\ MutexTypes BY DEF MutexInv
<1>5. KernelInv' /\ HandlersSound' BY <1>1, <1>3, <1>4, QuietMutex
<1>6. AppInv' /\ Moves(t, "app") /\ Others(t)
  <2>1. "app" \in Goals BY DEF Goals, Plain
  <2> QED BY <1>1, <1>3, <1>4, <2>1, GotoApp, CallsElsewhere
<1>7. MutexTbl[i].mutexFlag = "FREE" /\ MutexTbl[i].waittingList = <<>>
  <2>1. ~Created(i) BY <1>2 DEF Created
  <2> QED BY <1>4, <2>1 DEF MutexInv, OwnerInv, MutexTypes
<1>8. /\ MutexTbl'[i] = [mutexFlag |-> "FREE", taskID |-> NULL, hipriTaskID |-> NULL, originalPrio |-> 255,
                         waittingList |-> <<>>, staleHead |-> FALSE]
      /\ \A m \in Mutexes \ {i} : MutexTbl'[m] = MutexTbl[m]
  BY <1>2, <1>4 DEF InitMutex, MutexTypes
<1>9. MutexTypes'
  <2>1. <<>> \in Seq(Tasks) /\ 255 \in Nat /\ FALSE \in BOOLEAN OBVIOUS
  <2> QED BY <1>2, <1>3, <1>4, <2>1 DEF InitMutex, MutexTypes
<1>10. \A u \in Tasks, m \in Mutexes : (Owns(u, m)' <=> Owns(u, m)) /\ (WaitsFor(u, m)' <=> WaitsFor(u, m))
  BY <1>7, <1>8, EmptyList DEF Owns, WaitsFor
<1>11. \A m \in Mutexes : ~Entering(t, m) BY <1>2 DEF Entering
<1>12. OwnerInv'
  <2>1. ASSUME NEW m \in Mutexes \ {i}, NEW o \in Tasks, inside[o] = m \/ Entering(o, m), Created(m)
        PROVE  (inside[o] = m \/ Entering(o, m)') /\ Created(m)'
    <3>1. inside[o] = m \/ Entering(o, m)' BY <1>6, <1>11, <2>1 DEF Others
    <3>2. Created(m)' BY <1>3, <1>6, <2>1 DEF Created, Others, Moves
    <3> QED BY <3>1, <3>2
  <2> QED BY <1>3, <1>8, <2>1 DEF MutexInv, OwnerInv
<1>13. EntryInv'
  <2>1. \A u \in Tasks : inside'[u] # NULL =>
          Owns(u, inside[u])' /\ mutexID'[u] = inside'[u] /\ After(u)' \notin {"off", "delete", "entered"}
    BY <1>3, <1>4, <1>6, <1>10 DEF MutexInv, EntryInv, Others, Moves, MutexTypes
  <2>2. \A u \in Tasks : After(u)' = "entered" =>
          /\ arg'[u].on \in Mutexes /\ mutexID'[u] = arg'[u].on
          /\ Owns(u, arg[u].on)' \/ WaitsFor(u, arg[u].on)'
    BY <1>3, <1>6, <1>10 DEF MutexInv, EntryInv, Others, Moves
  <2>3. ASSUME NEW u \in Tasks, mutexID'[u] # NULL PROVE inside'[u] = mutexID'[u] \/ Entering(u, mutexID[u])'
    <3>1. CASE u = t BY <1>1, <1>3, <2>3, <3>1, OutsideOwnsNone
    <3>2. CASE u # t BY <1>3, <1>6, <2>3, <3>2 DEF MutexInv, EntryInv, Entering, Others
    <3> QED BY <3>1, <3>2
  <2>4. \A u \in Tasks : After(u)' = "initmutex" => arg'[u].on \in Mutexes
    BY <1>6 DEF MutexInv, EntryInv, Others, Moves
  <2> QED BY <2>1, <2>2, <2>3, <2>4 DEF EntryInv
<1>14. QueueInv'
  <2>1. \A u \in Tasks : Asleep(u)' <=> Asleep(u) BY <1>3 DEF Asleep, listVars, delayVars, eventVars
  <2>2. ASSUME NEW m \in Mutexes PROVE IsInjective(MutexTbl'[m].waittingList)
    BY <1>7, <1>8 DEF MutexInv, QueueInv
  <2>3. ASSUME NEW m \in Mutexes, NEW u \in Tasks, WaitsFor(u, m)'
        PROVE  Asleep(u)' /\ Entering(u, m)' /\ MutexTbl'[m].taskID # u
    <3>1. WaitsFor(u, m) /\ m # i BY <1>7, <1>10, <2>3, EmptyList DEF WaitsFor
    <3> QED BY <1>6, <1>8, <1>11, <2>1, <3>1 DEF MutexInv, QueueInv, Others
  <2> QED BY <2>2, <2>3 DEF QueueInv
<1>15. Lent'
  <2>1. ASSUME NEW m \in Mutexes, NEW u \in Tasks, WaitsFor(u, m)' PROVE prio'[MutexTbl'[m].taskID] <= prio'[u]
    <3>1. WaitsFor(u, m) /\ m # i BY <1>7, <1>10, <2>1, EmptyList DEF WaitsFor
    <3> QED BY <1>3, <1>8, <3>1 DEF Lent, poolVars
  <2> QED BY <2>1 DEF Lent
<1> QED BY <1>5, <1>6, <1>9, <1>12, <1>13, <1>14, <1>15 DEF MutexInv

LEMMA EnteredKeepsMutex ==
  ASSUME KernelInv, MutexInv, Lent, NEW t \in Tasks, Entered(t)
  PROVE  KernelInv' /\ HandlersSound' /\ MutexInv' /\ Lent'
<1>1. Runs(t) /\ pc[t] = "entered" BY RunsInCall DEF Entered, UnlockLabels
<1>2. After(t) = "entered" /\ \A m \in Mutexes : ~WaitsFor(t, m) BY <1>1, AfterRuns, RunnerAwake
<1>3. PICK m \in Mutexes : m = arg[t].on /\ Owns(t, m) /\ mutexID[t] = m BY <1>2 DEF MutexInv, EntryInv
<1>4. /\ UNCHANGED <<listVars, delayVars, eventVars, poolVars, runVars, reqVars, credit, arg, OSSchedLock, ret,
                     mutexID, MutexTbl, MutexFreeID, asked>>
      /\ Goto(t, "app") /\ inside' = [inside EXCEPT ![t] = m]
  BY <1>3 DEF Entered, callVars
<1>5. AppInv /\ MutexTypes BY DEF MutexInv
<1>6. KernelInv' /\ HandlersSound' BY <1>1, <1>4, <1>5, QuietMutex
<1>7. AppInv' /\ Moves(t, "app") /\ Others(t)
  <2>1. "app" \in Goals BY DEF Goals, Plain
  <2> QED BY <1>1, <1>4, <1>5, <2>1, GotoApp, CallsElsewhere
<1>8. inside'[t] = m /\ \A u \in Tasks \ {t} : inside'[u] = inside[u] BY <1>4, <1>5 DEF MutexTypes
<1>9. MutexTypes' BY <1>4, <1>5 DEF MutexTypes
<1>10. \A u \in Tasks, n \in Mutexes : (Owns(u, n)' <=> Owns(u, n)) /\ (WaitsFor(u, n)' <=> WaitsFor(u, n))
  BY <1>4 DEF Owns, WaitsFor
<1>11. \A n \in Mutexes : Owns(t, n) => n = m BY <1>3, OwnerLives
<1>12. OwnerInv'
  <2>1. ASSUME NEW n \in Mutexes, NEW o \in Tasks, Owns(o, n), inside[o] = n \/ Entering(o, n), Created(n)
        PROVE  (inside'[o] = n \/ Entering(o, n)') /\ Created(n)'
    <3>1. inside'[o] = n \/ Entering(o, n)' BY <1>7, <1>8, <1>11, <2>1 DEF Others
    <3>2. Created(n)' BY <1>4, <1>7, <2>1 DEF Created, Others, Moves
    <3> QED BY <3>1, <3>2
  <2> QED BY <1>4, <2>1 DEF MutexInv, OwnerInv, Owns
<1>13. EntryInv'
  <2>1. \A u \in Tasks : inside'[u] # NULL =>
          Owns(u, inside[u])' /\ mutexID'[u] = inside'[u] /\ After(u)' \notin {"off", "delete", "entered"}
    <3>1. ASSUME NEW u \in Tasks \ {t}, inside'[u] # NULL
          PROVE  Owns(u, inside[u])' /\ mutexID'[u] = inside'[u] /\ After(u)' \notin {"off", "delete", "entered"}
      BY <1>4, <1>5, <1>7, <1>8, <1>10, <3>1 DEF MutexInv, EntryInv, Others, MutexTypes
    <3>2. Owns(t, inside[t])' /\ mutexID'[t] = inside'[t] /\ After(t)' \notin {"off", "delete", "entered"}
      BY <1>3, <1>4, <1>7, <1>8, <1>10 DEF Moves, Owns
    <3> QED BY <3>1, <3>2
  <2>2. \A u \in Tasks : After(u)' = "entered" =>
          /\ arg'[u].on \in Mutexes /\ mutexID'[u] = arg'[u].on
          /\ Owns(u, arg[u].on)' \/ WaitsFor(u, arg[u].on)'
    BY <1>4, <1>7, <1>10 DEF MutexInv, EntryInv, Others, Moves
  <2>3. ASSUME NEW u \in Tasks, mutexID'[u] # NULL PROVE inside'[u] = mutexID'[u] \/ Entering(u, mutexID[u])'
    <3>1. CASE u = t BY <1>3, <1>4, <1>8, <3>1
    <3>2. CASE u # t BY <1>4, <1>7, <1>8, <2>3, <3>2 DEF MutexInv, EntryInv, Entering, Others
    <3> QED BY <3>1, <3>2
  <2>4. \A u \in Tasks : After(u)' = "initmutex" => arg'[u].on \in Mutexes
    BY <1>7 DEF MutexInv, EntryInv, Others, Moves
  <2> QED BY <2>1, <2>2, <2>3, <2>4 DEF EntryInv
<1>14. QueueInv'
  <2>1. \A u \in Tasks : Asleep(u)' <=> Asleep(u) BY <1>4 DEF Asleep, listVars, delayVars, eventVars
  <2> QED BY <1>2, <1>4, <1>7, <1>10, <2>1 DEF MutexInv, QueueInv, Others
<1>15. Lent' BY <1>4 DEF Lent, WaitsFor, poolVars
<1> QED BY <1>6, <1>7, <1>9, <1>12, <1>13, <1>14, <1>15 DEF MutexInv

\* A task that asks for a mutex.
LEMMA EnterCalls ==
  ASSUME KernelInv, MutexInv, Disciplined, NEW t \in Tasks, NEW m \in Mutexes, CoEnterMutexSection(t, m)
  PROVE  /\ AppInv' /\ Others(t) /\ After(t)' = "entered" /\ Entering(t, m)'
         /\ mutexID'[t] = m /\ \A u \in Tasks \ {t} : mutexID'[u] = mutexID[u]
         /\ UNCHANGED <<inside, MutexFreeID, eventID, DlyList>>
         /\ \A n \in Mutexes : Created(n) => Created(n)'
         /\ \A n \in Mutexes : ~Entering(t, n) /\ ~Owns(t, n) /\ ~WaitsFor(t, n)
<1>1. Runs(t) /\ pc[t] = "app" /\ inside[t] = NULL BY EnterFacts
<1>2. LockedSection(t, "entered") /\ WithArg(t, m, 0) /\ UNCHANGED <<runVars, inside, MutexFreeID, eventID, DlyList>>
  BY DEF CoEnterMutexSection, delayVars
<1>3. AppInv' /\ Moves(t, "entered")
  <2>1. "entered" \in Goals BY DEF Goals, MutexLabels
  <2> QED BY <1>1, <1>2, <2>1, SectionApp DEF MutexInv
<1>4. arg'[t].on = m /\ \A u \in Tasks \ {t} : arg'[u] = arg[u] BY <1>2, ControlNow DEF WithArg
<1>5. Others(t) BY <1>3, <1>4, CallsElsewhere
<1>6. mutexID'[t] = m /\ \A u \in Tasks \ {t} : mutexID'[u] = mutexID[u]
  BY DEF CoEnterMutexSection, MutexInv, MutexTypes
<1>7. \A n \in Mutexes : Created(n) => Created(n)' BY <1>2, <1>3, <1>5 DEF Created, Others, Moves
<1>8. \A n \in Mutexes : ~Entering(t, n) /\ ~Owns(t, n) /\ ~WaitsFor(t, n)
  BY <1>1, OutsideOwnsNone, RunnerAwake, MutexAssumption
<1> QED BY <1>2, <1>3, <1>4, <1>5, <1>6, <1>7, <1>8 DEF Moves, Entering

\* It finds the mutex free.
LEMMA OccupyKeepsMutex ==
  ASSUME KernelInv, MutexInv, Lent, Disciplined, NEW t \in Tasks, NEW m \in Mutexes, CoEnterMutexSection(t, m),
         MutexTbl[m].mutexFlag = "FREE"
  PROVE  MutexInv' /\ Lent'
<1>1. /\ AppInv' /\ Others(t) /\ After(t)' = "entered" /\ Entering(t, m)'
      /\ mutexID'[t] = m /\ \A u \in Tasks \ {t} : mutexID'[u] = mutexID[u]
      /\ UNCHANGED <<inside, MutexFreeID, eventID, DlyList>>
      /\ \A n \in Mutexes : Created(n) => Created(n)'
      /\ \A n \in Mutexes : ~Entering(t, n) /\ ~Owns(t, n) /\ ~WaitsFor(t, n)
  BY EnterCalls
<1>2. Occupy(t, m) /\ Created(m) /\ inside[t] = NULL BY DEF CoEnterMutexSection
<1>3. MutexTypes /\ MutexTbl[m].waittingList = <<>> /\ prio[t] \in 0 .. CFG_LOWEST_PRIO
  BY ListsNow DEF MutexInv, OwnerInv, PoolTypes
<1>4. /\ MutexTbl'[m].mutexFlag = "OCCUPY" /\ MutexTbl'[m].taskID = t /\ MutexTbl'[m].originalPrio = prio[t]
      /\ MutexTbl'[m].waittingList = <<>>
      /\ \A n \in Mutexes \ {m} : MutexTbl'[n] = MutexTbl[n]
  BY <1>2, <1>3 DEF Occupy, MutexTypes
<1>5. MutexTypes'
  <2>1. prio[t] \in Nat BY <1>3
  <2>2. MutexTbl' \in [Mutexes -> [mutexFlag : {"FREE", "OCCUPY"}, taskID : Tasks \cup {NULL},
                                   hipriTaskID : Tasks \cup {NULL}, originalPrio : Nat,
                                   waittingList : Seq(Tasks), staleHead : BOOLEAN]]
    <3>1. PICK block : block = [MutexTbl[m] EXCEPT !.mutexFlag = "OCCUPY", !.taskID = t, !.hipriTaskID = t,
                                                   !.originalPrio = prio[t]]
      OBVIOUS
    <3>2. MutexTbl[m] \in [mutexFlag : {"FREE", "OCCUPY"}, taskID : Tasks \cup {NULL},
                           hipriTaskID : Tasks \cup {NULL}, originalPrio : Nat, waittingList : Seq(Tasks), staleHead : BOOLEAN]
      BY <1>3 DEF MutexTypes
    <3>3. block \in [mutexFlag : {"FREE", "OCCUPY"}, taskID : Tasks \cup {NULL},
                     hipriTaskID : Tasks \cup {NULL}, originalPrio : Nat, waittingList : Seq(Tasks), staleHead : BOOLEAN]
      BY <2>1, <3>1, <3>2
    <3>4. MutexTbl' = [MutexTbl EXCEPT ![m] = block] BY <1>2, <1>3, <3>1 DEF Occupy, MutexTypes
    <3> QED BY <1>3, <3>3, <3>4 DEF MutexTypes
  <2>3. mutexID' \in [Tasks -> Mutexes \cup {NULL}] BY <1>3 DEF CoEnterMutexSection, MutexTypes
  <2> QED BY <1>1, <1>3, <2>2, <2>3 DEF MutexTypes
<1>6. \A u \in Tasks, n \in Mutexes : WaitsFor(u, n)' <=> WaitsFor(u, n)
  BY <1>3, <1>4 DEF WaitsFor
<1>7. \A u \in Tasks, n \in Mutexes : Owns(u, n)' <=> Owns(u, n) \/ (u = t /\ n = m)
  BY <1>2, <1>3, <1>4 DEF Owns
<1>8. OwnerInv'
  <2>1. ASSUME NEW n \in Mutexes \ {m}, NEW o \in Tasks, Owns(o, n), inside[o] = n \/ Entering(o, n), Created(n)
        PROVE  (inside'[o] = n \/ Entering(o, n)') /\ Created(n)'
    BY <1>1, <2>1 DEF Others
  <2>2. ASSUME NEW n \in Mutexes \ {m}
        PROVE  IF MutexTbl'[n].mutexFlag = "OCCUPY"
               THEN \E o \in Tasks : /\ MutexTbl'[n].taskID = o /\ (inside'[o] = n \/ Entering(o, n)')
                                     /\ MutexTbl'[n].originalPrio \in 0 .. CFG_LOWEST_PRIO /\ Created(n)'
               ELSE MutexTbl'[n].waittingList = <<>>
    BY <1>4, <2>1 DEF MutexInv, OwnerInv, Owns
  <2> QED BY <1>1, <1>2, <1>3, <1>4, <2>2 DEF OwnerInv
<1>9. EntryInv'
  <2>1. \A u \in Tasks : inside'[u] # NULL =>
          Owns(u, inside[u])' /\ mutexID'[u] = inside'[u] /\ After(u)' \notin {"off", "delete", "entered"}
    BY <1>1, <1>2, <1>3, <1>7 DEF MutexInv, EntryInv, Others, MutexTypes
  <2>2. ASSUME NEW u \in Tasks, After(u)' = "entered"
        PROVE  /\ arg'[u].on \in Mutexes /\ mutexID'[u] = arg'[u].on
               /\ Owns(u, arg[u].on)' \/ WaitsFor(u, arg[u].on)'
    <3>1. CASE u = t BY <1>1, <1>4, <3>1 DEF Entering, Owns
    <3>2. CASE u # t BY <1>1, <1>6, <1>7, <2>2, <3>2 DEF MutexInv, EntryInv, Others
    <3> QED BY <3>1, <3>2
  <2>3. ASSUME NEW u \in Tasks, mutexID'[u] # NULL PROVE inside'[u] = mutexID'[u] \/ Entering(u, mutexID[u])'
    <3>1. CASE u = t BY <1>1, <3>1 DEF Entering
    <3>2. CASE u # t BY <1>1, <2>3, <3>2 DEF MutexInv, EntryInv, Entering, Others
    <3> QED BY <3>1, <3>2
  <2>4. \A u \in Tasks : After(u)' = "initmutex" => arg'[u].on \in Mutexes
    BY <1>1 DEF MutexInv, EntryInv, Others
  <2> QED BY <2>1, <2>2, <2>3, <2>4 DEF EntryInv
<1>10. QueueInv'
  <2>1. UNCHANGED state BY <1>2 DEF Occupy, listVars
  <2>2. \A u \in Tasks : Asleep(u)' <=> Asleep(u) BY <1>1, <2>1 DEF Asleep
  <2>3. ASSUME NEW n \in Mutexes PROVE IsInjective(MutexTbl'[n].waittingList)
    BY <1>3, <1>4 DEF MutexInv, QueueInv
  <2>4. ASSUME NEW n \in Mutexes, NEW u \in Tasks, WaitsFor(u, n)'
        PROVE  Asleep(u)' /\ Entering(u, n)' /\ MutexTbl'[n].taskID # u
    <3>1. WaitsFor(u, n) /\ n # m BY <1>3, <1>6, <2>4, EmptyList DEF WaitsFor
    <3> QED BY <1>1, <1>4, <2>2, <3>1 DEF MutexInv, QueueInv, Others
  <2> QED BY <2>3, <2>4 DEF QueueInv
<1>11. Lent'
  <2>1. UNCHANGED prio BY <1>2 DEF Occupy
  <2>2. ASSUME NEW n \in Mutexes, NEW u \in Tasks, WaitsFor(u, n)' PROVE prio'[MutexTbl'[n].taskID] <= prio'[u]
    <3>1. WaitsFor(u, n) /\ n # m BY <1>3, <1>6, <2>2, EmptyList DEF WaitsFor
    <3> QED BY <1>4, <2>1, <3>1 DEF Lent
  <2> QED BY <2>2 DEF Lent
<1> QED BY <1>1, <1>5, <1>8, <1>9, <1>10, <1>11 DEF MutexInv

\* It finds the mutex taken: it goes to sleep at the end of the list.
LEMMA QueueKeepsMutex ==
  ASSUME KernelInv, MutexInv, Lent, Disciplined, NEW t \in Tasks, NEW m \in Mutexes, CoEnterMutexSection(t, m),
         MutexTbl[m].mutexFlag # "FREE"
  PROVE  MutexInv' /\ Lent'
<1>1. /\ AppInv' /\ Others(t) /\ After(t)' = "entered" /\ Entering(t, m)'
      /\ mutexID'[t] = m /\ \A u \in Tasks \ {t} : mutexID'[u] = mutexID[u]
      /\ UNCHANGED <<inside, MutexFreeID, eventID, DlyList>>
      /\ \A n \in Mutexes : Created(n) => Created(n)'
      /\ \A n \in Mutexes : ~Entering(t, n) /\ ~Owns(t, n) /\ ~WaitsFor(t, n)
  BY EnterCalls
<1>2. WaitForOwner(t, m) /\ Created(m) /\ inside[t] = NULL /\ Runs(t) BY EnterFacts DEF CoEnterMutexSection
<1>3. PICK o \in Tasks \ {t} : MutexTbl[m].taskID = o /\ Owns(o, m) BY EnterFacts
<1>4. MutexTypes /\ PoolTypes BY ListsNow DEF MutexInv
<1>5. PICK hipri \in Tasks \cup {NULL} :
        MutexTbl' = [MutexTbl EXCEPT ![m].waittingList = Append(@, t), ![m].hipriTaskID = hipri]
  <2>1. MutexTbl[m].hipriTaskID \in Tasks \cup {NULL} BY <1>4 DEF MutexTypes
  <2> QED BY <1>2, <2>1 DEF WaitForOwner
<1>6. PICK block : block = [MutexTbl[m] EXCEPT !.waittingList = Append(@, t), !.hipriTaskID = hipri] OBVIOUS
<1>7. MutexTbl' = [MutexTbl EXCEPT ![m] = block] BY <1>4, <1>5, <1>6 DEF MutexTypes
<1>8. /\ block \in [mutexFlag : {"FREE", "OCCUPY"}, taskID : Tasks \cup {NULL},
                    hipriTaskID : Tasks \cup {NULL}, originalPrio : Nat, waittingList : Seq(Tasks), staleHead : BOOLEAN]
      /\ block.mutexFlag = MutexTbl[m].mutexFlag /\ block.taskID = MutexTbl[m].taskID
      /\ block.originalPrio = MutexTbl[m].originalPrio
      /\ block.waittingList = Append(MutexTbl[m].waittingList, t)
  <2>1. MutexTbl[m] \in [mutexFlag : {"FREE", "OCCUPY"}, taskID : Tasks \cup {NULL},
                         hipriTaskID : Tasks \cup {NULL}, originalPrio : Nat, waittingList : Seq(Tasks), staleHead : BOOLEAN]
    BY <1>4 DEF MutexTypes
  <2>2. Append(MutexTbl[m].waittingList, t) \in Seq(Tasks) BY <2>1
  <2> QED BY <1>6, <2>1, <2>2
<1>9. MutexTbl'[m] = block /\ \A n \in Mutexes \ {m} : MutexTbl'[n] = MutexTbl[n] BY <1>4, <1>7 DEF MutexTypes
<1>10. MutexTypes'
  <2>1. mutexID' \in [Tasks -> Mutexes \cup {NULL}] BY <1>4 DEF CoEnterMutexSection, MutexTypes
  <2> QED BY <1>1, <1>4, <1>7, <1>8, <2>1 DEF MutexTypes
<1>11. \A u \in Tasks, n \in Mutexes : WaitsFor(u, n)' <=> WaitsFor(u, n) \/ (u = t /\ n = m)
  <2>1. \A x : Contains(Append(MutexTbl[m].waittingList, t), x) <=> Contains(MutexTbl[m].waittingList, x) \/ x = t
    BY <1>4, AppendItems DEF MutexTypes
  <2> QED BY <1>8, <1>9, <2>1 DEF WaitsFor
<1>12. \A u \in Tasks, n \in Mutexes : Owns(u, n)' <=> Owns(u, n) BY <1>8, <1>9 DEF Owns
<1>13. OwnerInv'
  <2>1. ASSUME NEW n \in Mutexes, NEW v \in Tasks, Owns(v, n), inside[v] = n \/ Entering(v, n), Created(n)
        PROVE  (inside'[v] = n \/ Entering(v, n)') /\ Created(n)'
    BY <1>1, <2>1 DEF Others
  <2>2. \A n \in Mutexes : /\ MutexTbl'[n].mutexFlag = MutexTbl[n].mutexFlag /\ MutexTbl'[n].taskID = MutexTbl[n].taskID
                           /\ MutexTbl'[n].originalPrio = MutexTbl[n].originalPrio
                           /\ n # m => MutexTbl'[n].waittingList = MutexTbl[n].waittingList
    BY <1>8, <1>9
  <2>3. MutexTbl[m].mutexFlag = "OCCUPY" BY <1>3 DEF Owns
  <2> QED BY <2>1, <2>2, <2>3 DEF MutexInv, OwnerInv, Owns
<1>14. EntryInv'
  <2>1. \A u \in Tasks : inside'[u] # NULL =>
          Owns(u, inside[u])' /\ mutexID'[u] = inside'[u] /\ After(u)' \notin {"off", "delete", "entered"}
    BY <1>1, <1>2, <1>4, <1>12 DEF MutexInv, EntryInv, Others, MutexTypes
  <2>2. ASSUME NEW u \in Tasks, After(u)' = "entered"
        PROVE  /\ arg'[u].on \in Mutexes /\ mutexID'[u] = arg'[u].on
               /\ Owns(u, arg[u].on)' \/ WaitsFor(u, arg[u].on)'
    <3>1. CASE u = t
      <4>1. arg'[t].on = m /\ WaitsFor(t, m)' BY <1>1, <1>11 DEF Entering
      <4> QED BY <1>1, <3>1, <4>1 DEF WaitsFor
    <3>2. CASE u # t BY <1>1, <1>11, <1>12, <2>2, <3>2 DEF MutexInv, EntryInv, Others
    <3> QED BY <3>1, <3>2
  <2>3. ASSUME NEW u \in Tasks, mutexID'[u] # NULL PROVE inside'[u] = mutexID'[u] \/ Entering(u, mutexID[u])'
    <3>1. CASE u = t BY <1>1, <3>1 DEF Entering
    <3>2. CASE u # t BY <1>1, <2>3, <3>2 DEF MutexInv, EntryInv, Entering, Others
    <3> QED BY <3>1, <3>2
  <2>4. \A u \in Tasks : After(u)' = "initmutex" => arg'[u].on \in Mutexes
    BY <1>1 DEF MutexInv, EntryInv, Others
  <2> QED BY <2>1, <2>2, <2>3, <2>4 DEF EntryInv
<1>15. QueueInv'
  <2>1. state' = [state EXCEPT ![t] = "WAITING"] BY <1>2 DEF WaitForOwner, Block
  <2>2. Asleep(t)' /\ \A u \in Tasks : Asleep(u) => Asleep(u)'
    <3>1. state'[t] = "WAITING" /\ \A u \in Tasks \ {t} : state'[u] = state[u] BY <2>1, ListsNow
    <3>2. eventID[t] = NULL /\ ~Contains(DlyList, t) BY <1>2, TaskFree
    <3> QED BY <1>1, <3>1, <3>2 DEF Asleep
  <2>3. ASSUME NEW n \in Mutexes PROVE IsInjective(MutexTbl'[n].waittingList)
    <3>1. IsInjective(MutexTbl[n].waittingList) BY DEF MutexInv, QueueInv
    <3>2. IsInjective(Append(MutexTbl[m].waittingList, t))
      BY <1>1, <1>4, AppendItems DEF MutexTypes, MutexInv, QueueInv, WaitsFor
    <3> QED BY <1>8, <1>9, <3>1, <3>2
  <2>4. ASSUME NEW n \in Mutexes, NEW u \in Tasks, WaitsFor(u, n)'
        PROVE  Asleep(u)' /\ Entering(u, n)' /\ MutexTbl'[n].taskID # u
    <3>1. CASE u = t /\ n = m BY <1>1, <1>3, <1>8, <1>9, <2>2, <3>1
    <3>2. CASE ~(u = t /\ n = m)
      <4>1. WaitsFor(u, n) /\ u # t BY <1>1, <1>11, <2>4, <3>2
      <4>2. Asleep(u) /\ Entering(u, n) /\ MutexTbl[n].taskID # u BY <4>1 DEF MutexInv, QueueInv
      <4> QED BY <1>1, <1>8, <1>9, <2>2, <4>1, <4>2 DEF Others
    <3> QED BY <3>1, <3>2
  <2> QED BY <2>3, <2>4 DEF QueueInv
<1>16. Lent'
  <2>1. /\ prio'[o] <= prio[o] /\ prio'[o] <= prio'[t] /\ \A u \in Tasks \ {o} : prio'[u] = prio[u]
        /\ \A u \in Tasks : prio'[u] <= prio[u]
    BY <1>2, <1>3, <1>4 DEF WaitForOwner, PoolTypes
  <2>2. prio \in [Tasks -> Nat] /\ prio' \in [Tasks -> Nat]
    BY <1>2, <1>3, <1>4 DEF WaitForOwner, PoolTypes
  <2>3. ASSUME NEW n \in Mutexes, NEW u \in Tasks, WaitsFor(u, n)' PROVE prio'[MutexTbl'[n].taskID] <= prio'[u]
    <3>1. CASE u = t /\ n = m BY <1>3, <1>8, <1>9, <2>1, <3>1
    <3>2. CASE ~(u = t /\ n = m)
      <4>1. WaitsFor(u, n) BY <1>11, <2>3, <3>2
      <4>2. u # o BY <1>3, <4>1, OwnerLives
      <4>3. MutexTbl[n].waittingList # <<>> BY <4>1, EmptyList DEF WaitsFor
      <4>4. PICK v \in Tasks : MutexTbl[n].taskID = v BY <4>3 DEF MutexInv, OwnerInv
      <4>5. MutexTbl'[n].taskID = v BY <1>8, <1>9, <4>4
      <4>6. prio[v] <= prio[u] BY <4>1, <4>4 DEF Lent
      <4> QED BY <2>1, <2>2, <4>2, <4>5, <4>6
    <3> QED BY <3>1, <3>2
  <2> QED BY <2>3 DEF Lent
<1> QED BY <1>1, <1>10, <1>13, <1>14, <1>15, <1>16 DEF MutexInv

\* The task that leaves the mutex it is inside of.
LEMMA LeaveCalls ==
  ASSUME KernelInv, MutexInv, NEW t \in Tasks, Runs(t), pc[t] # "entered", NEW m \in Mutexes, Owns(t, m),
         LeaveBody(m), NEW next \in {"app", "delete"}, LockedSection(t, next), UNCHANGED arg \/ WithArg(t, t, 0)
  PROVE  /\ AppInv' /\ Others(t) /\ After(t)' = next
         /\ mutexID'[t] = NULL /\ \A u \in Tasks \ {t} : mutexID'[u] = mutexID[u]
         /\ inside'[t] = NULL /\ \A u \in Tasks \ {t} : inside'[u] = inside[u]
         /\ mutexID' \in [Tasks -> Mutexes \cup {NULL}] /\ inside' \in [Tasks -> Mutexes \cup {NULL}]
         /\ UNCHANGED <<MutexFreeID, eventID, DlyList>>
         /\ \A n \in Mutexes : Created(n) => Created(n)'
         /\ \A n \in Mutexes : ~Entering(t, n) /\ (Owns(t, n) <=> n = m) /\ ~WaitsFor(t, n)
<1>1. MutexTbl[m].taskID = t /\ MutexTypes /\ AppInv BY DEF Owns, MutexInv
<1>2. /\ mutexID' = [mutexID EXCEPT ![t] = NULL] /\ inside' = [inside EXCEPT ![t] = NULL]
      /\ UNCHANGED <<runVars, MutexFreeID, eventID, DlyList>>
  BY <1>1 DEF LeaveBody, delayVars
<1>3. AppInv' /\ Moves(t, next)
  <2>1. next \in Goals BY DEF Goals, Plain
  <2> QED BY <1>1, <1>2, <2>1, SectionApp
<1>4. \A u \in Tasks \ {t} : arg'[u] = arg[u] BY ControlNow DEF WithArg
<1>5. Others(t) BY <1>3, <1>4, CallsElsewhere
<1>6. \A n \in Mutexes : Created(n) => Created(n)' BY <1>2, <1>3, <1>5 DEF Created, Others, Moves
<1>7. \A n \in Mutexes : ~Entering(t, n) /\ (Owns(t, n) <=> n = m) /\ ~WaitsFor(t, n)
  BY OutsideOwnsNone, RunnerAwake
<1> QED BY <1>1, <1>2, <1>3, <1>5, <1>6, <1>7 DEF Moves, MutexTypes

\* Nobody waits for it.
LEMMA FreeKeepsMutex ==
  ASSUME KernelInv, MutexInv, Lent, NEW t \in Tasks, Runs(t), pc[t] # "entered", NEW m \in Mutexes, Owns(t, m),
         LeaveBody(m), NEW next \in {"app", "delete"}, LockedSection(t, next), UNCHANGED arg \/ WithArg(t, t, 0),
         MutexTbl[m].waittingList = <<>>
  PROVE  MutexInv' /\ Lent'
<1>1. /\ AppInv' /\ Others(t) /\ After(t)' = next
      /\ mutexID'[t] = NULL /\ \A u \in Tasks \ {t} : mutexID'[u] = mutexID[u]
      /\ inside'[t] = NULL /\ \A u \in Tasks \ {t} : inside'[u] = inside[u]
      /\ mutexID' \in [Tasks -> Mutexes \cup {NULL}] /\ inside' \in [Tasks -> Mutexes \cup {NULL}]
      /\ UNCHANGED <<MutexFreeID, eventID, DlyList>>
      /\ \A n \in Mutexes : Created(n) => Created(n)'
      /\ \A n \in Mutexes : ~Entering(t, n) /\ (Owns(t, n) <=> n = m) /\ ~WaitsFor(t, n)
  BY LeaveCalls
<1>2. FreeMutex(m) BY DEF LeaveBody
<1>3. MutexTypes /\ UNCHANGED <<state, prio>> BY <1>2 DEF MutexInv, FreeMutex, listVars
<1>4. /\ MutexTbl'[m].mutexFlag = "FREE" /\ MutexTbl'[m].taskID = NULL /\ MutexTbl'[m].waittingList = <<>>
      /\ \A n \in Mutexes \ {m} : MutexTbl'[n] = MutexTbl[n]
      /\ MutexTbl' \in [Mutexes -> [mutexFlag : {"FREE", "OCCUPY"}, taskID : Tasks \cup {NULL},
                                    hipriTaskID : Tasks \cup {NULL}, originalPrio : Nat,
                                    waittingList : Seq(Tasks), staleHead : BOOLEAN]]
  <2>1. PICK block : block = [MutexTbl[m] EXCEPT !.mutexFlag = "FREE", !.taskID = NULL] OBVIOUS
  <2>2. MutexTbl[m] \in [mutexFlag : {"FREE", "OCCUPY"}, taskID : Tasks \cup {NULL},
                         hipriTaskID : Tasks \cup {NULL}, originalPrio : Nat, waittingList : Seq(Tasks), staleHead : BOOLEAN]
    BY <1>3 DEF MutexTypes
  <2>3. /\ block \in [mutexFlag : {"FREE", "OCCUPY"}, taskID : Tasks \cup {NULL},
                      hipriTaskID : Tasks \cup {NULL}, originalPrio : Nat, waittingList : Seq(Tasks), staleHead : BOOLEAN]
        /\ block.mutexFlag = "FREE" /\ block.taskID = NULL /\ block.waittingList = <<>>
    BY <2>1, <2>2
  <2>4. MutexTbl' = [MutexTbl EXCEPT ![m] = block] BY <1>2, <1>3, <2>1 DEF FreeMutex, MutexTypes
  <2> QED BY <1>3, <2>3, <2>4 DEF MutexTypes
<1>5. MutexTypes' BY <1>1, <1>3, <1>4 DEF MutexTypes
<1>6. /\ \A u \in Tasks, n \in Mutexes : WaitsFor(u, n)' <=> WaitsFor(u, n)
      /\ \A u \in Tasks, n \in Mutexes : WaitsFor(u, n) => n # m
  BY <1>4, EmptyList DEF WaitsFor
<1>7. \A u \in Tasks \ {t}, n \in Mutexes : Owns(u, n) => Owns(u, n)' /\ n # m BY <1>4 DEF Owns
<1>8. OwnerInv'
  <2>1. ASSUME NEW n \in Mutexes \ {m}, NEW o \in Tasks, Owns(o, n), inside[o] = n \/ Entering(o, n), Created(n)
        PROVE  (inside'[o] = n \/ Entering(o, n)') /\ Created(n)'
    <3>1. o # t BY <1>1, <2>1
    <3> QED BY <1>1, <2>1, <3>1 DEF Others
  <2>2. ASSUME NEW n \in Mutexes \ {m}
        PROVE  IF MutexTbl'[n].mutexFlag = "OCCUPY"
               THEN \E o \in Tasks : /\ MutexTbl'[n].taskID = o /\ (inside'[o] = n \/ Entering(o, n)')
                                     /\ MutexTbl'[n].originalPrio \in 0 .. CFG_LOWEST_PRIO /\ Created(n)'
               ELSE MutexTbl'[n].waittingList = <<>>
    BY <1>4, <2>1 DEF MutexInv, OwnerInv, Owns
  <2> QED BY <1>4, <2>2 DEF OwnerInv
<1>9. EntryInv'
  <2>1. \A u \in Tasks : inside'[u] # NULL =>
          Owns(u, inside[u])' /\ mutexID'[u] = inside'[u] /\ After(u)' \notin {"off", "delete", "entered"}
    BY <1>1, <1>3, <1>7 DEF MutexInv, EntryInv, Others, MutexTypes
  <2>2. \A u \in Tasks : After(u)' = "entered" =>
          /\ arg'[u].on \in Mutexes /\ mutexID'[u] = arg'[u].on
          /\ Owns(u, arg[u].on)' \/ WaitsFor(u, arg[u].on)'
    BY <1>1, <1>6, <1>7 DEF MutexInv, EntryInv, Others
  <2>3. \A u \in Tasks : mutexID'[u] # NULL => inside'[u] = mutexID'[u] \/ Entering(u, mutexID[u])'
    BY <1>1 DEF MutexInv, EntryInv, Entering, Others
  <2>4. \A u \in Tasks : After(u)' = "initmutex" => arg'[u].on \in Mutexes
    BY <1>1 DEF MutexInv, EntryInv, Others
  <2> QED BY <2>1, <2>2, <2>3, <2>4 DEF EntryInv
<1>10. QueueInv'
  <2>1. \A u \in Tasks : Asleep(u)' <=> Asleep(u) BY <1>1, <1>3 DEF Asleep
  <2>2. ASSUME NEW n \in Mutexes PROVE IsInjective(MutexTbl'[n].waittingList)
    BY <1>4 DEF MutexInv, QueueInv
  <2>3. ASSUME NEW n \in Mutexes, NEW u \in Tasks, WaitsFor(u, n)'
        PROVE  Asleep(u)' /\ Entering(u, n)' /\ MutexTbl'[n].taskID # u
    <3>1. WaitsFor(u, n) /\ n # m BY <1>6, <2>3
    <3> QED BY <1>1, <1>4, <2>1, <3>1 DEF MutexInv, QueueInv, Others
  <2> QED BY <2>2, <2>3 DEF QueueInv
<1>11. Lent'
  <2>1. ASSUME NEW n \in Mutexes, NEW u \in Tasks, WaitsFor(u, n)' PROVE prio'[MutexTbl'[n].taskID] <= prio'[u]
    <3>1. WaitsFor(u, n) /\ n # m BY <1>6, <2>1
    <3> QED BY <1>3, <1>4, <3>1 DEF Lent
  <2> QED BY <2>1 DEF Lent
<1> QED BY <1>1, <1>5, <1>8, <1>9, <1>10, <1>11 DEF MutexInv

\* The highest of the waiting tasks is one of them.
LEMMA HighestWaiterIs ==
  ASSUME PoolTypes, NEW list \in Seq(Tasks), NEW floor \in 0 .. CFG_LOWEST_PRIO, NEW none \in Tasks \cup {NULL}
  PROVE  HighestWaiter(list, floor, none) \in Tasks \cup {NULL}
<1> DEFINE prios == {floor} \cup {prio[list[i]] : i \in DOMAIN list}
<1> DEFINE Best(i) == prio[list[i]] = Lowest(list, floor)
<1>1. CASE Lowest(list, floor) = floor BY <1>1 DEF HighestWaiter
<1>2. CASE Lowest(list, floor) # floor
  <2>1. \A i \in DOMAIN list : prio[list[i]] \in 0 .. CFG_LOWEST_PRIO BY DEF PoolTypes
  <2>2. prios \in SUBSET Nat /\ prios # {} BY <2>1
  <2>3. \E p \in prios : \A q \in prios : p <= q BY <2>2, LeastNumber
  <2>4. Lowest(list, floor) \in prios BY <2>3 DEF Lowest
  <2>5. \E i \in DOMAIN list : Best(i) BY <1>2, <2>4
  <2>6. PICK T : T = {i \in DOMAIN list : Best(i)} OBVIOUS
  <2>7. DOMAIN list = 1 .. Len(list) /\ Len(list) \in Nat OBVIOUS
  <2>8. T \in SUBSET Nat /\ T # {} BY <2>5, <2>6, <2>7
  <2>9. PICK i \in T : \A j \in T : i <= j BY <2>8, LeastNumber
  <2>10. i \in DOMAIN list /\ Best(i) /\ \A j \in 1 .. i - 1 : ~Best(j)
    <3>1. i \in DOMAIN list /\ Best(i) BY <2>6
    <3>2. ASSUME NEW j \in 1 .. i - 1, Best(j) PROVE FALSE
      <4>1. j \in DOMAIN list /\ ~(i <= j) BY <2>7, <3>1
      <4>2. j \in T BY <2>6, <3>2, <4>1
      <4> QED BY <2>9, <4>1, <4>2
    <3> QED BY <3>1, <3>2
  <2>11. \E k \in DOMAIN list : /\ prio[list[k]] = Lowest(list, floor)
                                /\ \A j \in 1 .. k - 1 : prio[list[j]] # prio[list[k]]
    BY <2>10
  <2>12. (CHOOSE k \in DOMAIN list : /\ prio[list[k]] = Lowest(list, floor)
                                     /\ \A j \in 1 .. k - 1 : prio[list[j]] # prio[list[k]]) \in DOMAIN list
    BY <2>11
  <2> QED BY <1>2, <2>12 DEF HighestWaiter
<1> QED BY <1>1, <1>2

\* Somebody waits: the first of the list becomes the owner.
LEMMA HandOverKeepsMutex ==
  ASSUME KernelInv, MutexInv, Lent, NEW t \in Tasks, Runs(t), pc[t] # "entered", NEW m \in Mutexes, Owns(t, m),
         LeaveBody(m), NEW next \in {"app", "delete"}, LockedSection(t, next), UNCHANGED arg \/ WithArg(t, t, 0),
         MutexTbl[m].waittingList # <<>>
  PROVE  MutexInv' /\ Lent'
<1>1. /\ AppInv' /\ Others(t) /\ After(t)' = next
      /\ mutexID'[t] = NULL /\ \A u \in Tasks \ {t} : mutexID'[u] = mutexID[u]
      /\ inside'[t] = NULL /\ \A u \in Tasks \ {t} : inside'[u] = inside[u]
      /\ mutexID' \in [Tasks -> Mutexes \cup {NULL}] /\ inside' \in [Tasks -> Mutexes \cup {NULL}]
      /\ UNCHANGED <<MutexFreeID, eventID, DlyList>>
      /\ \A n \in Mutexes : Created(n) => Created(n)'
      /\ \A n \in Mutexes : ~Entering(t, n) /\ (Owns(t, n) <=> n = m) /\ ~WaitsFor(t, n)
  BY LeaveCalls
<1>2. PICK w \in Tasks \ {t} :
        /\ w = Head(MutexTbl[m].waittingList) /\ WaitsFor(w, m) /\ Asleep(w) /\ Entering(w, m)
        /\ Lowest(MutexTbl[m].waittingList, prio[w]) \in 0 .. CFG_LOWEST_PRIO
        /\ MutexTbl[m].originalPrio \in 0 .. CFG_LOWEST_PRIO
  BY NextOwner
<1>3. HandOver(m) /\ MutexTbl[m].taskID = t /\ MutexTbl[m].mutexFlag = "OCCUPY" BY DEF LeaveBody, Owns
<1>4. /\ MutexTypes /\ PoolTypes /\ prio[w] \in 0 .. CFG_LOWEST_PRIO /\ prio[w] \in Nat
      /\ MutexTbl[m].waittingList \in Seq(Tasks) /\ MutexTbl[m].hipriTaskID \in Tasks \cup {NULL}
  BY ListsNow DEF MutexInv, MutexTypes, PoolTypes
<1>5. PICK hipri \in Tasks \cup {NULL}, stale \in BOOLEAN :
        MutexTbl' = [MutexTbl EXCEPT ![m].hipriTaskID = hipri, ![m].waittingList = Tail(@), ![m].staleHead = stale,
                                     ![m].originalPrio = prio[w], ![m].taskID = w]
  <2>1. HighestWaiter(MutexTbl[m].waittingList, prio[w], MutexTbl[m].hipriTaskID) \in Tasks \cup {NULL}
    BY <1>4, HighestWaiterIs
  <2>2. (Len(MutexTbl[m].waittingList) > 1) \in BOOLEAN OBVIOUS
  <2> QED BY <1>2, <1>3, <1>4, <2>1, <2>2 DEF HandOver
<1>6. PICK block : block = [MutexTbl[m] EXCEPT !.hipriTaskID = hipri, !.waittingList = Tail(@),
                                               !.staleHead = stale, !.originalPrio = prio[w], !.taskID = w]
  OBVIOUS
<1>7. MutexTbl' = [MutexTbl EXCEPT ![m] = block] BY <1>4, <1>5, <1>6 DEF MutexTypes
<1>8. /\ block \in [mutexFlag : {"FREE", "OCCUPY"}, taskID : Tasks \cup {NULL},
                    hipriTaskID : Tasks \cup {NULL}, originalPrio : Nat, waittingList : Seq(Tasks), staleHead : BOOLEAN]
      /\ block.mutexFlag = MutexTbl[m].mutexFlag /\ block.taskID = w /\ block.originalPrio = prio[w]
      /\ block.waittingList = Tail(MutexTbl[m].waittingList)
  <2>1. MutexTbl[m] \in [mutexFlag : {"FREE", "OCCUPY"}, taskID : Tasks \cup {NULL},
                         hipriTaskID : Tasks \cup {NULL}, originalPrio : Nat, waittingList : Seq(Tasks), staleHead : BOOLEAN]
    BY <1>4 DEF MutexTypes
  <2>2. Tail(MutexTbl[m].waittingList) \in Seq(Tasks) BY <1>4, HeadTailType
  <2> QED BY <1>4, <1>6, <2>1, <2>2
<1>9. MutexTbl'[m] = block /\ \A n \in Mutexes \ {m} : MutexTbl'[n] = MutexTbl[n] BY <1>4, <1>7 DEF MutexTypes
<1>10. MutexTypes' BY <1>1, <1>4, <1>7, <1>8 DEF MutexTypes
<1>11. /\ IsInjective(Tail(MutexTbl[m].waittingList))
       /\ \A u \in Tasks, n \in Mutexes : WaitsFor(u, n)' <=> WaitsFor(u, n) /\ ~(u = w /\ n = m)
  <2>1. IsInjective(MutexTbl[m].waittingList) BY DEF MutexInv, QueueInv
  <2>2. /\ IsInjective(Tail(MutexTbl[m].waittingList))
        /\ \A x : Contains(Tail(MutexTbl[m].waittingList), x) <=> Contains(MutexTbl[m].waittingList, x) /\ x # w
    BY <1>2, <1>4, <2>1, HeadTailItems
  <2> QED BY <1>8, <1>9, <2>2 DEF WaitsFor
<1>12. /\ \A u \in Tasks \ {t}, n \in Mutexes : Owns(u, n) => n # m /\ Owns(u, n)'
       /\ Owns(w, m)'
  BY <1>3, <1>8, <1>9 DEF Owns
\* It waits for this mutex only.
<1>13. \A n \in Mutexes : WaitsFor(w, n) => n = m
  BY <1>2 DEF MutexInv, QueueInv, Entering
<1>14. OwnerInv'
  <2>1. ASSUME NEW n \in Mutexes \ {m}, NEW o \in Tasks, Owns(o, n), inside[o] = n \/ Entering(o, n), Created(n)
        PROVE  (inside'[o] = n \/ Entering(o, n)') /\ Created(n)'
    <3>1. o # t BY <1>1, <2>1
    <3> QED BY <1>1, <2>1, <3>1 DEF Others
  <2>2. ASSUME NEW n \in Mutexes \ {m}
        PROVE  IF MutexTbl'[n].mutexFlag = "OCCUPY"
               THEN \E o \in Tasks : /\ MutexTbl'[n].taskID = o /\ (inside'[o] = n \/ Entering(o, n)')
                                     /\ MutexTbl'[n].originalPrio \in 0 .. CFG_LOWEST_PRIO /\ Created(n)'
               ELSE MutexTbl'[n].waittingList = <<>>
    BY <1>9, <2>1 DEF MutexInv, OwnerInv, Owns
  <2>3. Entering(w, m)' BY <1>1, <1>2 DEF Others
  <2>4. Created(m)' BY <1>1, <1>3 DEF MutexInv, OwnerInv
  <2> QED BY <1>3, <1>4, <1>8, <1>9, <2>2, <2>3, <2>4 DEF OwnerInv
<1>15. EntryInv'
  <2>1. \A u \in Tasks : inside'[u] # NULL =>
          Owns(u, inside[u])' /\ mutexID'[u] = inside'[u] /\ After(u)' \notin {"off", "delete", "entered"}
    BY <1>1, <1>4, <1>12 DEF MutexInv, EntryInv, Others, MutexTypes
  <2>2. ASSUME NEW u \in Tasks, After(u)' = "entered"
        PROVE  /\ arg'[u].on \in Mutexes /\ mutexID'[u] = arg'[u].on
               /\ Owns(u, arg[u].on)' \/ WaitsFor(u, arg[u].on)'
    <3>1. u # t BY <1>1, <2>2
    <3>2. CASE u = w
      <4>1. arg'[w].on = m /\ mutexID[w] = m BY <1>1, <1>2, <3>1 DEF Others, Entering, MutexInv, EntryInv
      <4>2. Owns(w, arg[w].on)' BY <1>12, <4>1 DEF Owns
      <4> QED BY <1>1, <3>1, <3>2, <4>1, <4>2
    <3>3. CASE u # w BY <1>1, <1>11, <1>12, <2>2, <3>1, <3>3 DEF MutexInv, EntryInv, Others
    <3> QED BY <3>2, <3>3
  <2>3. \A u \in Tasks : mutexID'[u] # NULL => inside'[u] = mutexID'[u] \/ Entering(u, mutexID[u])'
    BY <1>1 DEF MutexInv, EntryInv, Entering, Others
  <2>4. \A u \in Tasks : After(u)' = "initmutex" => arg'[u].on \in Mutexes
    BY <1>1 DEF MutexInv, EntryInv, Others
  <2> QED BY <2>1, <2>2, <2>3, <2>4 DEF EntryInv
<1>16. /\ state' = [state EXCEPT ![w] = "READY"]
       /\ prio' = [prio EXCEPT ![t] = MutexTbl[m].originalPrio,
                               ![w] = IF MutexTbl[m].hipriTaskID = t
                                      THEN Lowest(MutexTbl[m].waittingList, prio[w]) ELSE prio[t]]
  BY <1>2, HandOverFacts
<1>17. QueueInv'
  <2>1. \A u \in Tasks \ {w} : Asleep(u)' <=> Asleep(u) BY <1>1, <1>16, ListsNow DEF Asleep
  <2>2. ASSUME NEW n \in Mutexes PROVE IsInjective(MutexTbl'[n].waittingList)
    BY <1>8, <1>9, <1>11 DEF MutexInv, QueueInv
  <2>3. ASSUME NEW n \in Mutexes, NEW u \in Tasks, WaitsFor(u, n)'
        PROVE  Asleep(u)' /\ Entering(u, n)' /\ MutexTbl'[n].taskID # u
    <3>1. WaitsFor(u, n) /\ u # w BY <1>11, <1>13, <2>3
    <3>2. Asleep(u) /\ Entering(u, n) /\ MutexTbl[n].taskID # u BY <3>1 DEF MutexInv, QueueInv
    <3> QED BY <1>1, <1>8, <1>9, <2>1, <3>1, <3>2 DEF Others
  <2> QED BY <2>2, <2>3 DEF QueueInv
<1>18. Lent'
  <2>1. ASSUME NEW n \in Mutexes, NEW u \in Tasks, WaitsFor(u, n)' PROVE prio'[MutexTbl'[n].taskID] <= prio'[u]
    <3>1. WaitsFor(u, n) /\ u # w /\ u # t BY <1>1, <1>11, <1>13, <2>1
    <3>2. prio'[u] = prio[u] BY <1>4, <1>16, <3>1 DEF PoolTypes
    <3>3. CASE n = m
      <4>1. prio'[w] = IF MutexTbl[m].hipriTaskID = t
                       THEN Lowest(MutexTbl[m].waittingList, prio[w]) ELSE prio[t]
        BY <1>4, <1>16 DEF PoolTypes
      <4>2. prio[t] <= prio[u] BY <1>3, <3>1, <3>3 DEF Lent
      <4>3. Lowest(MutexTbl[m].waittingList, prio[w]) <= prio[u]
        <5>1. \E i \in DOMAIN MutexTbl[m].waittingList : MutexTbl[m].waittingList[i] = u
          BY <1>4, <3>1, <3>3, ContainsMeans DEF WaitsFor
        <5> QED BY <1>4, <5>1, LowestIs
      <4> QED BY <1>8, <1>9, <3>2, <3>3, <4>1, <4>2, <4>3
    <3>4. CASE n # m
      <4>1. MutexTbl[n].waittingList # <<>> BY <3>1, EmptyList DEF WaitsFor
      <4>2. PICK v \in Tasks : MutexTbl[n].taskID = v /\ Owns(v, n)
        BY <4>1 DEF MutexInv, OwnerInv, Owns
      <4>3. v # t /\ v # w BY <1>1, <1>2, <3>4, <4>2, OwnerLives
      <4>4. prio'[v] = prio[v] BY <1>4, <1>16, <4>3 DEF PoolTypes
      <4> QED BY <1>9, <3>1, <3>2, <3>4, <4>2, <4>4 DEF Lent
    <3> QED BY <3>3, <3>4
  <2> QED BY <2>1 DEF Lent
<1> QED BY <1>1, <1>10, <1>14, <1>15, <1>17, <1>18 DEF MutexInv

\* A task changes its own priority: what it was lent stays below that of the
\* tasks that wait for it.
LEMMA PriorityKeepsMutex ==
  ASSUME KernelInv, MutexInv, Lent, NEW t \in Tasks, Runs(t), pc[t] = "app", NEW p \in Priorities,
         GivePriority(t, t, p)
  PROVE  MutexInv' /\ Lent'
<1>1. /\ UNCHANGED <<listVars, delayVars, eventVars, runVars, OSSchedLock, ret, mutexID, MutexFreeID, inside>>
      /\ MutexTbl' = IF Holds(t) THEN [MutexTbl EXCEPT ![mutexID[t]].originalPrio = p] ELSE MutexTbl
  BY DEF GivePriority
<1>2. p \in 0 .. CFG_LOWEST_PRIO /\ p \in Nat BY CallValues
<1>3. MutexTypes /\ AppInv /\ PoolTypes BY ListsNow DEF MutexInv
<1>4. /\ After(t) = "app" /\ mutexID[t] = inside[t]
      /\ \A n \in Mutexes : (Owns(t, n) <=> inside[t] = n) /\ ~Entering(t, n) /\ ~WaitsFor(t, n)
  BY AfterRuns, RunnerAwake, OutsideOwnsNone
<1>5. PICK label \in {"app", "resched"} : Goto(t, label) BY OwnPriority
<1>6. AppInv' /\ Moves(t, label)
  <2>1. label \in Goals BY DEF Goals, Plain
  <2> QED BY <1>1, <1>3, <1>5, <2>1, GotoApp
<1>7. Others(t) /\ After(t)' = label
  <2>1. \A u \in Tasks \ {t} : arg'[u] = arg[u] BY OwnPriority, ControlNow DEF WithArg
  <2> QED BY <1>6, <2>1, CallsElsewhere DEF Moves
<1>8. /\ MutexTbl' \in [Mutexes -> [mutexFlag : {"FREE", "OCCUPY"}, taskID : Tasks \cup {NULL},
                                    hipriTaskID : Tasks \cup {NULL}, originalPrio : Nat,
                                    waittingList : Seq(Tasks), staleHead : BOOLEAN]]
      /\ \A n \in Mutexes : /\ MutexTbl'[n].mutexFlag = MutexTbl[n].mutexFlag
                            /\ MutexTbl'[n].taskID = MutexTbl[n].taskID
                            /\ MutexTbl'[n].waittingList = MutexTbl[n].waittingList
                            /\ \/ MutexTbl'[n].originalPrio = MutexTbl[n].originalPrio
                               \/ MutexTbl'[n].originalPrio = p
  <2>1. CASE Holds(t)
    <3>1. PICK m \in Mutexes : m = mutexID[t] BY <1>3, <2>1 DEF Holds, MutexTypes
    <3>2. PICK block : block = [MutexTbl[m] EXCEPT !.originalPrio = p] OBVIOUS
    <3>3. MutexTbl' = [MutexTbl EXCEPT ![m] = block] BY <1>1, <1>3, <2>1, <3>1, <3>2 DEF MutexTypes
    <3>4. MutexTbl[m] \in [mutexFlag : {"FREE", "OCCUPY"}, taskID : Tasks \cup {NULL},
                           hipriTaskID : Tasks \cup {NULL}, originalPrio : Nat, waittingList : Seq(Tasks), staleHead : BOOLEAN]
      BY <1>3 DEF MutexTypes
    <3>5. /\ block \in [mutexFlag : {"FREE", "OCCUPY"}, taskID : Tasks \cup {NULL},
                        hipriTaskID : Tasks \cup {NULL}, originalPrio : Nat, waittingList : Seq(Tasks), staleHead : BOOLEAN]
          /\ block.mutexFlag = MutexTbl[m].mutexFlag /\ block.taskID = MutexTbl[m].taskID
          /\ block.waittingList = MutexTbl[m].waittingList /\ block.originalPrio = p
      BY <1>2, <3>2, <3>4
    <3> QED BY <1>3, <3>3, <3>5 DEF MutexTypes
  <2>2. CASE ~Holds(t) BY <1>1, <1>3, <2>2 DEF MutexTypes
  <2> QED BY <2>1, <2>2
<1>9. MutexTypes' BY <1>1, <1>3, <1>8 DEF MutexTypes
<1>10. \A u \in Tasks, n \in Mutexes : (Owns(u, n)' <=> Owns(u, n)) /\ (WaitsFor(u, n)' <=> WaitsFor(u, n))
  BY <1>8 DEF Owns, WaitsFor
<1>11. OwnerInv'
  <2>1. ASSUME NEW n \in Mutexes, NEW o \in Tasks, inside[o] = n \/ Entering(o, n), Created(n)
        PROVE  (inside'[o] = n \/ Entering(o, n)') /\ Created(n)'
    <3>1. inside'[o] = n \/ Entering(o, n)' BY <1>1, <1>4, <1>7, <2>1 DEF Others
    <3>2. Created(n)' BY <1>1, <1>7, <2>1 DEF Created, Others
    <3> QED BY <3>1, <3>2
  <2> QED BY <1>2, <1>8, <2>1 DEF MutexInv, OwnerInv
<1>12. EntryInv'
  <2>1. \A u \in Tasks : inside'[u] # NULL =>
          Owns(u, inside[u])' /\ mutexID'[u] = inside'[u] /\ After(u)' \notin {"off", "delete", "entered"}
    <3>1. ASSUME NEW u \in Tasks, inside'[u] # NULL
          PROVE  Owns(u, inside[u])' /\ mutexID'[u] = inside'[u] /\ After(u)' \notin {"off", "delete", "entered"}
      <4>1. inside[u] \in Mutexes /\ inside'[u] = inside[u] BY <1>1, <1>3, <3>1 DEF MutexTypes
      <4>2. Owns(u, inside[u]) /\ mutexID[u] = inside[u] /\ After(u) \notin {"off", "delete", "entered"}
        BY <1>1, <3>1 DEF MutexInv, EntryInv
      <4>3. Owns(u, inside[u])' BY <1>1, <1>8, <4>1, <4>2 DEF Owns
      <4> QED BY <1>1, <1>7, <4>2, <4>3 DEF Others
    <3> QED BY <3>1
  <2>2. \A u \in Tasks : After(u)' = "entered" =>
          /\ arg'[u].on \in Mutexes /\ mutexID'[u] = arg'[u].on
          /\ Owns(u, arg[u].on)' \/ WaitsFor(u, arg[u].on)'
    BY <1>1, <1>7, <1>10 DEF MutexInv, EntryInv, Others
  <2>3. \A u \in Tasks : mutexID'[u] # NULL => inside'[u] = mutexID'[u] \/ Entering(u, mutexID[u])'
    BY <1>1, <1>4, <1>7 DEF MutexInv, EntryInv, Entering, Others
  <2>4. \A u \in Tasks : After(u)' = "initmutex" => arg'[u].on \in Mutexes
    BY <1>7 DEF MutexInv, EntryInv, Others
  <2> QED BY <2>1, <2>2, <2>3, <2>4 DEF EntryInv
<1>13. QueueInv'
  <2>1. \A u \in Tasks : Asleep(u)' <=> Asleep(u) BY <1>1 DEF Asleep, listVars, delayVars, eventVars
  <2> QED BY <1>4, <1>7, <1>8, <1>10, <2>1 DEF MutexInv, QueueInv, Others
<1>14. Lent'
  <2>1. ASSUME NEW n \in Mutexes, NEW u \in Tasks, WaitsFor(u, n)' PROVE prio'[MutexTbl'[n].taskID] <= prio'[u]
    <3>1. WaitsFor(u, n) /\ u # t BY <1>4, <1>10, <2>1
    <3>2. PICK v \in Tasks : MutexTbl[n].taskID = v /\ Owns(v, n)
      <4>1. MutexTbl[n].waittingList # <<>> BY <3>1, EmptyList DEF WaitsFor
      <4> QED BY <4>1 DEF MutexInv, OwnerInv, Owns
    <3>3. /\ prio[v] <= prio[u] /\ prio[v] \in Nat /\ prio[u] \in Nat
          /\ MutexTbl'[n].taskID = v
      BY <1>3, <1>8, <3>1, <3>2 DEF Lent, PoolTypes
    <3>4. CASE prio' = prio BY <3>3, <3>4
    <3>5. CASE prio' = [prio EXCEPT ![t] = p] /\ ~(Holds(t) /\ prio[t] < p)
      <4>1. prio'[u] = prio[u] BY <1>3, <3>1, <3>5 DEF PoolTypes
      <4>2. CASE v = t
        <5>1. mutexID[t] = n /\ MutexTbl[n].taskID = t BY <1>4, <3>2, <4>2
        <5>2. Holds(t) BY <5>1, MutexAssumption DEF Holds
        <5>3. ~(prio[t] < p) /\ prio'[t] = p BY <1>3, <3>5, <5>2 DEF PoolTypes
        <5> QED BY <1>2, <3>3, <4>1, <4>2, <5>3
      <4>3. CASE v # t
        <5>1. prio'[v] = prio[v] BY <1>3, <3>5, <4>3 DEF PoolTypes
        <5> QED BY <3>3, <4>1, <5>1
      <4> QED BY <4>2, <4>3
    <3> QED BY <3>4, <3>5, OwnPriority
  <2> QED BY <2>1 DEF Lent
<1> QED BY <1>6, <1>9, <1>11, <1>12, <1>13, <1>14 DEF MutexInv

---------------------------------------------------------------------------
(* The steps of the application *)

\* Leaving, of a task's own accord or because it exits.
LEMMA LeaveKeeps ==
  ASSUME KernelInv, MutexInv, Lent, NEW t \in Tasks, Runs(t), pc[t] # "entered", NEW m \in Mutexes, Owns(t, m),
         LeaveBody(m), NEW next \in {"app", "delete"}, LockedSection(t, next), UNCHANGED arg \/ WithArg(t, t, 0),
         next = "delete" => arg'[t].on = t
  PROVE  KernelInv' /\ HandlersSound' /\ MutexInv' /\ Lent'
BY LeaveKeepsKernel, FreeKeepsMutex, HandOverKeepsMutex

LEMMA MutexCallKeeps ==
  ASSUME KernelInv, MutexInv, Lent, Disciplined, NEW t \in Tasks, MutexCall(t)
  PROVE  KernelInv' /\ HandlersSound' /\ MutexInv' /\ Lent'
<1>1. CASE CoCreateMutex(t) BY <1>1, CreateKeepsMutex
<1>2. ASSUME NEW m \in Mutexes, CoEnterMutexSection(t, m)
      PROVE  KernelInv' /\ HandlersSound' /\ MutexInv' /\ Lent'
  BY <1>2, EnterKeepsKernel, OccupyKeepsMutex, QueueKeepsMutex
<1>3. ASSUME NEW m \in Mutexes, CoLeaveMutexSection(t, m)
      PROVE  KernelInv' /\ HandlersSound' /\ MutexInv' /\ Lent'
  <2>1. Runs(t) /\ pc[t] = "app" BY <1>3, RunsCalling DEF CoLeaveMutexSection
  <2>2. LeaveBody(m) /\ LockedSection(t, "app") /\ UNCHANGED arg /\ inside[t] = m
    BY <1>3 DEF CoLeaveMutexSection
  <2>3. Owns(t, m) BY <2>1, <2>2, OutsideOwnsNone
  <2> QED BY <2>1, <2>2, <2>3, LeaveKeeps
<1> QED BY <1>1, <1>2, <1>3 DEF MutexCall

LEMMA SetPriorityKeepsMutex ==
  ASSUME KernelInv, MutexInv, Lent, Disciplined, NEW t \in Tasks, NEW u \in Ids, NEW p \in Priorities,
         SetMutexPriority(t, u, p)
  PROVE  KernelInv' /\ HandlersSound' /\ MutexInv' /\ Lent'
<1>1. u = t /\ Runs(t) /\ pc[t] = "app" BY ManagesItself DEF SetMutexPriority, Manage, MutexInv
<1>2. GivePriority(t, t, p) BY <1>1 DEF SetMutexPriority
<1> QED BY <1>1, <1>2, PriorityKeepsKernel, PriorityKeepsMutex

\* Who deletes a task deletes itself, and is not one that waits for a mutex.
LEMMA DeletesItself ==
  ASSUME KernelInv, MutexInv
  PROVE  Deletable
<1>1. ASSUME NEW t \in Tasks, At(t, "delete") PROVE state[arg[t].on] # "WAITING"
  <2>1. Runs(t) BY <1>1, RunsInCall DEF UnlockLabels
  <2>2. OSSchedLock = 0 /\ state[t] = "RUNNING" BY <2>1, RunsUnlocked, TaskFree DEF MutexInv
  <2>3. arg[t].on = t BY <1>1, <2>2, ManagerAt DEF Managing
  <2> QED BY <2>2, <2>3
<1> QED BY <1>1 DEF Deletable

\* A step that is about no mutex, as a step of the kernel alone.
LEMMA KernelStepKeeps ==
  ASSUME KernelInv, HandlersSound, MutexInv, Lent, Disciplined, [Next]_vars, Spares, AppInv', UNCHANGED prio
  PROVE  KernelInv' /\ HandlersSound' /\ MutexInv' /\ Lent'
BY DeletesItself, NextKeeps, HandlersStaySound, SparesKeeps, LentStays

\* A task that exits leaves its mutex first.
LEMMA DelTaskKeepsMutex ==
  ASSUME KernelInv, HandlersSound, MutexInv, Lent, Disciplined, NEW t \in Tasks, NEW u \in Ids, DelMutexTask(t, u)
  PROVE  KernelInv' /\ HandlersSound' /\ MutexInv' /\ Lent'
<1>1. u = t /\ Runs(t) /\ pc[t] = "app" BY ManagesItself DEF DelMutexTask, Manage, MutexInv
<1>2. mutexID[t] = inside[t] /\ \A m \in Mutexes : Owns(t, m) <=> inside[t] = m BY <1>1, OutsideOwnsNone
<1>3. inside[t] \in Mutexes \cup {NULL} BY DEF MutexInv, MutexTypes
<1>4. CASE Holds(t)
  <2>1. PICK m \in Mutexes : m = mutexID[t] /\ Owns(t, m) BY <1>2, <1>3, <1>4 DEF Holds
  <2>2. LeaveBody(m) /\ WithArg(t, t, 0) /\ LockedSection(t, "delete") BY <1>1, <1>4, <2>1 DEF DelMutexTask
  <2>3. arg'[t].on = t BY <2>2, ControlNow DEF WithArg
  <2> QED BY <1>1, <2>1, <2>2, <2>3, LeaveKeeps
<1>5. CASE ~Holds(t)
  <2>1. inside[t] = NULL BY <1>2, <1>3, <1>5 DEF Holds, Owns
  <2>2. CoDelTask(t, t) /\ UNCHANGED mutexVars BY <1>1, <1>5 DEF DelMutexTask, CoDelTask
  <2>3. Spares /\ AppInv' /\ UNCHANGED prio BY <2>1, <2>2, CallSpares
  <2>4. t \in Ids /\ CoDelTask(t, t) BY <1>1, <2>2
  <2>5. Next BY <2>4 DEF Next, Call, TaskCall
  <2> QED BY <2>3, <2>5, KernelStepKeeps
<1> QED BY <1>4, <1>5

\* The steps of a call that is under way.
LEMMA StepKeepsMutex ==
  ASSUME KernelInv, HandlersSound, MutexInv, Lent, Disciplined, NEW t \in Tasks,
         \/ MutexStep(t)
         \/ (TaskStep(t) \/ BlockBody(t) \/ Woken(t) \/ PostSem(t)) /\ UNCHANGED mutexVars
  PROVE  KernelInv' /\ HandlersSound' /\ MutexInv' /\ Lent'
<1>1. ASSUME NEW label, At(t, label), label \notin UnlockLabels \cup {"clear", "app"}
      PROVE  label \in Plain \cup MutexLabels \cup {"delete"} /\ Runs(t)
    BY <1>1, RunsInCall, RunnerAwake
<1>2. CASE MutexStep(t)
  <2>1. CASE InitMutex(t) BY <2>1, InitKeepsMutex
  <2>2. CASE Entered(t) BY <2>2, EnteredKeepsMutex
  <2>3. CASE DeleteWaitingBody(t)
    <3>1. Runs(t) /\ At(t, "delete") BY <1>1, <2>3 DEF DeleteWaitingBody, UnlockLabels
    <3>2. OSSchedLock = 0 /\ state[t] = "RUNNING" BY <3>1, RunsUnlocked, TaskFree DEF MutexInv
    <3>3. arg[t].on = t BY <3>1, <3>2, ManagerAt DEF Managing
    <3> QED BY <2>3, <3>2, <3>3 DEF DeleteWaitingBody
  <2>4. CASE HipriBody(t) \/ ReownBody(t) \/ ReeventBody(t)
    BY <1>1, <2>4 DEF HipriBody, ReownBody, ReeventBody, Plain, MutexLabels, UnlockLabels
  <2> QED BY <1>2, <2>1, <2>2, <2>3, <2>4 DEF MutexStep
<1>3. CASE (TaskStep(t) \/ BlockBody(t) \/ Woken(t) \/ PostSem(t)) /\ UNCHANGED mutexVars
  <2>1. ~(ResetBody(t) \/ InitTask(t) \/ SuspendBody(t) \/ AwakeBody(t) \/ ReorderBody(t) \/ UnwaitBody(t)
          \/ RewaitBody(t))
    BY <1>1 DEF ResetBody, InitTask, SuspendBody, AwakeBody, ReorderBody, UnwaitBody, RewaitBody, Plain,
                MutexLabels, UnlockLabels
  <2>2. DeleteBody(t) \/ RescheduleBody(t) \/ BlockBody(t) \/ Woken(t) \/ PostSem(t)
    BY <1>3, <2>1 DEF TaskStep
  <2>3. Spares /\ AppInv' /\ UNCHANGED prio BY <1>3, <2>2, StepSpares
  <2>4. Next BY <1>3 DEF Next, Step, EventStep, SemStep
  <2> QED BY <2>3, <2>4, KernelStepKeeps
<1> QED BY <1>2, <1>3

\* The unlock: with no flag waited for, time-outs find no node.
LEMMA UnlockKeepsMutex ==
  ASSUME KernelInv, HandlersSound, MutexInv, Lent, FlagInit, Disciplined, app.uses = "mutex",
         NEW c \in Contexts, SUnlockStep(c)
  PROVE  KernelInv' /\ HandlersSound' /\ MutexInv' /\ Lent' /\ FlagInit'
<1>1. ~RespondQueueCell(c) \/ ~UseQueue BY DEF UseQueue
<1>2. ~RespondFlagCell(c) \/ ~UseFlag BY DEF UseFlag
<1>3. UnlockStep(c) /\ UNCHANGED mutexVars /\ ~RespondCell(c)
  <2>1. UNCHANGED mutexVars BY <1>1, <1>2 DEF SUnlockStep, UseNone, NoMutex
  <2>2. \/ DisposeHead(c)
        \/ BeginUnlock(c) \/ UnlinkHead(c) \/ EndDispose(c) \/ ClearTimeReq(c)
        \/ EndCells(c) \/ ClearIsrReq(c) \/ UnlockSchedule(c) \/ ClearLock(c)
    BY <1>1, <1>2 DEF SUnlockStep
  <2>3. ~RespondCell(c)
    BY <2>2 DEF RespondCell, At, DisposeHead, BeginUnlock, UnlinkHead, EndDispose, ClearTimeReq, EndCells, ClearIsrReq,
                UnlockSchedule, ClearLock
  <2> QED BY <2>1, <2>2, <2>3 DEF UnlockStep
<1>4. Spares /\ AppInv' /\ UNCHANGED prio BY <1>3, UnlockSpares
<1>5. Next BY <1>3 DEF Next, Step, Contexts
<1>6. FlagInit'
  <2>1. CASE UNCHANGED flagVars BY <2>1 DEF FlagInit, flagVars
  <2>2. CASE DisposeHead(c) /\ DisposeNode(c)
    <3>1. Head(DlyList) \in Tasks
      BY <2>2, ListsNow, HeadTailType DEF DisposeHead, Expired, DelayTypes
    <3>2. pnode[Head(DlyList)] = "none" BY <3>1 DEF FlagInit
    <3>3. UNCHANGED flagVars BY <2>2, <3>2 DEF DisposeNode, flagVars
    <3> QED BY <3>3 DEF FlagInit, flagVars
  <2> QED BY <1>1, <1>2, <2>1, <2>2 DEF SUnlockStep, UseNone, NoFlag
<1> QED BY <1>4, <1>5, <1>6, KernelStepKeeps

---------------------------------------------------------------------------
(* The theorems *)

\* Nobody is inside a mutex or on the way in when the kernel starts.
LEMMA StartsWithout ==
  ASSUME Init, MutexInit
  PROVE  MutexInv /\ Lent
<1>1. /\ Idle \in Tasks /\ SysTick \notin Tasks /\ Isr \notin Tasks /\ NULL \notin Mutexes /\ BootOrder \in Seq(Tasks)
  BY ContextAssumption, BootAssumption, MutexAssumption
<1>2. \A t \in Tasks : mutexID[t] = NULL /\ inside[t] = NULL BY DEF MutexInit
<1>3. \A m \in Mutexes : MutexTbl[m] = [mutexFlag |-> "FREE", taskID |-> Idle, hipriTaskID |-> Idle,
                                        originalPrio |-> 0, waittingList |-> <<>>, staleHead |-> FALSE]
  BY DEF MutexInit
<1>4. MutexTypes
  <2>1. /\ mutexID \in [Tasks -> Mutexes \cup {NULL}] /\ inside \in [Tasks -> Mutexes \cup {NULL}]
        /\ MutexFreeID \in 0 .. CFG_MAX_MUTEX
    BY MutexAssumption DEF MutexInit
  <2>2. [mutexFlag |-> "FREE", taskID |-> Idle, hipriTaskID |-> Idle, originalPrio |-> 0, waittingList |-> <<>>,
         staleHead |-> FALSE]
          \in [mutexFlag : {"FREE", "OCCUPY"}, taskID : Tasks \cup {NULL}, hipriTaskID : Tasks \cup {NULL},
               originalPrio : Nat, waittingList : Seq(Tasks), staleHead : BOOLEAN]
    BY <1>1, EmptySeq
  <2> QED BY <2>1, <2>2 DEF MutexTypes, MutexInit
<1>5. /\ \A t \in Tasks : pc[t] \in {"respond", "app", "off"} /\ ret[t] = "app"
      /\ pc[Idle] = "respond" /\ TCBRunning = Idle
  BY <1>1 DEF Init, KernelInit, Contexts
<1>6. \A t \in Tasks : After(t) \in {"app", "off"} BY <1>5 DEF After, UnlockLabels
<1>7. AppInv
  <2>1. pc[Isr] = "off"
    <3>1. ~Contains(BootOrder, Isr) BY <1>1, ContainsMeans, LenProperties
    <3> QED BY <1>1, <3>1 DEF Init, KernelInit, Contexts, NeverUsed
  <2>2. pc[TCBRunning] \in UnlockLabels BY <1>5 DEF UnlockLabels
  <2> QED BY <1>6, <2>1, <2>2 DEF AppInv, Plain
<1>8. \A t \in Tasks, m \in Mutexes : ~WaitsFor(t, m) BY <1>3, EmptyList DEF WaitsFor
<1>9. OwnerInv BY <1>3 DEF OwnerInv
<1>10. EntryInv BY <1>2, <1>6 DEF EntryInv
<1>11. QueueInv
  <2>1. \A m \in Mutexes : IsInjective(MutexTbl[m].waittingList) BY <1>3 DEF IsInjective
  <2> QED BY <1>8, <2>1 DEF QueueInv
<1> QED BY <1>4, <1>7, <1>8, <1>9, <1>10, <1>11 DEF MutexInv, Lent

LEMMA SyncInit ==
  ASSUME SInit, MutexRules
  PROVE  SyncInv
<1>1. KernelInv /\ HandlersSound
  BY InitExact DEF SInit, MutexRules, ExactInv
<1> QED BY <1>1, StartsWithout DEF SInit, SyncInv

\* An application that uses mutexes.
LEMMA MutexAppKeeps ==
  ASSUME SyncInv, MutexRules, app.uses = "mutex", SNext
  PROVE  KernelInv' /\ HandlersSound' /\ MutexInv' /\ Lent' /\ FlagInit'
<1>1. KernelInv /\ HandlersSound /\ MutexInv /\ Lent /\ FlagInit /\ Disciplined /\ app \in Apps
  BY DEF SyncInv, MutexRules
<1>2. ~UseQueue /\ ~UseFlag BY DEF UseQueue, UseFlag
<1>3. ASSUME UNCHANGED flagVars PROVE FlagInit' BY <1>1, <1>3 DEF FlagInit, flagVars
<1>4. ASSUME NEW t \in Tasks, SCall(t) PROVE KernelInv' /\ HandlersSound' /\ MutexInv' /\ Lent' /\ FlagInit'
  <2>1. \/ (MutexCall(t) \/ PriorityCalls(t) \/ DelTaskCalls(t)) /\ UseMutex
        \/ (SemCalls(t) \/ DelayCalls(t)) /\ UseNone
    BY <1>2, <1>4 DEF SCall, PatientCalls
  <2>2. FlagInit' BY <1>3, <2>1 DEF UseMutex, UseNone, NoFlag
  <2>3. CASE MutexCall(t) BY <1>1, <2>2, <2>3, MutexCallKeeps
  <2>4. CASE PriorityCalls(t) BY <1>1, <2>2, <2>4, SetPriorityKeepsMutex DEF PriorityCalls
  <2>5. CASE DelTaskCalls(t) BY <1>1, <2>2, <2>5, DelTaskKeepsMutex DEF DelTaskCalls
  <2>6. CASE SemCalls(t) /\ UseNone
    <3>1. "semaphore" \in app.also BY <2>6 DEF SemCalls, Also
    <3>2. 0 \in Timeouts BY <1>1, <3>1 DEF MutexRules
    <3>3. PICK e \in Events : CoPostSem(t, e) \/ CoPendSem(t, e, 0) BY <2>6 DEF SemCalls
    <3>4. SemCall(t) BY <3>2, <3>3 DEF SemCall
    <3>5. Next BY <3>4 DEF Next, Call
    <3>6. Spares /\ AppInv' /\ UNCHANGED prio BY <1>1, <2>6, <3>3, CallSpares DEF UseNone, NoMutex
    <3> QED BY <1>1, <2>2, <3>5, <3>6, KernelStepKeeps
  <2>7. CASE DelayCalls(t) /\ UseNone
    <3>1. PICK ticks \in Delays : CoTickDelay(t, ticks) BY <2>7 DEF DelayCalls
    <3>2. TaskCall(t) BY <3>1 DEF TaskCall
    <3>3. Next BY <3>2 DEF Next, Call
    <3>4. Spares /\ AppInv' /\ UNCHANGED prio BY <1>1, <2>7, <3>1, CallSpares DEF UseNone, NoMutex
    <3> QED BY <1>1, <2>2, <3>3, <3>4, KernelStepKeeps
  <2> QED BY <2>1, <2>3, <2>4, <2>5, <2>6, <2>7
<1>5. ASSUME NEW t \in Tasks, SStep(t) PROVE KernelInv' /\ HandlersSound' /\ MutexInv' /\ Lent' /\ FlagInit'
  <2>1. \/ MutexStep(t) /\ UseMutex
        \/ (TaskStep(t) \/ BlockBody(t) \/ Woken(t) \/ PostSem(t)) /\ UseNone
    BY <1>2, <1>5 DEF SStep
  <2>2. FlagInit' BY <1>3, <2>1 DEF UseMutex, UseNone, NoFlag
  <2> QED BY <1>1, <2>1, <2>2, StepKeepsMutex DEF UseNone, NoMutex
<1>6. ASSUME NEW c \in Contexts, SUnlockStep(c) PROVE KernelInv' /\ HandlersSound' /\ MutexInv' /\ Lent' /\ FlagInit'
  BY <1>1, <1>6, UnlockKeepsMutex
<1>7. CASE (TickEnter \/ IsrExit \/ PendSV_Handler) /\ UseNone
  <2>1. Spares /\ AppInv' /\ UNCHANGED prio BY <1>1, <1>7, ExceptionSpares DEF UseNone, NoMutex
  <2>2. FlagInit' BY <1>3, <1>7 DEF UseNone, NoFlag
  <2>3. Next BY <1>7 DEF Next
  <2> QED BY <1>1, <2>1, <2>2, <2>3, KernelStepKeeps
<1>8. ~SInterrupt BY <1>2 DEF SInterrupt
<1> QED BY <1>4, <1>5, <1>6, <1>7, <1>8 DEF SNext, Contexts

\* An application that uses queues or flags.
LEMMA OtherAppKeeps ==
  ASSUME SyncInv, app.uses # "mutex", SNext
  PROVE  MutexInit'
<1>1. ~UseMutex BY DEF UseMutex
<1>2. UNCHANGED mutexVars
  <2>1. \A t \in Tasks : SCall(t) => UNCHANGED mutexVars
    BY <1>1 DEF SCall, PatientCalls, UseNone, UseQueue, UseFlag, NoMutex
  <2>2. \A t \in Tasks : SStep(t) => UNCHANGED mutexVars
    BY <1>1 DEF SStep, UseNone, UseQueue, UseFlag, NoMutex
  <2>3. \A c : SUnlockStep(c) => UNCHANGED mutexVars
    BY DEF SUnlockStep, UseNone, UseQueue, UseFlag, NoMutex
  <2>4. SInterrupt => UNCHANGED mutexVars BY DEF SInterrupt, UseQueue, UseFlag, NoMutex
  <2> QED BY <2>1, <2>2, <2>3, <2>4 DEF SNext, UseNone, NoMutex
<1> QED BY <1>2 DEF SyncInv, MutexInit, mutexVars

LEMMA SyncNext ==
  ASSUME SyncInv, MutexRules, [SNext]_svars
  PROVE  SyncInv'
<1>1. UNCHANGED app BY DEF SNext, svars
<1>2. CASE SNext BY <1>1, <1>2, MutexAppKeeps, OtherAppKeeps DEF SyncInv
<1>3. CASE UNCHANGED svars
  <2>1. UNCHANGED <<vars, mutexVars, flagVars>> BY <1>3 DEF svars
  <2>2. CASE app.uses = "mutex"
    <3>1. KernelInv /\ HandlersSound /\ MutexInv /\ Lent /\ FlagInit /\ Disciplined
      BY <2>2 DEF SyncInv, MutexRules
    <3>2. UNCHANGED <<pc, ret, arg, OSSchedLock, TCBRunning, state, eventID, DlyList, prio>>
      BY <2>1 DEF vars, listVars, delayVars, eventVars, poolVars, runVars, callVars
    <3>3. \A t \in Tasks : (After(t)' = After(t)) /\ (Asleep(t)' <=> Asleep(t)) BY <3>2 DEF After, Asleep
    <3>4. HandlerLocks' <=> HandlerLocks BY <3>2 DEF HandlerLocks, Locking
    <3>5. AppInv' BY <3>1, <3>2, <3>3, <3>4 DEF MutexInv, AppInv
    <3>6. Spares
      <4>1. \A t \in Tasks : inside[t] # NULL => After(t) \notin {"off", "delete"} BY <3>1 DEF MutexInv, EntryInv
      <4> QED BY <2>1, <3>2, <3>3, <4>1 DEF Spares
    <3>7. FlagInit' BY <2>1, <3>1 DEF FlagInit, flagVars
    <3> QED BY <1>1, <2>1, <2>2, <3>1, <3>2, <3>5, <3>6, <3>7, KernelStepKeeps DEF SyncInv
  <2>3. CASE app.uses # "mutex" BY <1>1, <2>1, <2>3 DEF SyncInv, MutexInit, mutexVars
  <2> QED BY <2>2, <2>3
<1> QED BY <1>2, <1>3

LEMMA NobodyInside ==
  ASSUME MutexInit
  PROVE  OneInside /\ Inherits
BY DEF MutexInit, OneInside, Inherits

\* What the invariant says of the tasks inside.
LEMMA InsideIsOwner ==
  ASSUME SyncInv
  PROVE  OneInside
<1>1. CASE MutexInv BY <1>1 DEF MutexInv, EntryInv, Owns, OneInside
<1> QED BY <1>1, NobodyInside DEF SyncInv

LEMMA OwnerIsLent ==
  ASSUME SyncInv
  PROVE  Inherits
<1>1. CASE MutexInv /\ Lent
  <2>1. ASSUME NEW m \in Mutexes, NEW i \in DOMAIN MutexTbl[m].waittingList
        PROVE  prio[MutexTbl[m].taskID] <= prio[MutexTbl[m].waittingList[i]]
    <3>1. MutexTbl[m].waittingList \in Seq(Tasks) BY <1>1 DEF MutexInv, MutexTypes
    <3>2. PICK t \in Tasks : t = MutexTbl[m].waittingList[i] BY <3>1
    <3>3. WaitsFor(t, m) BY <3>1, <3>2, ContainsMeans DEF WaitsFor
    <3> QED BY <1>1, <3>2, <3>3 DEF Lent
  <2> QED BY <2>1 DEF Inherits
<1> QED BY <1>1, NobodyInside DEF SyncInv

LEMMA MutexListsExact ==
  ASSUME SyncInv, app.uses = "mutex"
  PROVE  SyncListsExact
<1>1. KernelInv /\ HandlersSound /\ MutexInv /\ FlagInit BY DEF SyncInv
<1>2. ListsExact BY <1>1, KernelIsExact
<1>3. MutexListExact
  <2>1. ASSUME NEW m \in Mutexes, NEW t \in Tasks
        PROVE  Contains(MutexTbl[m].waittingList, t) <=>
                 After(t) = "entered" /\ arg[t].on = m /\ MutexTbl[m].taskID # t
    BY <1>1 DEF MutexInv, EntryInv, QueueInv, WaitsFor, Entering, Owns
  <2>2. ASSUME NEW m \in Mutexes, NEW i \in DOMAIN MutexTbl[m].waittingList
        PROVE  state[MutexTbl[m].waittingList[i]] = "WAITING"
    <3>1. MutexTbl[m].waittingList \in Seq(Tasks) BY <1>1 DEF MutexInv, MutexTypes
    <3>2. PICK t \in Tasks : t = MutexTbl[m].waittingList[i] BY <3>1
    <3>3. WaitsFor(t, m) BY <3>1, <3>2, ContainsMeans DEF WaitsFor
    <3> QED BY <1>1, <3>2, <3>3 DEF MutexInv, QueueInv, Asleep
  <2>3. \A m \in Mutexes : /\ IsInjective(MutexTbl[m].waittingList)
                           /\ MutexTbl[m].mutexFlag = "FREE" => MutexTbl[m].waittingList = <<>>
    BY <1>1 DEF MutexInv, QueueInv, OwnerInv
  <2> QED BY <2>1, <2>2, <2>3 DEF MutexListExact
<1>4. FlagListExact
  <2>1. flagList = <<>> /\ \A t \in Tasks : pnode[t] = "none" BY <1>1 DEF FlagInit
  <2>2. IsInjective(flagList) /\ \A t \in Tasks : ~Contains(flagList, t) BY <2>1, EmptyList DEF IsInjective
  <2> QED BY <2>1, <2>2 DEF FlagListExact
<1> QED BY <1>2, <1>3, <1>4 DEF SyncListsExact

LEMMA SyncHolds == MutexRules => (SSpec => []SyncInv)
<1> SUFFICES ASSUME MutexRules PROVE SSpec => []SyncInv
  OBVIOUS
<1>1. SInit => SyncInv BY SyncInit
<1>2. SyncInv /\ [SNext]_svars => SyncInv' BY SyncNext
<1> QED BY <1>1, <1>2, PTL DEF SSpec

\* No two tasks are inside a mutex: a task is let in as the owner, the mutex is
\* handed to one task of its list at a time, and neither a task that sleeps,
\* waits for a semaphore, changes its priority or exits in there, nor a tick or
\* an unlock in between, lets another in (CoEnterMutexSection,
\* CoLeaveMutexSection, CoDelTask, CoSetPriority).
THEOREM MutualExclusion == MutexRules => (SSpec => []OneInside)
<1>1. SyncInv => OneInside BY InsideIsOwner
<1> QED BY <1>1, SyncHolds, PTL

\* While tasks wait for a mutex its owner runs at a priority not below any of
\* theirs, whoever it was handed on to and whatever priorities the tasks gave
\* themselves ("Promote prio of owner" and the hand-over in mutex.c,
\* CoSetPriority in task.c).
THEOREM PriorityInherited == MutexRules => (SSpec => []Inherits)
<1>1. SyncInv => Inherits BY OwnerIsLent
<1> QED BY <1>1, SyncHolds, PTL

\* With mutexes the ready, delay and event lists stay exact although a task that
\* enters or leaves a mutex moves another one in them, and a mutex's list holds
\* each task that waits for it once (CoEnterMutexSection, CoLeaveMutexSection).
THEOREM MutexListsStayExact == MutexRules => (SSpec => [](app.uses = "mutex" => SyncListsExact))
<1>1. SyncInv => (app.uses = "mutex" => SyncListsExact) BY MutexListsExact
<1> QED BY <1>1, SyncHolds, PTL
=============================================================================
