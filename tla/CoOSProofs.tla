----------------------------- MODULE CoOSProofs -----------------------------
(***************************************************************************)
(* TLAPS proofs about CoOS for any number of tasks and events, any         *)
(* application and any configuration.  First the scheduler lock: a locked  *)
(* section has one writer, and a context switch never takes the CPU from   *)
(* it.  Then what the list operations do to the items of a list and to     *)
(* their order.  Then the types: the lists hold TCBs and ECBs, counters    *)
(* stay in their width, a call reaches each of its steps with the argument *)
(* the step needs.                                                         *)
(***************************************************************************)
EXTENDS CoOS, TLAPS, WellFoundedInduction, SequenceTheorems

---------------------------------------------------------------------------
(* The words of the counters *)

LEMMA Remainder ==
  ASSUME NEW m \in Int, m > 0, NEW k \in Int
  PROVE  k % m \in Int /\ 0 <= k % m /\ k % m < m
OBVIOUS

LEMMA Words ==
  /\ \A n \in U16 : n \in Nat /\ n \in Int /\ 0 <= n /\ n <= 65535
  /\ \A n \in Int : 0 <= n /\ n <= 65535 => n \in U16
<1>1. MaxU16 = 65535
  BY DEF MaxU16
<1>2. MaxU16 \in Int
  BY DEF MaxU16
<1>3. \A n \in U16 : n \in Nat /\ n <= MaxU16
  BY <1>2 DEF U16
<1>4. \A n \in Int : 0 <= n /\ n <= MaxU16 => n \in U16
  BY <1>2 DEF U16
<1>. QED
  BY <1>1, <1>3, <1>4

\* A 16 bit counter stays one when it is stepped.
LEMMA WordType ==
  ASSUME NEW n \in U16
  PROVE  n \in Int /\ (n + 1) % 65536 \in U16 /\ (n - 1) % 65536 \in U16
<1>1. n \in Int
  BY Words
<1>2. \A k \in Int : k % 65536 \in Int /\ 0 <= k % 65536 /\ k % 65536 < 65536
  BY Remainder
<1>3. n + 1 \in Int /\ n - 1 \in Int
  BY <1>1
<1>. QED
  BY <1>1, <1>2, <1>3, Words

---------------------------------------------------------------------------
\* While a task has the CPU no other context is inside a locked section.
LEMMA CpuAlone ==
  ASSUME LockInv, NEW t \in Tasks, OnCPU(t)
  PROVE  /\ ~PendSV /\ t = TCBRunning
         /\ pc[SysTick] = "off" /\ pc[Isr] = "off"
         /\ \A c \in Contexts \ {t} : ~Locking(c)
BY ContextAssumption DEF LockInv, OneWriter, OnCPU, Locking, LockLabels, UnlockLabels, Contexts

\* What a step of the task on the CPU may do to the control state, a pended
\* switch apart.
TaskStepShape(t) ==
  /\ OnCPU(t)
  /\ PendSV' = PendSV /\ TCBRunning' = TCBRunning
  /\ OSSchedLock' \in Nat
  /\ DOMAIN pc' = DOMAIN pc /\ DOMAIN ret' = DOMAIN ret
  /\ \A c \in Contexts \ {t} : pc'[c] = pc[c] \/ pc'[c] = "app"
  /\ pc'[t] \in LockLabels => OSSchedLock' > 0
  /\ pc'[t] \notin {"unlink", "tickunlink"}
  /\ ret'[SysTick] = ret[SysTick] /\ ret'[Isr] = ret[Isr]
  /\ \A u \in Tasks : ret'[u] \in ReturnLabels

\* Such a step keeps the invariant.
LEMMA ShapeKeepsLockInv ==
  ASSUME LockInv, NEW t \in Tasks, TaskStepShape(t)
  PROVE  LockInv'
<1>1. ~PendSV /\ t = TCBRunning /\ pc[SysTick] = "off" /\ pc[Isr] = "off"
  BY CpuAlone DEF TaskStepShape
<1>2. \A c \in Contexts \ {t} : ~Locking(c)
  BY CpuAlone DEF TaskStepShape
<1>3. \A c \in Contexts \ {t} : ~Locking(c)'
  BY <1>1, <1>2, ContextAssumption
  DEF TaskStepShape, Locking, LockLabels, UnlockLabels, Contexts
<1>4. Locking(t)' => OSSchedLock' > 0
  BY ContextAssumption DEF TaskStepShape, Locking
<1>5. OneWriter'
  BY <1>1, <1>3, <1>4 DEF OneWriter, TaskStepShape, Contexts
<1>. QED
  BY <1>1, <1>5 DEF LockInv, TaskStepShape

---------------------------------------------------------------------------
(* Task steps have the shape *)

\* A step that takes and leaves the lock around its body.
LEMMA LockedSectionShape ==
  ASSUME LockInv, NEW t \in Tasks, OnCPU(t), NEW next \in ReturnLabels,
         LockedSection(t, next), UNCHANGED runVars
  PROVE  TaskStepShape(t)
BY ContextAssumption
DEF LockInv, TaskStepShape, LockedSection, Goto, runVars, Contexts, LockLabels, UnlockLabels,
    ReturnLabels, MutexLabels, TaskArgLabels, EventArgLabels

\* A step outside the lock that goes on to another one, or a fault.
LEMMA GotoShape ==
  ASSUME LockInv, NEW t \in Tasks, OnCPU(t), NEW label, label \notin LockLabels,
         Goto(t, label), UNCHANGED <<runVars, OSSchedLock, ret>>
  PROVE  TaskStepShape(t)
BY ContextAssumption DEF LockInv, TaskStepShape, Goto, runVars, Contexts, LockLabels, UnlockLabels

LEMMA ContinueShape ==
  ASSUME LockInv, NEW t \in Tasks, OnCPU(t), NEW label, label \notin LockLabels,
         NEW on, NEW val, Continue(t, label, on, val)
  PROVE  TaskStepShape(t)
BY GotoShape DEF Continue

LEMMA FaultShape ==
  ASSUME LockInv, NEW t \in Tasks, OnCPU(t), Fault(t)
  PROVE  TaskStepShape(t)
BY GotoShape DEF Fault, LockLabels, UnlockLabels

USE DEF LockLabels, UnlockLabels, ReturnLabels, TaskArgLabels, EventArgLabels, MutexLabels

LEMMA TaskCallShape ==
  ASSUME LockInv, NEW t \in Tasks, TaskCall(t)
  PROVE  TaskStepShape(t)
<1>1. OnCPU(t)
  BY DEF TaskCall, CoSchedLock, CoSchedUnlock, CoTickDelay, CoResetTaskDelayTick, CreateTask,
         CoDelTask, CoSuspendTask, CoAwakeTask, CoSetPriority, Calls, At
<1>2. CASE CoSchedLock(t)
  BY <1>1, <1>2, ContextAssumption DEF CoSchedLock, Calls, At, LockInv, TaskStepShape, runVars, Contexts
<1>3. CASE CoSchedUnlock(t)
  BY <1>1, <1>3, ContextAssumption
  DEF CoSchedUnlock, Goto, Calls, At, LockInv, TaskStepShape, runVars, Contexts
<1>4. ASSUME NEW ticks \in Delays, CoTickDelay(t, ticks) PROVE TaskStepShape(t)
  BY <1>1, <1>4, LockedSectionShape DEF CoTickDelay
<1>5. ASSUME NEW u \in Ids, NEW ticks \in Delays, CoResetTaskDelayTick(t, u, ticks)
      PROVE  TaskStepShape(t)
  BY <1>1, <1>5, ContinueShape DEF CoResetTaskDelayTick
<1>6. ASSUME NEW p \in Priorities, NEW waiting \in BOOLEAN, CreateTask(t, p, waiting)
      PROVE  TaskStepShape(t)
  BY <1>1, <1>6, LockedSectionShape DEF CreateTask
<1>7. ASSUME NEW u \in Ids, CoDelTask(t, u) \/ CoSuspendTask(t, u) \/ CoAwakeTask(t, u)
      PROVE  TaskStepShape(t)
  BY <1>1, <1>7, ContinueShape DEF CoDelTask, CoSuspendTask, CoAwakeTask
<1>8. ASSUME NEW u \in Ids, NEW p \in Priorities, CoSetPriority(t, u, p) PROVE TaskStepShape(t)
  BY <1>1, <1>8, GotoShape DEF CoSetPriority
<1>. QED
  BY <1>2, <1>3, <1>4, <1>5, <1>6, <1>7, <1>8 DEF TaskCall

LEMMA TaskStepIsShape ==
  ASSUME LockInv, NEW t \in Tasks, TaskStep(t)
  PROVE  TaskStepShape(t)
<1>1. OnCPU(t)
  BY DEF TaskStep, ResetBody, InitTask, DeleteBody, SuspendBody, AwakeBody, ReorderBody,
         RescheduleBody, UnwaitBody, RewaitBody, At
<1>2. CASE InitTask(t)
  BY <1>1, <1>2, ContextAssumption DEF InitTask, LockInv, TaskStepShape, runVars, Contexts
<1>3. CASE ResetBody(t) \/ DeleteBody(t) \/ SuspendBody(t) \/ AwakeBody(t)
  BY <1>1, <1>3, LockedSectionShape, FaultShape DEF ResetBody, DeleteBody, SuspendBody, AwakeBody
<1>4. CASE ReorderBody(t) \/ RescheduleBody(t) \/ RewaitBody(t)
  BY <1>1, <1>4, LockedSectionShape, FaultShape DEF ReorderBody, RescheduleBody, RewaitBody
<1>5. CASE UnwaitBody(t)
  BY <1>1, <1>5, GotoShape, FaultShape DEF UnwaitBody
<1>. QED
  BY <1>2, <1>3, <1>4, <1>5 DEF TaskStep

LEMMA EventCallShape ==
  ASSUME LockInv, NEW t \in Tasks, EventCall(t)
  PROVE  TaskStepShape(t)
<1>1. OnCPU(t)
  BY DEF EventCall, CoCreateEvent, DeleteUnused, DeleteAnyway, Calls, At
<1>2. ASSUME NEW new \in NewEvents, CoCreateEvent(t, new) PROVE TaskStepShape(t)
  BY <1>1, <1>2, LockedSectionShape DEF CoCreateEvent
<1>3. ASSUME NEW e \in Events, NEW type \in {"SEM", "MBOX"}, DeleteUnused(t, e, type)
      PROVE  TaskStepShape(t)
  BY <1>1, <1>3, ContinueShape DEF DeleteUnused
<1>4. ASSUME NEW e \in Events, NEW type \in {"SEM", "MBOX"}, DeleteAnyway(t, e, type)
      PROVE  TaskStepShape(t)
  BY <1>1, <1>4, ContextAssumption DEF DeleteAnyway, Goto, LockInv, TaskStepShape, runVars, Contexts
<1>. QED
  BY <1>2, <1>3, <1>4 DEF EventCall

LEMMA EventStepShape ==
  ASSUME LockInv, NEW t \in Tasks, EventStep(t)
  PROVE  TaskStepShape(t)
<1>1. OnCPU(t)
  BY DEF EventStep, InitEvent, DeleteWaiter, RetireECB, ReleaseECB, BlockBody, Woken, At
<1>2. CASE InitEvent(t) \/ RetireECB(t) \/ Woken(t)
  BY <1>1, <1>2, GotoShape, FaultShape DEF InitEvent, RetireECB, Woken
<1>3. CASE DeleteWaiter(t)
  <2>1. OSSchedLock > 0
    BY <1>3, ContextAssumption DEF DeleteWaiter, At, LockInv, OneWriter, Locking, Contexts
  <2>2. /\ t \in Contexts /\ pc[t] = "delwaiter" /\ UNCHANGED runVars
        /\ \/ UNCHANGED <<OSSchedLock, pc, ret>>
           \/ Goto(t, "respond") /\ ret' = [ret EXCEPT ![t] = "release"] /\ UNCHANGED OSSchedLock
           \/ Goto(t, "release") /\ OSSchedLock' = OSSchedLock - 1 /\ UNCHANGED ret
    BY <1>3 DEF DeleteWaiter, At, Contexts
  <2>. QED
    BY <1>1, <2>1, <2>2, ContextAssumption DEF Goto, LockInv, TaskStepShape, runVars, Contexts
<1>4. CASE ReleaseECB(t) \/ BlockBody(t)
  BY <1>1, <1>4, LockedSectionShape DEF ReleaseECB, BlockBody
<1>. QED
  BY <1>2, <1>3, <1>4 DEF EventStep

LEMMA TokenShape ==
  ASSUME LockInv, NEW t \in Tasks, SemCall(t) \/ SemStep(t) \/ MboxCall(t) \/ MboxStep(t)
  PROVE  TaskStepShape(t)
<1>1. OnCPU(t)
  BY DEF SemCall, CoPendSem, CoAcceptSem, CoPostSem, SemStep, Decrement, PostSem,
         MboxCall, CoPendMail, CoAcceptMail, CoPostMail, MboxStep, PostMail, Calls, At
<1>2. ASSUME NEW e \in Events, NEW timeout \in Timeouts, CoPendSem(t, e, timeout)
      PROVE  TaskStepShape(t)
  BY <1>1, <1>2, LockedSectionShape DEF CoPendSem
<1>3. ASSUME NEW e \in Events, CoAcceptSem(t, e) PROVE TaskStepShape(t)
  BY <1>1, <1>3, LockedSectionShape DEF CoAcceptSem
<1>4. ASSUME NEW e \in Events, CoPostSem(t, e) PROVE TaskStepShape(t)
  BY <1>1, <1>4, ContinueShape DEF CoPostSem
<1>5. CASE SemStep(t)
  BY <1>1, <1>5, GotoShape, LockedSectionShape DEF SemStep, Decrement, PostSem
<1>6. ASSUME NEW e \in Events, NEW timeout \in Timeouts, CoPendMail(t, e, timeout)
      PROVE  TaskStepShape(t)
  BY <1>1, <1>6, LockedSectionShape DEF CoPendMail, TakeMail
<1>7. ASSUME NEW e \in Events, CoAcceptMail(t, e) PROVE TaskStepShape(t)
  BY <1>1, <1>7, LockedSectionShape DEF CoAcceptMail, TakeMail
<1>8. ASSUME NEW e \in Events, NEW mail \in Mails, CoPostMail(t, e, mail) PROVE TaskStepShape(t)
  BY <1>1, <1>8, ContinueShape DEF CoPostMail
<1>9. CASE MboxStep(t)
  BY <1>1, <1>9, LockedSectionShape, FaultShape DEF MboxStep, PostMail
<1>. QED
  BY <1>2, <1>3, <1>4, <1>5, <1>6, <1>7, <1>8, <1>9 DEF SemCall, MboxCall

---------------------------------------------------------------------------
(* OsSchedUnlock, by whatever context *)

\* While context c is inside a locked section nobody else is.
LEMMA HolderAlone ==
  ASSUME LockInv, NEW c \in Contexts, Locking(c)
  PROVE  OSSchedLock > 0 /\ \A d \in Contexts \ {c} : ~Locking(d)
BY DEF LockInv, OneWriter

\* The steps inside OsSchedUnlock that neither schedule nor write the lock.
LEMMA InsideUnlock ==
  ASSUME LockInv, NEW c \in Contexts, NEW label \in UnlockLabels, pc[c] \in UnlockLabels,
         Goto(c, label), UNCHANGED <<runVars, OSSchedLock, ret>>
  PROVE  LockInv'
<1>1. \A d \in Contexts : Locking(d)' <=> Locking(d)
  BY ContextAssumption DEF Goto, Locking, LockInv
<1>2. pc[TCBRunning] = "clear" => pc'[TCBRunning] = "clear"
  BY ContextAssumption DEF Goto, LockInv
<1>. QED
  BY <1>1, <1>2, ContextAssumption DEF LockInv, OneWriter, runVars, Contexts, Goto

LEMMA ServeKeepsLockInv ==
  ASSUME LockInv, NEW c \in Contexts,
         BeginUnlock(c) \/ DisposeHead(c) \/ UnlinkHead(c) \/ EndDispose(c) \/ ClearTimeReq(c)
         \/ RespondCell(c) \/ EndCells(c) \/ ClearIsrReq(c)
  PROVE  LockInv'
<1>1. CASE BeginUnlock(c) \/ EndDispose(c) \/ EndCells(c) \/ ClearTimeReq(c) \/ ClearIsrReq(c)
  BY <1>1, InsideUnlock DEF BeginUnlock, EndDispose, EndCells, ClearTimeReq, ClearIsrReq, At
<1>2. CASE DisposeHead(c) \/ UnlinkHead(c)
  BY <1>2, InsideUnlock DEF DisposeHead, UnlinkHead, At
<1>3. CASE RespondCell(c)
  BY <1>3 DEF RespondCell, LockInv, OneWriter, Locking, runVars
<1>. QED
  BY <1>1, <1>2, <1>3

\* Schedule() pends a switch where no task is left inside a locked section.
LEMMA UnlockScheduleKeepsLockInv ==
  ASSUME LockInv, NEW c \in Contexts, UnlockSchedule(c)
  PROVE  LockInv'
<1>1. OnCPU(c) /\ Locking(c) /\ pc' = [pc EXCEPT ![c] = "clear"]
  BY DEF UnlockSchedule, At, Goto, Locking
<1>2. UNCHANGED <<OSSchedLock, ret, TCBRunning>>
  BY DEF UnlockSchedule
<1>3. \A d \in Contexts \ {c} : ~Locking(d) /\ ~Locking(d)'
  BY <1>1, HolderAlone DEF Locking, LockInv
<1>4. OneWriter'
  BY <1>1, <1>2, <1>3, HolderAlone, ContextAssumption DEF OneWriter, LockInv, Contexts, Locking
<1>5. \A t \in Tasks : ~Locking(t)'
  BY <1>1, <1>3, ContextAssumption DEF LockInv, Locking, Contexts
<1>6. pc'[TCBRunning'] = "clear" \/ Locking(SysTick)' \/ Locking(Isr)'
  BY <1>1, <1>2, ContextAssumption DEF LockInv, Locking, OnCPU, Contexts
<1>. QED
  BY <1>1, <1>2, <1>4, <1>5, <1>6 DEF LockInv

LEMMA ClearLockKeepsLockInv ==
  ASSUME LockInv, NEW c \in Contexts, ClearLock(c)
  PROVE  LockInv'
<1>1. CASE c \in Tasks
  BY <1>1, GotoShape, ShapeKeepsLockInv, ContextAssumption
  DEF ClearLock, At, Goto, LockInv, TaskStepShape, runVars, Contexts
<1>2. CASE c \in {SysTick, Isr}
  <2>1. Locking(c) /\ ret[c] \in {"off", "isrexit"}
    BY <1>2, ContextAssumption DEF ClearLock, At, Locking, LockInv
  <2>2. \A d \in Contexts : ~Locking(d)'
    BY <2>1, HolderAlone, ContextAssumption DEF ClearLock, Goto, Locking, LockInv
  <2>. QED
    BY <2>2, ContextAssumption DEF ClearLock, Goto, LockInv, OneWriter, runVars, Contexts
<1>. QED
  BY <1>1, <1>2 DEF Contexts

LEMMA UnlockStepKeepsLockInv ==
  ASSUME LockInv, NEW c \in Contexts, UnlockStep(c)
  PROVE  LockInv'
BY ServeKeepsLockInv, UnlockScheduleKeepsLockInv, ClearLockKeepsLockInv DEF UnlockStep

---------------------------------------------------------------------------
(* The exceptions *)

\* A handler that finds the lock free takes it, and is alone in it.
LEMMA HandlerTakesLock ==
  ASSUME LockInv, NEW h \in {SysTick, Isr}, NEW label \in UnlockLabels,
         OSSchedLock = 0, OSSchedLock' = 1, Goto(h, label), UNCHANGED runVars,
         ret' = ret \/ ret' = [ret EXCEPT ![Isr] = "isrexit"]
  PROVE  LockInv'
<1>1. \A c \in Contexts \ {h} : ~Locking(c) /\ ~Locking(c)'
  BY ContextAssumption DEF LockInv, OneWriter, Goto, Locking, Contexts
<1>2. Locking(h)'
  BY ContextAssumption DEF LockInv, Goto, Locking, Contexts
<1>3. OneWriter'
  BY <1>1, <1>2, ContextAssumption DEF OneWriter, Contexts
<1>. QED
  BY <1>1, <1>2, <1>3, ContextAssumption DEF LockInv, Goto, runVars, Contexts

LEMMA TickKeepsLockInv ==
  ASSUME LockInv, TickEnter
  PROVE  LockInv'
<1>1. CASE OSSchedLock > 0
  BY <1>1 DEF TickEnter, LockInv, OneWriter, Locking, runVars
<1>2. CASE ~(OSSchedLock > 0)
  <2>1. OSSchedLock = 0
    BY <1>2 DEF LockInv
  <2>. QED
    BY <1>2, <2>1, HandlerTakesLock DEF TickEnter
<1>. QED
  BY <1>1, <1>2

LEMMA PendSVKeepsLockInv ==
  ASSUME LockInv, PendSV_Handler
  PROVE  LockInv'
<1>1. \A c \in Contexts : ~Locking(c)
  BY ContextAssumption DEF PendSV_Handler, LockInv, Locking, Contexts
<1>. QED
  BY <1>1 DEF PendSV_Handler, LockInv, OneWriter, Locking

\* The interrupt moves outside the lock.
LEMMA IsrOutside ==
  ASSUME LockInv, pc[Isr] \in {"off", "isrexit"}, NEW label \in {"off", "isrexit"}, Goto(Isr, label),
         UNCHANGED <<TCBRunning, OSSchedLock, ret>>
  PROVE  /\ \A c \in Contexts : Locking(c)' <=> Locking(c)
         /\ pc'[TCBRunning'] = pc[TCBRunning] \/ TCBRunning = Isr
         /\ OneWriter'
<1>1. \A c \in Contexts : Locking(c)' <=> Locking(c)
  BY ContextAssumption DEF LockInv, Goto, Locking, Contexts
<1>. QED
  BY <1>1, ContextAssumption DEF LockInv, OneWriter, Goto, Contexts

LEMMA IsrPostKeepsLockInv ==
  ASSUME LockInv, NEW e \in Events, NEW mail, isr_PostSem(e) \/ isr_PostMail(e, mail)
  PROVE  LockInv'
<1>1. \/ /\ OSSchedLock = 0
         /\ LockedSection(Isr, "isrexit") /\ UNCHANGED runVars
      \/ Goto(Isr, "isrexit") /\ UNCHANGED <<runVars, OSSchedLock, ret>> /\ pc[Isr] = "off"
  <2>1. OSSchedLock = 0 \/ OSSchedLock > 0
    BY DEF LockInv
  <2>. QED
    BY <2>1 DEF isr_PostSem, isr_PostMail, IsrPost
<1>2. CASE OSSchedLock = 0 /\ LockedSection(Isr, "isrexit") /\ UNCHANGED runVars
  BY <1>2, HandlerTakesLock DEF LockedSection
<1>3. CASE Goto(Isr, "isrexit") /\ UNCHANGED <<runVars, OSSchedLock, ret>> /\ pc[Isr] = "off"
  BY <1>3, IsrOutside, ContextAssumption DEF LockInv, Goto, runVars, Contexts, Locking
<1>. QED
  BY <1>1, <1>2, <1>3

LEMMA IsrExitKeepsLockInv ==
  ASSUME LockInv, IsrExit
  PROVE  LockInv'
<1>1. /\ pc[Isr] = "isrexit" /\ Goto(Isr, "off")
      /\ UNCHANGED <<TCBRunning, OSSchedLock, ret>>
  BY DEF IsrExit
<1>2. PendSV' = PendSV \/ OSSchedLock = 0
  BY DEF IsrExit, Schedule, LockInv
<1>3. OSSchedLock = 0 => \A t \in Tasks : ~Locking(t)'
  BY <1>1, ContextAssumption DEF Goto, LockInv, OneWriter, Locking, Contexts
<1>. QED
  BY <1>1, <1>2, <1>3, IsrOutside, ContextAssumption DEF LockInv, Goto, Contexts, Locking

---------------------------------------------------------------------------
(* The theorems about the lock *)

LEMMA InitLockInv ==
  ASSUME Init
  PROVE  LockInv
<1>1. /\ DOMAIN pc = Contexts /\ pc[Idle] = "respond"
      /\ \A c \in Contexts \ {Idle} : pc[c] \in {"app", "off"}
  <2>. DEFINE p == [c \in Contexts |-> IF c = Idle THEN "respond"
                                       ELSE IF NeverUsed(c) THEN "off" ELSE "app"]
  <2>1. pc = p
    BY DEF Init, KernelInit
  <2>2. p[Idle] = "respond" /\ \A c \in Contexts \ {Idle} : p[c] \in {"app", "off"}
    BY ContextAssumption DEF Contexts
  <2>. QED
    BY <2>1, <2>2
<1>2. /\ DOMAIN ret = Contexts /\ ret[SysTick] = "off" /\ ret[Isr] = "isrexit"
      /\ \A t \in Tasks : ret[t] = "app"
  BY ContextAssumption DEF Init, KernelInit, Contexts
<1>3. OSSchedLock = 1 /\ TCBRunning = Idle /\ PendSV = FALSE
  BY DEF Init, KernelInit
<1>4. Idle \in Contexts /\ \A c \in Contexts \ {Idle} : ~Locking(c)
  BY <1>1, ContextAssumption DEF Locking, Contexts
<1>5. OneWriter
  BY <1>3, <1>4 DEF OneWriter, Contexts
<1>. QED
  BY <1>1, <1>2, <1>3, <1>5 DEF LockInv

LEMMA NextLockInv ==
  ASSUME LockInv, [Next]_vars
  PROVE  LockInv'
<1>1. ASSUME NEW t \in Tasks, Call(t) PROVE LockInv'
  BY <1>1, TaskCallShape, EventCallShape, TokenShape, ShapeKeepsLockInv DEF Call
<1>2. ASSUME NEW t \in Tasks, Step(t) PROVE LockInv'
  BY <1>2, UnlockStepKeepsLockInv, TaskStepIsShape, EventStepShape, TokenShape, ShapeKeepsLockInv
  DEF Step, Contexts
<1>3. CASE UnlockStep(SysTick) \/ UnlockStep(Isr)
  BY <1>3, UnlockStepKeepsLockInv DEF Contexts
<1>4. CASE Interrupt
  <2>1. \E e \in Events, mail \in Mails \cup {NULL} : isr_PostSem(e) \/ isr_PostMail(e, mail)
    BY <1>4 DEF Interrupt
  <2>. QED
    BY <2>1, IsrPostKeepsLockInv
<1>5. CASE TickEnter \/ IsrExit \/ PendSV_Handler
  BY <1>5, TickKeepsLockInv, IsrExitKeepsLockInv, PendSVKeepsLockInv
<1>6. CASE UNCHANGED vars
  BY <1>6 DEF vars, LockInv, OneWriter, Locking
<1>. QED
  BY <1>1, <1>2, <1>3, <1>4, <1>5, <1>6 DEF Next

THEOREM LockInvariant == Spec => []LockInv
BY InitLockInv, NextLockInv, PTL DEF Spec

\* Every locked section has one writer, the running task or a handler.
THEOREM LockIsExclusive == Spec => []OneWriter
<1>1. LockInv => OneWriter
  BY DEF LockInv
<1>. QED
  BY <1>1, LockInvariant, PTL

\* Only PendSV_Handler gives the CPU to another task.
LEMMA OnlyPendSVSwitches ==
  ASSUME LockInv, Next, TCBRunning' # TCBRunning
  PROVE  PendSV_Handler
<1>1. ASSUME NEW t \in Tasks, Call(t) PROVE TCBRunning' = TCBRunning
  BY <1>1, TaskCallShape, EventCallShape, TokenShape DEF Call, TaskStepShape
<1>2. ASSUME NEW c \in Contexts, UnlockStep(c) PROVE TCBRunning' = TCBRunning
  BY <1>2 DEF UnlockStep, BeginUnlock, DisposeHead, UnlinkHead, EndDispose, ClearTimeReq,
              RespondCell, EndCells, ClearIsrReq, UnlockSchedule, ClearLock, runVars
<1>3. ASSUME NEW t \in Tasks, Step(t) PROVE TCBRunning' = TCBRunning
  BY <1>2, <1>3, TaskStepIsShape, EventStepShape, TokenShape DEF Step, TaskStepShape, Contexts
<1>4. Interrupt => TCBRunning' = TCBRunning
  BY DEF Interrupt, isr_PostSem, isr_PostMail, IsrPost, runVars
<1>5. TickEnter \/ IsrExit => TCBRunning' = TCBRunning
  BY DEF TickEnter, IsrExit, runVars
<1>. QED
  BY <1>1, <1>2, <1>3, <1>4, <1>5 DEF Next, Contexts

\* No switch takes the CPU from a task that holds the scheduler lock.
THEOREM LockHoldsCpu == Spec => LockKeepsCpu
<1>1. LockInv /\ [Next]_vars
      => (TCBRunning' # TCBRunning => OSSchedLock = 0 \/ pc[TCBRunning] = "clear")
  <2>. SUFFICES ASSUME LockInv, Next, TCBRunning' # TCBRunning
                PROVE  OSSchedLock = 0 \/ pc[TCBRunning] = "clear"
    BY DEF vars
  <2>1. PendSV /\ pc[SysTick] = "off" /\ pc[Isr] = "off"
    BY OnlyPendSVSwitches DEF PendSV_Handler
  <2>. QED
    BY <2>1 DEF LockInv, Locking
<1>. QED
  BY <1>1, LockInvariant, PTL DEF Spec, LockKeepsCpu

HIDE DEF LockLabels, UnlockLabels, ReturnLabels, TaskArgLabels, EventArgLabels

---------------------------------------------------------------------------
(* The list operations *)

\* A set of numbers that is not empty has a least one.
LEMMA LeastNumber ==
  ASSUME NEW T \in SUBSET Nat, T # {}
  PROVE  \E x \in T : \A y \in T : x <= y
<1>. DEFINE R == OpToRel(<, Nat)
<1>1. IsWellFoundedOn(R, Nat)
  BY NatLessThanWellFounded
<1>2. \A x, y \in Nat : y < x => <<y, x>> \in R
  BY DEF OpToRel
<1>. HIDE DEF R
<1>3. PICK x \in T : \A y \in T : ~(<<y, x>> \in R)
  BY <1>1, WFMin
<1>4. \A y \in T : x \in Nat /\ y \in Nat /\ ~(y < x)
  BY <1>2, <1>3
<1>. QED
  BY <1>4

\* Inserting by key puts the item at a position of the list or behind it.
LEMMA InsertByType ==
  ASSUME NEW S, NEW list \in Seq(S), NEW key, NEW t \in S
  PROVE  InsertBy(list, key, t) \in Seq(S)
<1>. DEFINE later == {i \in 1 .. Len(list) : key[t] < key[list[i]]}
            at == IF later = {} THEN Len(list) + 1
                  ELSE CHOOSE i \in later : \A j \in later : i <= j
<1>1. at \in 1 .. Len(list) + 1
  <2>1. Len(list) \in Nat /\ later \subseteq 1 .. Len(list)
    BY LenProperties
  <2>. HIDE DEF later
  <2>2. CASE later # {}
    <3>1. later \in SUBSET Nat
      BY <2>1
    <3>2. \E i \in later : \A j \in later : i <= j
      BY <2>2, <3>1, LeastNumber
    <3>3. at \in later
      BY <2>2, <3>2
    <3>4. \A i \in 1 .. Len(list) : i \in 1 .. Len(list) + 1
      BY <2>1
    <3>. QED
      BY <2>1, <3>3, <3>4
  <2>3. CASE later = {}
    BY <2>1, <2>3
  <2>. QED
    BY <2>2, <2>3
<1>. HIDE DEF at
<1>2. InsertAt(list, at, t) \in Seq(S)
  <2>1. SubSeq(list, 1, at - 1) \in Seq(S) /\ SubSeq(list, at, Len(list)) \in Seq(S)
    BY <1>1, SubSeqProperties, LenProperties
  <2>. QED
    BY <2>1, ConcatProperties DEF InsertAt
<1>. QED
  BY <1>2 DEF InsertBy, at

LEMMA UnlinkType ==
  ASSUME NEW S, NEW list \in Seq(S), NEW t
  PROVE  Unlink(list, t) \in Seq(S)
<1>. DEFINE at == CHOOSE i \in 1 .. Len(list) : list[i] = t
<1>1. CASE Contains(list, t)
  <2>1. at \in 1 .. Len(list)
    BY <1>1 DEF Contains
  <2>. HIDE DEF at
  <2>2. SubSeq(list, 1, at - 1) \in Seq(S) /\ SubSeq(list, at + 1, Len(list)) \in Seq(S)
    BY <2>1, SubSeqProperties, LenProperties
  <2>3. RemoveAt(list, at) \in Seq(S)
    BY <2>2, ConcatProperties DEF RemoveAt
  <2>. QED
    BY <1>1, <2>3 DEF Unlink, at
<1>. QED
  BY <1>1, EmptySeq DEF Unlink

\* An item is only taken from the head of a list that has one.
LEMMA HeadTailType ==
  ASSUME NEW S, NEW list \in Seq(S), list # <<>>
  PROVE  Head(list) \in S /\ Tail(list) \in Seq(S)
BY HeadTailProperties

LEMMA PushType ==
  ASSUME NEW S, NEW list \in Seq(S), NEW t \in S
  PROVE  <<t>> \o list \in Seq(S)
BY ConcatProperties

---------------------------------------------------------------------------
(* What the list operations do to the items of a list *)

\* The items of a list, as positions.
LEMMA ContainsMeans ==
  ASSUME NEW S, NEW list \in Seq(S), NEW x
  PROVE  Contains(list, x) <=> \E i \in 1 .. Len(list) : list[i] = x
BY DEF Contains

LEMMA EmptyList == \A x : ~Contains(<<>>, x)
BY DEF Contains

\* The head is an item, and with no item twice, not one of the tail.
LEMMA HeadTailItems ==
  ASSUME NEW S, NEW list \in Seq(S), list # <<>>, IsInjective(list)
  PROVE  /\ Contains(list, Head(list)) /\ IsInjective(Tail(list))
         /\ \A x : Contains(Tail(list), x) <=> Contains(list, x) /\ x # Head(list)
<1>1. /\ Len(list) \in Nat /\ Len(list) >= 1 /\ Tail(list) \in Seq(S) /\ Head(list) = list[1]
      /\ Len(Tail(list)) = Len(list) - 1
      /\ \A i \in 1 .. Len(Tail(list)) : Tail(list)[i] = list[i + 1]
      /\ DOMAIN list = 1 .. Len(list) /\ DOMAIN Tail(list) = 1 .. Len(Tail(list))
  BY HeadTailProperties, LenProperties, EmptySeq
<1>2. Contains(list, Head(list)) BY <1>1 DEF Contains
<1>3. IsInjective(Tail(list)) BY <1>1 DEF IsInjective
<1>4. ASSUME NEW x PROVE Contains(Tail(list), x) <=> Contains(list, x) /\ x # Head(list)
  <2>1. ASSUME Contains(Tail(list), x) PROVE Contains(list, x) /\ x # Head(list)
    <3>1. PICK i \in 1 .. Len(list) - 1 : list[i + 1] = x BY <1>1, <2>1 DEF Contains
    <3>2. i + 1 \in 1 .. Len(list) /\ 1 \in 1 .. Len(list) /\ i + 1 # 1 BY <1>1
    <3> QED BY <1>1, <3>1, <3>2 DEF Contains, IsInjective
  <2>2. ASSUME Contains(list, x), x # Head(list) PROVE Contains(Tail(list), x)
    <3>1. PICK i \in 1 .. Len(list) : list[i] = x BY <2>2 DEF Contains
    <3>2. i - 1 \in 1 .. Len(Tail(list)) /\ i = (i - 1) + 1 BY <1>1, <2>2, <3>1
    <3> QED BY <1>1, <3>1, <3>2 DEF Contains
  <2> QED BY <2>1, <2>2
<1> QED BY <1>2, <1>3, <1>4

LEMMA AppendItems ==
  ASSUME NEW S, NEW list \in Seq(S), NEW t \in S
  PROVE  /\ \A x : Contains(Append(list, t), x) <=> Contains(list, x) \/ x = t
         /\ IsInjective(list) /\ ~Contains(list, t) => IsInjective(Append(list, t))
<1> DEFINE new == Append(list, t)
<1>1. /\ new \in Seq(S) /\ Len(new) = Len(list) + 1 /\ Len(list) \in Nat
      /\ \A i \in 1 .. Len(list) : new[i] = list[i]
      /\ new[Len(list) + 1] = t
      /\ DOMAIN list = 1 .. Len(list) /\ DOMAIN new = 1 .. Len(new)
  BY AppendProperties, LenProperties
<1> HIDE DEF new
<1>2. ASSUME NEW x PROVE Contains(new, x) <=> Contains(list, x) \/ x = t
  BY <1>1 DEF Contains
<1>3. ASSUME IsInjective(list), ~Contains(list, t) PROVE IsInjective(new)
  BY <1>1, <1>3 DEF Contains, IsInjective
<1> QED BY <1>2, <1>3 DEF new

LEMMA PushItems ==
  ASSUME NEW S, NEW list \in Seq(S), NEW t \in S
  PROVE  /\ \A x : Contains(<<t>> \o list, x) <=> Contains(list, x) \/ x = t
         /\ IsInjective(list) /\ ~Contains(list, t) => IsInjective(<<t>> \o list)
<1> DEFINE new == <<t>> \o list
<1>1. /\ new \in Seq(S) /\ Len(new) = Len(list) + 1 /\ Len(list) \in Nat
      /\ \A i \in 1 .. Len(list) + 1 : new[i] = IF i = 1 THEN t ELSE list[i - 1]
      /\ DOMAIN list = 1 .. Len(list) /\ DOMAIN new = 1 .. Len(new)
  BY LenProperties
<1> HIDE DEF new
<1>2. ASSUME NEW x PROVE Contains(new, x) <=> Contains(list, x) \/ x = t
  <2>1. ASSUME NEW i \in 1 .. Len(list) PROVE i + 1 \in 1 .. Len(new) /\ new[i + 1] = list[i]
    BY <1>1
  <2>2. 1 \in 1 .. Len(new) /\ new[1] = t BY <1>1
  <2>3. ASSUME NEW i \in 1 .. Len(new), i # 1 PROVE i - 1 \in 1 .. Len(list) /\ new[i] = list[i - 1]
    BY <1>1, <2>3
  <2> QED BY <2>1, <2>2, <2>3 DEF Contains
<1>3. ASSUME IsInjective(list), ~Contains(list, t) PROVE IsInjective(new)
  <2>1. SUFFICES ASSUME NEW i \in 1 .. Len(new), NEW j \in 1 .. Len(new), new[i] = new[j] PROVE i = j
    BY <1>1 DEF IsInjective
  <2>2. i # 1 => i - 1 \in 1 .. Len(list) /\ new[i] = list[i - 1] BY <1>1
  <2>3. j # 1 => j - 1 \in 1 .. Len(list) /\ new[j] = list[j - 1] BY <1>1
  <2>4. new[1] = t BY <1>1
  <2>5. CASE i = 1 \/ j = 1 BY <1>3, <2>1, <2>2, <2>3, <2>4, <2>5 DEF Contains
  <2>6. CASE i # 1 /\ j # 1
    <3>1. i - 1 = j - 1 BY <1>1, <1>3, <2>1, <2>2, <2>3, <2>6 DEF IsInjective
    <3> QED BY <3>1, <1>1
  <2> QED BY <2>5, <2>6
<1> QED BY <1>2, <1>3 DEF new

\* Item t put at a position of the list, the items from there on moved up.
InsertedAt(new, list, t, at) ==
  /\ Len(new) = Len(list) + 1 /\ at \in 1 .. Len(list) + 1
  /\ \A i \in 1 .. Len(new) : new[i] = IF i < at THEN list[i] ELSE IF i = at THEN t ELSE list[i - 1]

\* InsertBy puts t behind every item whose key is not larger, and no further.
LEMMA InsertByPlace ==
  ASSUME NEW S, NEW list \in Seq(S), NEW key, NEW t \in S
  PROVE  \E at \in 1 .. Len(list) + 1 :
           /\ InsertedAt(InsertBy(list, key, t), list, t, at)
           /\ \A i \in 1 .. at - 1 : ~(key[t] < key[list[i]])
           /\ at <= Len(list) => key[t] < key[list[at]]
<1> DEFINE later == {i \in 1 .. Len(list) : key[t] < key[list[i]]}
           at == IF later = {} THEN Len(list) + 1
                 ELSE CHOOSE i \in later : \A j \in later : i <= j
<1>1. Len(list) \in Nat /\ later \subseteq 1 .. Len(list) BY LenProperties
<1>2. /\ at \in 1 .. Len(list) + 1
      /\ \A i \in 1 .. at - 1 : i \notin later
      /\ at <= Len(list) => at \in later
  <2>1. CASE later = {} BY <1>1, <2>1
  <2>2. CASE later # {}
    <3>1. later \in SUBSET Nat BY <1>1
    <3>2. \E i \in later : \A j \in later : i <= j BY <2>2, <3>1, LeastNumber
    <3> HIDE DEF later
    <3>3. at \in later /\ \A j \in later : at <= j BY <2>2, <3>2
    <3> HIDE DEF at
    <3>4. at \in 1 .. Len(list) BY <1>1, <3>3
    <3>5. ASSUME NEW i \in 1 .. at - 1 PROVE i \notin later
      <4>1. ~(at <= i) BY <1>1, <3>4
      <4> QED BY <3>3, <4>1
    <3> QED BY <1>1, <3>3, <3>4, <3>5
  <2> QED BY <2>1, <2>2
<1>3. InsertedAt(InsertAt(list, at, t), list, t, at)
  <2> HIDE DEF at
  <2>1. /\ SubSeq(list, 1, at - 1) \in Seq(S) /\ SubSeq(list, at, Len(list)) \in Seq(S)
        /\ Len(SubSeq(list, 1, at - 1)) = at - 1
        /\ Len(SubSeq(list, at, Len(list))) = Len(list) + 1 - at
        /\ \A i \in 1 .. at - 1 : SubSeq(list, 1, at - 1)[i] = list[i]
        /\ \A i \in 1 .. Len(list) + 1 - at : SubSeq(list, at, Len(list))[i] = list[at + i - 1]
    BY <1>1, <1>2, SMTT(30)
  <2> DEFINE front == SubSeq(list, 1, at - 1)
             back == SubSeq(list, at, Len(list))
  <2>2. InsertAt(list, at, t) = (front \o <<t>>) \o back BY DEF InsertAt
  <2> HIDE DEF front, back
  <2>3. /\ front \o <<t>> \in Seq(S) /\ Len(front \o <<t>>) = at
        /\ \A i \in 1 .. at : (front \o <<t>>)[i] = IF i < at THEN list[i] ELSE t
    BY <1>1, <1>2, <2>1 DEF front
  <2>4. /\ back \in Seq(S) /\ Len(back) = Len(list) + 1 - at
        /\ \A i \in 1 .. Len(list) + 1 - at : back[i] = list[at + i - 1]
    BY <2>1 DEF back
  <2> DEFINE pre == front \o <<t>>
             new == pre \o back
  <2>8. /\ pre \in Seq(S) /\ Len(pre) = at
        /\ \A i \in 1 .. at : pre[i] = IF i < at THEN list[i] ELSE t
    BY <2>3
  <2> HIDE DEF pre
  <2>5. /\ Len(new) = Len(pre) + Len(back)
        /\ \A i \in 1 .. Len(pre) + Len(back) :
             new[i] = IF i <= Len(pre) THEN pre[i] ELSE back[i - Len(pre)]
    BY <2>8, <2>4, ConcatProperties
  <2> HIDE DEF new
  <2>6. Len(new) = Len(list) + 1 BY <1>1, <1>2, <2>8, <2>4, <2>5
  <2>7. ASSUME NEW i \in 1 .. Len(new)
        PROVE  new[i] = IF i < at THEN list[i] ELSE IF i = at THEN t ELSE list[i - 1]
    <3>1. CASE i <= at BY <1>1, <1>2, <2>8, <2>4, <2>5, <2>6, <3>1
    <3>2. CASE i > at
      <4>1. i - at \in 1 .. Len(list) + 1 - at /\ at + (i - at) - 1 = i - 1 BY <1>1, <1>2, <2>6, <3>2
      <4>2. new[i] = back[i - at] BY <1>1, <1>2, <2>8, <2>4, <2>5, <2>6, <3>2
      <4>3. back[i - at] = list[i - 1] BY <2>4, <4>1
      <4> QED BY <1>1, <1>2, <2>6, <3>2, <4>2, <4>3
    <3> QED BY <1>1, <1>2, <2>6, <3>1, <3>2
  <2> QED BY <1>2, <2>2, <2>6, <2>7 DEF InsertedAt, new, pre
<1>4. InsertBy(list, key, t) = InsertAt(list, at, t) BY DEF InsertBy
<1>5. \A i \in 1 .. at - 1 : i \in 1 .. Len(list)
  <2> HIDE DEF at
  <2> QED BY <1>1, <1>2
<1>6. /\ \A i \in 1 .. at - 1 : ~(key[t] < key[list[i]])
      /\ at <= Len(list) => key[t] < key[list[at]]
  <2>1. \A i \in 1 .. Len(list) : i \in later <=> key[t] < key[list[i]] OBVIOUS
  <2> HIDE DEF at, later
  <2> QED BY <1>1, <1>2, <1>5, <2>1
<1> HIDE DEF at
<1> QED BY <1>2, <1>3, <1>4, <1>6

LEMMA InsertedItems ==
  ASSUME NEW S, NEW list \in Seq(S), NEW new \in Seq(S), NEW t, NEW at, InsertedAt(new, list, t, at)
  PROVE  /\ \A x : Contains(new, x) <=> Contains(list, x) \/ x = t
         /\ IsInjective(list) /\ ~Contains(list, t) => IsInjective(new)
<1>1. /\ Len(list) \in Nat /\ Len(new) = Len(list) + 1 /\ at \in 1 .. Len(list) + 1
      /\ \A i \in 1 .. Len(new) : new[i] = IF i < at THEN list[i] ELSE IF i = at THEN t ELSE list[i - 1]
      /\ DOMAIN list = 1 .. Len(list) /\ DOMAIN new = 1 .. Len(new)
  BY LenProperties DEF InsertedAt
\* the position in list of the item that is at i in new
<1> DEFINE Old(i) == IF i < at THEN i ELSE i - 1
<1>2. ASSUME NEW i \in 1 .. Len(new), i # at PROVE Old(i) \in 1 .. Len(list) /\ new[i] = list[Old(i)]
  BY <1>1, <1>2
<1>3. ASSUME NEW i \in 1 .. Len(list)
      PROVE  \E j \in 1 .. Len(new) : j # at /\ Old(j) = i
  <2>1. CASE i < at BY <1>1, <2>1
  <2>2. CASE ~(i < at)
    <3>1. i + 1 \in 1 .. Len(new) /\ i + 1 # at /\ Old(i + 1) = i BY <1>1, <2>2
    <3> QED BY <3>1
  <2> QED BY <2>1, <2>2
<1>4. ASSUME NEW i \in 1 .. Len(new), NEW j \in 1 .. Len(new), i # at, j # at, Old(i) = Old(j)
      PROVE i = j
  BY <1>1, <1>4
<1>5. at \in 1 .. Len(new) /\ new[at] = t BY <1>1
<1> HIDE DEF Old
<1>6. ASSUME NEW x PROVE Contains(new, x) <=> Contains(list, x) \/ x = t
  BY <1>2, <1>3, <1>5 DEF Contains
<1>7. ASSUME IsInjective(list), ~Contains(list, t) PROVE IsInjective(new)
  <2>1. SUFFICES ASSUME NEW i \in 1 .. Len(new), NEW j \in 1 .. Len(new), new[i] = new[j] PROVE i = j
    BY <1>1 DEF IsInjective
  <2>2. CASE i # at /\ j # at BY <1>1, <1>2, <1>4, <1>7, <2>1, <2>2 DEF IsInjective
  <2>3. CASE i = at \/ j = at BY <1>2, <1>5, <1>7, <2>1, <2>3 DEF Contains
  <2> QED BY <2>2, <2>3
<1> QED BY <1>6, <1>7

LEMMA InsertByItems ==
  ASSUME NEW S, NEW list \in Seq(S), NEW key, NEW t \in S
  PROVE  /\ \A x : Contains(InsertBy(list, key, t), x) <=> Contains(list, x) \/ x = t
         /\ IsInjective(list) /\ ~Contains(list, t) => IsInjective(InsertBy(list, key, t))
BY InsertByPlace, InsertByType, InsertedItems

\* The list without the item at one position.
LEMMA UnlinkPlace ==
  ASSUME NEW S, NEW list \in Seq(S), NEW t, Contains(list, t)
  PROVE  \E at \in 1 .. Len(list) :
           /\ list[at] = t /\ Len(Unlink(list, t)) = Len(list) - 1
           /\ \A i \in 1 .. Len(list) - 1 : Unlink(list, t)[i] = IF i < at THEN list[i] ELSE list[i + 1]
<1> DEFINE at == CHOOSE i \in 1 .. Len(list) : list[i] = t
<1>1. at \in 1 .. Len(list) /\ list[at] = t /\ Len(list) \in Nat BY LenProperties DEF Contains
<1>2. Unlink(list, t) = RemoveAt(list, at) BY DEF Unlink
<1> HIDE DEF at
<1> DEFINE front == SubSeq(list, 1, at - 1)
           back == SubSeq(list, at + 1, Len(list))
<1>3. /\ front \in Seq(S) /\ back \in Seq(S)
      /\ Len(front) = at - 1 /\ Len(back) = Len(list) - at
      /\ \A i \in 1 .. at - 1 : front[i] = list[i]
      /\ \A i \in 1 .. Len(list) - at : back[i] = list[at + i]
  <2>1. \A i \in 1 .. Len(list) : list[i] \in S BY LenProperties
  <2>2. /\ front \in Seq(S) /\ Len(front) = at - 1
        /\ \A i \in 1 .. at - 1 : front[i] = list[i]
    BY <1>1, <2>1, SubSeqProperties
  <2>3. /\ back \in Seq(S) /\ Len(back) = Len(list) - at
        /\ \A i \in 1 .. Len(list) - at : back[i] = list[at + i]
    BY <1>1, <2>1, SubSeqProperties
  <2> QED BY <2>2, <2>3
<1>4. RemoveAt(list, at) = front \o back BY DEF RemoveAt
<1> HIDE DEF front, back
<1>5. /\ Len(front \o back) = Len(list) - 1
      /\ \A i \in 1 .. Len(list) - 1 : (front \o back)[i] = IF i < at THEN list[i] ELSE list[i + 1]
  <2> DEFINE new == front \o back
  <2>1. /\ Len(new) = Len(front) + Len(back)
        /\ \A i \in 1 .. Len(front) + Len(back) :
             new[i] = IF i <= Len(front) THEN front[i] ELSE back[i - Len(front)]
    BY <1>3, ConcatProperties
  <2> HIDE DEF new
  <2>2. Len(new) = Len(list) - 1 BY <1>1, <1>3, <2>1
  <2>3. ASSUME NEW i \in 1 .. Len(list) - 1 PROVE new[i] = IF i < at THEN list[i] ELSE list[i + 1]
    <3>1. CASE i < at BY <1>1, <1>3, <2>1, <3>1
    <3>2. CASE ~(i < at)
      <4>1. i - (at - 1) \in 1 .. Len(list) - at /\ at + (i - (at - 1)) = i + 1 BY <1>1, <3>2
      <4>2. new[i] = back[i - (at - 1)] BY <1>1, <1>3, <2>1, <3>2, SMTT(30)
      <4> QED BY <1>3, <3>2, <4>1, <4>2
    <3> QED BY <3>1, <3>2
  <2> QED BY <2>2, <2>3 DEF new
<1> QED BY <1>1, <1>2, <1>4, <1>5

LEMMA UnlinkItems ==
  ASSUME NEW S, NEW list \in Seq(S), NEW t, Contains(list, t), IsInjective(list)
  PROVE  /\ \A x : Contains(Unlink(list, t), x) <=> Contains(list, x) /\ x # t
         /\ IsInjective(Unlink(list, t))
<1> DEFINE new == Unlink(list, t)
<1>1. PICK at \in 1 .. Len(list) :
        /\ list[at] = t /\ Len(new) = Len(list) - 1
        /\ \A i \in 1 .. Len(list) - 1 : new[i] = IF i < at THEN list[i] ELSE list[i + 1]
  BY UnlinkPlace
<1>2. Len(list) \in Nat /\ new \in Seq(S) /\ DOMAIN list = 1 .. Len(list) /\ DOMAIN new = 1 .. Len(new)
  BY LenProperties, UnlinkType
<1> HIDE DEF new
<1> DEFINE Old(i) == IF i < at THEN i ELSE i + 1
<1>3. ASSUME NEW i \in 1 .. Len(new)
      PROVE  Old(i) \in 1 .. Len(list) /\ Old(i) # at /\ new[i] = list[Old(i)]
  BY <1>1, <1>2
<1>4. ASSUME NEW i \in 1 .. Len(list), i # at PROVE \E j \in 1 .. Len(new) : Old(j) = i
  <2>1. CASE i < at BY <1>1, <1>2, <2>1
  <2>2. CASE ~(i < at)
    <3>1. i - 1 \in 1 .. Len(new) /\ Old(i - 1) = i BY <1>1, <1>2, <1>4, <2>2
    <3> QED BY <3>1
  <2> QED BY <2>1, <2>2
<1>5. ASSUME NEW i \in 1 .. Len(new), NEW j \in 1 .. Len(new), Old(i) = Old(j) PROVE i = j
  BY <1>1, <1>2, <1>5
<1> HIDE DEF Old
<1>6. ASSUME NEW x PROVE Contains(new, x) <=> Contains(list, x) /\ x # t
  <2>1. ASSUME Contains(new, x) PROVE Contains(list, x) /\ x # t
    <3>1. PICK i \in 1 .. Len(new) : new[i] = x BY <2>1 DEF Contains
    <3>2. Old(i) \in 1 .. Len(list) /\ Old(i) # at /\ list[Old(i)] = x BY <1>3, <3>1
    <3> QED BY <1>1, <1>2, <3>2 DEF Contains, IsInjective
  <2>2. ASSUME Contains(list, x), x # t PROVE Contains(new, x)
    <3>1. PICK i \in 1 .. Len(list) : list[i] = x BY <2>2 DEF Contains
    <3>2. PICK j \in 1 .. Len(new) : Old(j) = i BY <1>1, <1>4, <2>2, <3>1
    <3> QED BY <1>3, <3>1, <3>2 DEF Contains
  <2> QED BY <2>1, <2>2
<1>7. IsInjective(new) BY <1>2, <1>3, <1>5 DEF IsInjective
<1> QED BY <1>6, <1>7 DEF new

---------------------------------------------------------------------------
(* Lists in the order of a key *)

InOrder(list, key) == \A i, j \in 1 .. Len(list) : i < j => key[list[i]] <= key[list[j]]

\* The items of the list have a number as key.
Keyed(list, key) == \A i \in 1 .. Len(list) : key[list[i]] \in Int

LEMMA InsertByOrder ==
  ASSUME NEW S, NEW list \in Seq(S), NEW key, NEW t \in S, Keyed(list, key), key[t] \in Int,
         InOrder(list, key)
  PROVE  InOrder(InsertBy(list, key, t), key)
<1> DEFINE new == InsertBy(list, key, t)
<1>1. PICK at \in 1 .. Len(list) + 1 :
        /\ InsertedAt(new, list, t, at)
        /\ \A i \in 1 .. at - 1 : ~(key[t] < key[list[i]])
        /\ at <= Len(list) => key[t] < key[list[at]]
  BY InsertByPlace
<1> HIDE DEF new
<1>2. /\ Len(new) = Len(list) + 1 /\ Len(list) \in Nat
      /\ \A i \in 1 .. Len(new) : new[i] = IF i < at THEN list[i] ELSE IF i = at THEN t ELSE list[i - 1]
  BY <1>1, LenProperties DEF InsertedAt
<1>3. SUFFICES ASSUME NEW i \in 1 .. Len(new), NEW j \in 1 .. Len(new), i < j
               PROVE  key[new[i]] <= key[new[j]]
  BY DEF InOrder, new
<1>4. \A k, l \in 1 .. Len(list) : k <= l => key[list[k]] <= key[list[l]]
  BY DEF InOrder, Keyed
<1>5. CASE j < at
  BY <1>1, <1>2, <1>3, <1>4, <1>5, SMTT(30)
<1>6. CASE j = at
  <2>1. i \in 1 .. at - 1 /\ i \in 1 .. Len(list) /\ new[i] = list[i] /\ new[j] = t
    BY <1>1, <1>2, <1>3, <1>6
  <2> QED BY <1>1, <2>1 DEF Keyed
<1>7. CASE j > at
  <2>1. j - 1 \in 1 .. Len(list) /\ new[j] = list[j - 1] BY <1>1, <1>2, <1>3, <1>7
  <2>2. CASE i < at
    <3>1. i \in 1 .. Len(list) /\ new[i] = list[i] /\ i <= j - 1 BY <1>1, <1>2, <1>3, <1>7, <2>2
    <3> QED BY <1>4, <2>1, <3>1
  <2>3. CASE i = at
    <3>1. at \in 1 .. Len(list) /\ new[i] = t /\ at <= j - 1 BY <1>1, <1>2, <1>3, <1>7, <2>3
    <3>2. key[t] < key[list[at]] /\ key[list[at]] <= key[list[j - 1]] BY <1>1, <1>4, <2>1, <3>1
    <3> QED BY <2>1, <3>1, <3>2 DEF Keyed
  <2>4. CASE i > at
    <3>1. i - 1 \in 1 .. Len(list) /\ new[i] = list[i - 1] /\ i - 1 <= j - 1 BY <1>1, <1>2, <1>3, <2>4
    <3> QED BY <1>4, <2>1, <3>1
  <2> QED BY <1>1, <1>2, <2>2, <2>3, <2>4
<1> QED BY <1>1, <1>2, <1>5, <1>6, <1>7

LEMMA UnlinkOrder ==
  ASSUME NEW S, NEW list \in Seq(S), NEW key, NEW t, Contains(list, t), InOrder(list, key)
  PROVE  InOrder(Unlink(list, t), key)
<1> DEFINE new == Unlink(list, t)
<1>1. PICK at \in 1 .. Len(list) :
        /\ list[at] = t /\ Len(new) = Len(list) - 1
        /\ \A i \in 1 .. Len(list) - 1 : new[i] = IF i < at THEN list[i] ELSE list[i + 1]
  BY UnlinkPlace
<1>2. Len(list) \in Nat BY LenProperties
<1> HIDE DEF new
<1>3. SUFFICES ASSUME NEW i \in 1 .. Len(new), NEW j \in 1 .. Len(new), i < j
               PROVE  key[new[i]] <= key[new[j]]
  BY DEF InOrder, new
<1> DEFINE Old(k) == IF k < at THEN k ELSE k + 1
<1>4. /\ Old(i) \in 1 .. Len(list) /\ Old(j) \in 1 .. Len(list) /\ Old(i) < Old(j)
      /\ new[i] = list[Old(i)] /\ new[j] = list[Old(j)]
  BY <1>1, <1>2, <1>3
<1> QED BY <1>4 DEF InOrder

LEMMA TailOrder ==
  ASSUME NEW S, NEW list \in Seq(S), NEW key, list # <<>>, Keyed(list, key), InOrder(list, key)
  PROVE  /\ InOrder(Tail(list), key)
         /\ \A x : Contains(list, x) => key[Head(list)] <= key[x]
<1>1. /\ Len(list) \in Nat /\ Len(list) >= 1 /\ Head(list) = list[1]
      /\ Len(Tail(list)) = Len(list) - 1
      /\ \A i \in 1 .. Len(Tail(list)) : Tail(list)[i] = list[i + 1]
  BY HeadTailProperties, EmptySeq
<1>2. ASSUME NEW i \in 1 .. Len(Tail(list)), NEW j \in 1 .. Len(Tail(list)), i < j
      PROVE  key[Tail(list)[i]] <= key[Tail(list)[j]]
  <2>1. i + 1 \in 1 .. Len(list) /\ j + 1 \in 1 .. Len(list) /\ i + 1 < j + 1 BY <1>1, <1>2
  <2> QED BY <1>1, <2>1 DEF InOrder
<1>3. ASSUME NEW x, Contains(list, x) PROVE key[Head(list)] <= key[x]
  <2>1. PICK i \in 1 .. Len(list) : list[i] = x BY <1>3 DEF Contains
  <2>2. 1 \in 1 .. Len(list) /\ key[list[1]] \in Int BY <1>1 DEF Keyed
  <2> QED BY <1>1, <2>1, <2>2 DEF InOrder
<1> QED BY <1>2, <1>3 DEF InOrder

\* Order depends on the keys of the items only, and on how they compare.
LEMMA KeysOrder ==
  ASSUME NEW list, NEW key, NEW newkey, InOrder(list, key),
         \A i, j \in 1 .. Len(list) :
           key[list[i]] <= key[list[j]] => newkey[list[i]] <= newkey[list[j]]
  PROVE  InOrder(list, newkey)
BY DEF InOrder

---------------------------------------------------------------------------
(* The kernel's list operations *)

USE ContextAssumption

LEMMA InsertToTCBRdyListTypes ==
  ASSUME ListTypes, NEW t \in Tasks, InsertToTCBRdyList(t)
  PROVE  ListTypes'
BY InsertByType DEF ListTypes, InsertToTCBRdyList, States

LEMMA RemoveDelayListTypes ==
  ASSUME DelayTypes, NEW t \in Tasks, RemoveDelayList(t)
  PROVE  DelayTypes'
<1>1. Unlink(DlyList, t) \in Seq(Tasks)
  BY UnlinkType DEF DelayTypes
<1>2. INVALID_VALUE \in Int
  BY ConfigAssumption
<1>. QED
  BY <1>1, <1>2 DEF DelayTypes, RemoveDelayList

LEMMA LinkDelayTypes ==
  ASSUME DelayTypes, NEW t \in Tasks, NEW ticks \in Int, LinkDelay(t, ticks)
  PROVE  DelayTypes'
<1>. DEFINE d == [delay EXCEPT ![t] = ticks]
<1>1. d \in [Tasks -> Int]
  BY DEF DelayTypes
<1>. HIDE DEF d
<1>2. InsertBy(DlyList, d, t) \in Seq(Tasks)
  BY InsertByType DEF DelayTypes
<1>3. delay' = d /\ DlyList' = InsertBy(DlyList, d, t)
  BY DEF LinkDelay, d
<1>. QED
  BY <1>1, <1>2, <1>3 DEF DelayTypes

\* The lists of the events after t entered that of e, or left its own.
LEMMA LinkEventTypes ==
  ASSUME EventTypes, NEW e \in Events, NEW t \in Tasks, LinkEvent(e, t)
  PROVE  /\ eventID' \in [Tasks -> Events \cup {NULL}]
         /\ eventTCBList' \in [Events -> Seq(Tasks)]
         /\ stalePrev' \subseteq stalePrev
<1>1. Append(eventTCBList[e], t) \in Seq(Tasks) /\ InsertBy(eventTCBList[e], prio, t) \in Seq(Tasks)
  BY InsertByType, AppendProperties DEF EventTypes
<1>. QED
  BY <1>1 DEF LinkEvent, Relinked, EventTypes

LEMMA RemoveEventWaittingListTypes ==
  ASSUME EventTypes, NEW t \in Tasks, RemoveEventWaittingList(t)
  PROVE  /\ eventID' \in [Tasks -> Events \cup {NULL}]
         /\ eventTCBList' \in [Events -> Seq(Tasks)]
<1>1. \A e \in Events : Unlink(eventTCBList[e], t) \in Seq(Tasks)
  BY UnlinkType DEF EventTypes
<1>. QED
  BY <1>1 DEF RemoveEventWaittingList, EventTypes

LEMMA PostBodyTypes ==
  ASSUME ListTypes, DelayTypes, EventTypes, NEW e \in Events, NEW n \in U16,
         NEW mail \in Mails \cup {NULL}, PostBody(e, n, mail)
  PROVE  ListTypes' /\ DelayTypes' /\ EventTypes'
<1>1. CASE eventTCBList[e] = <<>>
  <2>1. /\ eventCounter' = [eventCounter EXCEPT ![e] = n] /\ eventPtr' = [eventPtr EXCEPT ![e] = mail]
        /\ UNCHANGED <<eventTCBList, stalePrev, eventID, pmail, delayVars, listVars>>
    BY <1>1 DEF PostBody
  <2>2. EventTypes'
    BY <2>1 DEF EventTypes
  <2>. QED
    BY <2>1, <2>2 DEF ListTypes, DelayTypes, listVars, delayVars
<1>2. CASE eventTCBList[e] # <<>>
  <2>1. PICK t \in Tasks : t = Head(eventTCBList[e]) /\ Tail(eventTCBList[e]) \in Seq(Tasks)
    BY <1>2, HeadTailType DEF EventTypes
  <2>2. (n - 1) % 65536 \in U16
    BY WordType
  <2>3. /\ eventTCBList' = [eventTCBList EXCEPT ![e] = Tail(@)]
        /\ eventID' = [eventID EXCEPT ![t] = NULL]
        /\ eventCounter' = [eventCounter EXCEPT ![e] = IF Consumes(e) THEN (n - 1) % 65536 ELSE n]
        /\ eventPtr' = [eventPtr EXCEPT ![e] = IF ecb[e].eventType = "MBOX" THEN NULL ELSE mail]
        /\ IF delay[t] # INVALID_VALUE THEN RemoveDelayList(t) ELSE UNCHANGED delayVars
        /\ IF t = TCBRunning
           THEN state' = [state EXCEPT ![t] = "RUNNING"] /\ UNCHANGED <<TCBRdy, TaskSchedReq>>
           ELSE InsertToTCBRdyList(t)
    BY <1>2, <2>1 DEF PostBody
  <2>4. pmail' = [pmail EXCEPT ![t] = IF ecb[e].eventType = "MBOX" THEN mail
                                      ELSE IF Consumes(e) THEN EVENT ELSE @]
        /\ UNCHANGED stalePrev
    BY <1>2, <2>1 DEF PostBody
  <2>5. ListTypes'
    BY <2>1, <2>3, InsertToTCBRdyListTypes, SMTT(30) DEF ListTypes, States
  <2>6. DelayTypes'
    BY <2>3, RemoveDelayListTypes DEF DelayTypes, delayVars
  <2>7. EventTypes'
    BY <2>1, <2>2, <2>3, <2>4, SMTT(30) DEF EventTypes
  <2>. QED
    BY <2>5, <2>6, <2>7
<1>. QED
  BY <1>1, <1>2

LEMMA PostSemBodyTypes ==
  ASSUME ListTypes, DelayTypes, EventTypes, NEW e \in Events, PostSemBody(e)
  PROVE  ListTypes' /\ DelayTypes' /\ EventTypes'
<1>1. eventCounter[e] \in U16 /\ eventPtr[e] \in Mails \cup {NULL}
  BY DEF EventTypes
<1>2. (eventCounter[e] + 1) % 65536 \in U16
  BY <1>1, WordType
<1>3. PostBody(e, (eventCounter[e] + 1) % 65536, eventPtr[e])
  BY DEF PostSemBody
<1>. QED
  BY <1>1, <1>2, <1>3, PostBodyTypes

LEMMA PostMailBodyTypes ==
  ASSUME ListTypes, DelayTypes, EventTypes, NEW e \in Events, NEW mail \in Mails \cup {NULL},
         PostMailBody(e, mail)
  PROVE  ListTypes' /\ DelayTypes' /\ EventTypes'
<1>1. 1 \in U16
  BY Words
<1>2. PostBody(e, 1, mail)
  BY DEF PostMailBody
<1>. QED
  BY <1>1, <1>2, PostBodyTypes

LEMMA ScheduleTypes ==
  ASSUME ListTypes, RunTypes, NEW level, NEW nesting, Schedule(level, nesting)
  PROVE  ListTypes' /\ TCBNext' \in Tasks /\ PendSV' \in BOOLEAN
<1>1. CASE TCBRdy = <<>> \/ TCBRunning # TCBNext \/ level > 1 \/ nesting > 0
  BY <1>1 DEF Schedule, ListTypes, RunTypes, listVars
<1>2. CASE ~(TCBRdy = <<>> \/ TCBRunning # TCBNext \/ level > 1 \/ nesting > 0)
  <2>1. Head(TCBRdy) \in Tasks /\ Tail(TCBRdy) \in Seq(Tasks)
    BY <1>2, HeadTailType DEF ListTypes
  <2>2. Unlink(InsertBy(TCBRdy, prio, TCBRunning), Head(TCBRdy)) \in Seq(Tasks)
    BY InsertByType, UnlinkType DEF ListTypes, RunTypes
  <2>. QED
    BY <1>2, <2>1, <2>2 DEF Schedule, ListTypes, RunTypes, States
<1>. QED
  BY <1>1, <1>2

---------------------------------------------------------------------------
(* Control *)

\* A group of variables a step leaves alone keeps its types.
LEMMA KeptTypes ==
  /\ ListTypes /\ UNCHANGED listVars => ListTypes'
  /\ DelayTypes /\ UNCHANGED delayVars => DelayTypes'
  /\ EventTypes /\ UNCHANGED eventVars => EventTypes'
  /\ PoolTypes /\ UNCHANGED poolVars => PoolTypes'
  /\ RunTypes /\ UNCHANGED runVars => RunTypes'
  /\ ReqTypes /\ UNCHANGED reqVars => ReqTypes'
BY DEF ListTypes, DelayTypes, EventTypes, PoolTypes, RunTypes, ReqTypes,
       listVars, delayVars, eventVars, poolVars, runVars, reqVars

\* The step moves task t to label in its call, and no other task.
Moves(t, label) ==
  /\ After(t)' = label
  /\ \A u \in Tasks \ {t} : After(u)' = After(u)

LEMMA SectionMoves ==
  ASSUME ControlTypes, NEW t \in Tasks, NEW next \in ReturnLabels, LockedSection(t, next)
  PROVE  ControlTypes' /\ Moves(t, next)
<1>1. t \in Contexts /\ next \in Labels /\ "respond" \in Labels
  BY DEF Contexts, Labels, ReturnLabels, UnlockLabels
<1>2. ControlTypes'
  BY <1>1 DEF ControlTypes, LockedSection, Goto
<1>3. Moves(t, next)
  BY <1>1 DEF Moves, After, ControlTypes, LockedSection, Goto, Contexts, UnlockLabels, ReturnLabels,
              TaskArgLabels, EventArgLabels
<1>. QED
  BY <1>2, <1>3

LEMMA GotoMoves ==
  ASSUME ControlTypes, NEW t \in Tasks, NEW label \in Labels \ (UnlockLabels \cup {"clear"}),
         Goto(t, label), ret' = ret, OSSchedLock' \in Nat
  PROVE  ControlTypes' /\ Moves(t, label)
<1>1. t \in Contexts
  BY DEF Contexts
<1>2. ControlTypes'
  BY <1>1 DEF ControlTypes, Goto
<1>3. Moves(t, label)
  BY <1>1 DEF Moves, After, ControlTypes, Goto, Contexts
<1>. QED
  BY <1>2, <1>3

\* The arguments still suit a task that a step did not move.
LEMMA CallKept ==
  ASSUME CallTypes, UNCHANGED callVars, \A u \in Tasks : After(u)' = After(u)
  PROVE  CallTypes'
BY DEF CallTypes, callVars, ArgOK

\* A step of t that leaves it with arguments that suit its next step.
LEMMA CallMoved ==
  ASSUME CallTypes, NEW t \in Tasks, NEW label, Moves(t, label),
         DOMAIN arg' = Tasks, \A u \in Tasks \ {t} : arg'[u] = arg[u],
         credit' \in [Events -> Int], Fits(label, arg'[t])
  PROVE  CallTypes'
<1>1. \A u \in Tasks \ {t} : ArgOK(u)'
  BY DEF CallTypes, Moves, ArgOK
<1>. QED
  BY <1>1 DEF CallTypes, Moves, ArgOK

LEMMA CallMovedWithArg ==
  ASSUME CallTypes, NEW t \in Tasks, NEW label, Moves(t, label), NEW on, NEW val,
         WithArg(t, on, val), credit' \in [Events -> Int], Fits(label, [on |-> on, val |-> val])
  PROVE  CallTypes'
<1>1. DOMAIN arg' = Tasks /\ arg'[t] = [on |-> on, val |-> val]
      /\ \A u \in Tasks \ {t} : arg'[u] = arg[u]
  BY DEF CallTypes, WithArg
<1>. QED
  BY <1>1, CallMoved

LEMMA CallMovedSame ==
  ASSUME CallTypes, NEW t \in Tasks, NEW label, Moves(t, label), arg' = arg,
         credit' \in [Events -> Int], Fits(label, arg[t])
  PROVE  CallTypes'
BY CallMoved DEF CallTypes

\* Back in its own code a task is asked nothing, after a fault neither.
LEMMA NothingAsked ==
  ASSUME NEW a
  PROVE  Fits("app", a) /\ Fits("fault", a)
BY DEF Fits, TaskArgLabels, EventArgLabels

\* What a task finds in its arguments at a step of its call.
LEMMA ArgAt ==
  ASSUME CallTypes, NEW t \in Tasks, NEW label, At(t, label), label \notin UnlockLabels \cup {"clear"}
  PROVE  Fits(label, arg[t])
BY DEF CallTypes, ArgOK, After, At

---------------------------------------------------------------------------
(* OsSchedUnlock *)

\* While a head is being moved out of the delay list, the list has one.
HeadThere == Disposing => DlyList # <<>>

\* A step inside the unlock, or out of it, does not move the call.
LEMMA UnlockMoves ==
  ASSUME ControlTypes, CallTypes, LockInv, NEW c \in Contexts, pc[c] \in UnlockLabels \cup {"clear"},
         NEW label, label = ret[c] \/ label \in UnlockLabels \cup {"clear"}, Goto(c, label),
         ret' = ret, OSSchedLock' \in Nat, UNCHANGED callVars
  PROVE  ControlTypes' /\ CallTypes'
<1>1. ret[c] \in Labels /\ "clear" \in Labels
  BY DEF ControlTypes, Labels, ReturnLabels
<1>2. ControlTypes'
  BY <1>1 DEF ControlTypes, Goto, Labels
<1>3. ASSUME NEW u \in Tasks PROVE After(u)' = After(u)
  <2>1. u \in Contexts /\ pc'[u] = IF u = c THEN label ELSE pc[u]
    BY DEF ControlTypes, Goto, Contexts
  <2>2. ret[u] \notin UnlockLabels \cup {"clear"}
    BY DEF LockInv, ReturnLabels, UnlockLabels, TaskArgLabels, EventArgLabels
  <2>. QED
    BY <2>1, <2>2 DEF After
<1>. QED
  BY <1>2, <1>3, CallKept

LEMMA DisposeHeadTypes ==
  ASSUME TypeOK, LockInv, NEW c \in Contexts, DisposeHead(c)
  PROVE  TypeOK'
<1>1. PICK t \in Tasks : t = Head(DlyList)
  BY HeadTailType DEF DisposeHead, Expired, TypeOK, DelayTypes
<1>2. DelayTypes'
  <2>1. INVALID_VALUE \in Int
    BY ConfigAssumption
  <2>. QED
    BY <1>1, <2>1 DEF DisposeHead, TypeOK, DelayTypes
<1>3. EventTypes'
  <2>1. IF eventID[t] # NULL THEN RemoveEventWaittingList(t) ELSE UNCHANGED <<eventID, eventTCBList>>
    BY <1>1 DEF DisposeHead
  <2>2. UNCHANGED <<pmail, eventCounter, eventPtr, stalePrev>>
    BY DEF DisposeHead
  <2>3. /\ eventID' \in [Tasks -> Events \cup {NULL}]
        /\ eventTCBList' \in [Events -> Seq(Tasks)]
    BY <2>1, RemoveEventWaittingListTypes DEF TypeOK, EventTypes
  <2>. QED
    BY <2>2, <2>3 DEF TypeOK, EventTypes
<1>4. ControlTypes' /\ CallTypes'
  <2>1. pc[c] \in UnlockLabels /\ ret' = ret /\ OSSchedLock' = OSSchedLock /\ UNCHANGED callVars
    BY DEF DisposeHead, At, UnlockLabels
  <2>2. Goto(c, "unlink") \/ Goto(c, "tickunlink")
    BY DEF DisposeHead
  <2>3. OSSchedLock \in Nat
    BY DEF LockInv
  <2>. QED
    BY <2>1, <2>2, <2>3, UnlockMoves DEF TypeOK, UnlockLabels
<1>. QED
  BY <1>2, <1>3, <1>4, KeptTypes DEF DisposeHead, TypeOK

LEMMA UnlinkHeadTypes ==
  ASSUME TypeOK, LockInv, HeadThere, NEW c \in Contexts, UnlinkHead(c)
  PROVE  TypeOK'
<1>1. DlyList # <<>>
  BY DEF HeadThere, Disposing, UnlinkHead, At
<1>2. PICK t \in Tasks : t = Head(DlyList)
  BY <1>1, HeadTailType DEF TypeOK, DelayTypes
<1>3. DelayTypes'
  BY <1>1, HeadTailType DEF UnlinkHead, TypeOK, DelayTypes
<1>4. ListTypes'
  BY <1>2, InsertToTCBRdyListTypes DEF UnlinkHead, TypeOK
<1>5. ControlTypes' /\ CallTypes'
  <2>1. pc[c] \in UnlockLabels /\ ret' = ret /\ OSSchedLock' = OSSchedLock /\ UNCHANGED callVars
    BY DEF UnlinkHead, At, UnlockLabels
  <2>2. Goto(c, "dispose") \/ Goto(c, "tickdispose")
    BY DEF UnlinkHead
  <2>3. OSSchedLock \in Nat
    BY DEF LockInv
  <2>. QED
    BY <2>1, <2>2, <2>3, UnlockMoves DEF TypeOK, UnlockLabels
<1>. QED
  BY <1>3, <1>4, <1>5, KeptTypes DEF UnlinkHead, TypeOK

\* The pending posts are requests, and the cell taken is one of them.
LEMMA RespondCellTypes ==
  ASSUME TypeOK, LockInv, NEW c \in Contexts, RespondCell(c)
  PROVE  TypeOK'
<1>1. PICK cell \in Requests : cell = Head(ServiceReq) /\ Tail(ServiceReq) \in Seq(Requests)
                               /\ Len(Tail(ServiceReq)) <= CFG_MAX_SERVICE_REQUEST
  BY HeadTailProperties, ConfigAssumption DEF RespondCell, TypeOK, ReqTypes
<1>2. cell.id \in Events /\ cell.arg \in Mails \cup {NULL}
  BY DEF Requests
<1>3. ListTypes' /\ DelayTypes' /\ EventTypes'
  <2>1. PostSemBody(cell.id) \/ PostMailBody(cell.id, cell.arg) \/ NothingPosted
    BY <1>1 DEF RespondCell
  <2>. QED
    BY <1>2, <2>1, PostSemBodyTypes, PostMailBodyTypes, KeptTypes DEF NothingPosted, TypeOK
<1>4. ReqTypes'
  BY <1>1 DEF RespondCell, TypeOK, ReqTypes
<1>5. ControlTypes' /\ CallTypes'
  BY DEF RespondCell, TypeOK, ControlTypes, CallTypes, ArgOK, After, callVars
<1>. QED
  BY <1>3, <1>4, <1>5, KeptTypes DEF RespondCell, TypeOK

LEMMA UnlockScheduleTypes ==
  ASSUME TypeOK, LockInv, NEW c \in Contexts, UnlockSchedule(c)
  PROVE  TypeOK'
<1>1. ListTypes' /\ RunTypes'
  <2>1. Schedule(OSSchedLock, InHandler) \/ UNCHANGED <<listVars, TCBNext, PendSV>>
    BY DEF UnlockSchedule
  <2>2. CASE Schedule(OSSchedLock, InHandler)
    BY <2>2, ScheduleTypes DEF UnlockSchedule, TypeOK, RunTypes
  <2>3. CASE UNCHANGED <<listVars, TCBNext, PendSV>>
    BY <2>3, KeptTypes DEF UnlockSchedule, TypeOK, RunTypes
  <2>. QED
    BY <2>1, <2>2, <2>3
<1>2. ControlTypes' /\ CallTypes'
  <2>1. pc[c] \in UnlockLabels /\ ret' = ret /\ OSSchedLock' = OSSchedLock /\ UNCHANGED callVars
        /\ Goto(c, "clear")
    BY DEF UnlockSchedule, At, UnlockLabels
  <2>2. OSSchedLock \in Nat
    BY DEF LockInv
  <2>. QED
    BY <2>1, <2>2, UnlockMoves DEF TypeOK
<1>. QED
  BY <1>1, <1>2, KeptTypes DEF UnlockSchedule, TypeOK

LEMMA UnlockStepTypes ==
  ASSUME TypeOK, LockInv, LockInv', HeadThere, NEW c \in Contexts, UnlockStep(c)
  PROVE  TypeOK'
<1>1. ASSUME \/ BeginUnlock(c) \/ EndDispose(c) \/ ClearTimeReq(c) \/ EndCells(c) \/ ClearIsrReq(c)
             \/ ClearLock(c)
      PROVE  TypeOK'
  <2>1. /\ pc[c] \in UnlockLabels \cup {"clear"}
        /\ ret' = ret /\ OSSchedLock' \in Nat /\ UNCHANGED callVars
        /\ \E label \in UnlockLabels \cup {ret[c]} : Goto(c, label)
    BY <1>1 DEF BeginUnlock, EndDispose, ClearTimeReq, EndCells, ClearIsrReq, ClearLock, At,
                UnlockLabels, LockInv
  <2>2. ControlTypes' /\ CallTypes'
    BY <2>1, UnlockMoves DEF TypeOK
  <2>3. ReqTypes'
    BY <1>1 DEF BeginUnlock, EndDispose, ClearTimeReq, EndCells, ClearIsrReq, ClearLock, TypeOK,
                ReqTypes, reqVars
  <2>4. UNCHANGED <<listVars, delayVars, eventVars, poolVars, runVars>>
    BY <1>1 DEF BeginUnlock, EndDispose, ClearTimeReq, EndCells, ClearIsrReq, ClearLock
  <2>. QED
    BY <2>2, <2>3, <2>4, KeptTypes DEF TypeOK
<1>. QED
  BY <1>1, DisposeHeadTypes, UnlinkHeadTypes, RespondCellTypes, UnlockScheduleTypes DEF UnlockStep

---------------------------------------------------------------------------
(* The exceptions *)

LEMMA TickEnterTypes ==
  ASSUME TypeOK, LockInv, LockInv', TickEnter
  PROVE  TypeOK'
<1>1. DelayTypes'
  <2>1. CASE DlyList = <<>>
    BY <2>1 DEF TickEnter, TypeOK, DelayTypes
  <2>2. CASE DlyList # <<>>
    <3>1. PICK h \in Tasks : h = Head(DlyList)
      BY <2>2, HeadTailType DEF TypeOK, DelayTypes
    <3>2. \/ delay' = [delay EXCEPT ![h] = IF @ > 1 THEN @ - 1 ELSE 0]
          \/ delay' = [t \in Tasks |-> IF Contains(DlyList, t) /\ delay[h] > 0
                                       THEN delay[t] - 1 ELSE delay[t]]
      BY <2>2, <3>1 DEF TickEnter
    <3>. QED
      BY <3>1, <3>2 DEF TickEnter, TypeOK, DelayTypes
  <2>. QED
    BY <2>1, <2>2
<1>2. ListTypes' /\ ReqTypes'
  BY DEF TickEnter, TypeOK, ListTypes, ReqTypes
<1>3. ControlTypes' /\ CallTypes'
  <2>1. UNCHANGED <<pc, ret, callVars>>
        \/ (UNCHANGED <<ret, callVars>> /\ (Goto(SysTick, "tickdispose") \/ Goto(SysTick, "respond")))
    BY DEF TickEnter
  <2>2. OSSchedLock' \in Nat
    BY DEF LockInv
  <2>3. \A u \in Tasks : After(u)' = After(u)
    BY <2>1, ContextAssumption DEF After, Goto, TypeOK, ControlTypes, Contexts
  <2>4. SysTick \in Contexts /\ {"tickdispose", "respond"} \subseteq Labels
    BY DEF Contexts, Labels, UnlockLabels
  <2>5. ControlTypes'
    BY <2>1, <2>2, <2>4 DEF TypeOK, ControlTypes, Goto
  <2>. QED
    BY <2>1, <2>3, <2>5, CallKept DEF TypeOK
<1>. QED
  BY <1>1, <1>2, <1>3, KeptTypes DEF TickEnter, TypeOK

LEMMA IsrKeepsCall ==
  ASSUME ControlTypes, UNCHANGED arg, CallTypes, credit' \in [Events -> Int],
         \A u \in Tasks : pc'[u] = pc[u] /\ ret'[u] = ret[u]
  PROVE  CallTypes'
BY DEF CallTypes, ArgOK, After

LEMMA IsrPostTypes ==
  ASSUME TypeOK, LockInv, LockInv', NEW type \in {"SEM", "MBOX"}, NEW e \in Events,
         NEW mail \in Mails \cup {NULL},
         \/ type = "SEM" /\ IsrPost(type, e, mail, PostSemBody(e))
         \/ type = "MBOX" /\ IsrPost(type, e, mail, PostMailBody(e, mail))
  PROVE  TypeOK'
<1>1. UNCHANGED <<poolVars, runVars, TimeReq, arg>>
  BY DEF IsrPost
<1>2. ListTypes' /\ DelayTypes' /\ EventTypes'
  <2>1. PostSemBody(e) \/ PostMailBody(e, mail) \/ NothingPosted
    BY DEF IsrPost
  <2>. QED
    BY <2>1, PostSemBodyTypes, PostMailBodyTypes, KeptTypes DEF NothingPosted, TypeOK
<1>3. ReqTypes'
  <2>. DEFINE cell == [type |-> type, id |-> e, arg |-> mail]
  <2>1. cell \in Requests
    BY DEF Requests
  <2>. HIDE DEF cell
  <2>2. \/ UNCHANGED <<ServiceReq, IsrReq>>
        \/ /\ Len(ServiceReq) < CFG_MAX_SERVICE_REQUEST
           /\ ServiceReq' = Append(ServiceReq, cell) /\ IsrReq' = TRUE
    BY DEF IsrPost, cell
  <2>3. /\ Append(ServiceReq, cell) \in Seq(Requests)
        /\ Len(Append(ServiceReq, cell)) = Len(ServiceReq) + 1 /\ Len(ServiceReq) \in Nat
    BY <2>1, AppendProperties, LenProperties DEF TypeOK, ReqTypes
  <2>4. CFG_MAX_SERVICE_REQUEST \in Nat
    BY ConfigAssumption
  <2>5. IsrReq' \in BOOLEAN /\ TimeReq' \in BOOLEAN
    BY <1>1, <2>2 DEF TypeOK, ReqTypes
  <2>6. ServiceReq' \in Seq(Requests)
    BY <2>2, <2>3 DEF TypeOK, ReqTypes
  <2>7. Len(ServiceReq') <= CFG_MAX_SERVICE_REQUEST
    BY <2>2, <2>3, <2>4 DEF TypeOK, ReqTypes
  <2>. QED
    BY <2>5, <2>6, <2>7 DEF ReqTypes
<1>4. /\ Goto(Isr, "isrexit") \/ Goto(Isr, "respond")
      /\ ret' = ret \/ ret' = [ret EXCEPT ![Isr] = "isrexit"]
      /\ credit' = credit \/ credit' = [credit EXCEPT ![e] = @ + 1]
  BY DEF IsrPost, LockedSection
<1>5. Isr \in Contexts /\ {"isrexit", "respond"} \subseteq Labels
  BY DEF Contexts, Labels, UnlockLabels
<1>6. ControlTypes'
  BY <1>4, <1>5 DEF TypeOK, ControlTypes, Goto, LockInv
<1>7. CallTypes'
  <2>1. \A u \in Tasks : pc'[u] = pc[u] /\ ret'[u] = ret[u]
    BY <1>4, ContextAssumption DEF TypeOK, ControlTypes, Goto, Contexts
  <2>2. credit' \in [Events -> Int]
    BY <1>4 DEF TypeOK, CallTypes
  <2>. QED
    BY <1>1, <2>1, <2>2, IsrKeepsCall DEF TypeOK
<1>. QED
  BY <1>1, <1>2, <1>3, <1>6, <1>7, KeptTypes DEF TypeOK

LEMMA InterruptTypes ==
  ASSUME TypeOK, LockInv, LockInv', Interrupt
  PROVE  TypeOK'
<1>1. PICK e \in Events : isr_PostSem(e) \/ \E mail \in Mails : isr_PostMail(e, mail)
  BY DEF Interrupt
<1>2. CASE isr_PostSem(e)
  BY <1>2, IsrPostTypes DEF isr_PostSem
<1>3. ASSUME NEW mail \in Mails, isr_PostMail(e, mail) PROVE TypeOK'
  BY <1>3, IsrPostTypes DEF isr_PostMail
<1>. QED
  BY <1>1, <1>2, <1>3

LEMMA HandlerTypes ==
  ASSUME TypeOK, LockInv, IsrExit \/ PendSV_Handler
  PROVE  TypeOK'
<1>1. CASE IsrExit
  <2>1. ListTypes' /\ RunTypes'
    <3>1. Schedule(OSSchedLock + 1, 0) \/ UNCHANGED <<listVars, TCBNext, PendSV>>
      BY <1>1 DEF IsrExit
    <3>2. CASE Schedule(OSSchedLock + 1, 0)
      BY <1>1, <3>2, ScheduleTypes DEF IsrExit, TypeOK, RunTypes
    <3>3. CASE UNCHANGED <<listVars, TCBNext, PendSV>>
      BY <1>1, <3>3, KeptTypes DEF IsrExit, TypeOK, RunTypes
    <3>. QED
      BY <3>1, <3>2, <3>3
  <2>2. Goto(Isr, "off") /\ UNCHANGED <<OSSchedLock, ret, arg, credit>>
    BY <1>1 DEF IsrExit, callVars
  <2>3. ControlTypes'
    BY <2>2 DEF TypeOK, ControlTypes, Goto, Contexts, Labels
  <2>4. \A u \in Tasks : pc'[u] = pc[u] /\ ret'[u] = ret[u]
    BY <2>2, ContextAssumption DEF TypeOK, ControlTypes, Goto, Contexts
  <2>5. CallTypes'
    BY <2>2, <2>4, IsrKeepsCall DEF TypeOK, CallTypes
  <2>. QED
    BY <1>1, <2>1, <2>3, <2>5, KeptTypes DEF IsrExit, TypeOK
<1>2. CASE PendSV_Handler
  <2>1. RunTypes' /\ ControlTypes' /\ UNCHANGED <<pc, ret, arg, credit>>
    BY <1>2 DEF PendSV_Handler, TypeOK, RunTypes, ControlTypes, callVars
  <2>2. CallTypes'
    BY <2>1, IsrKeepsCall DEF TypeOK, CallTypes
  <2>. QED
    BY <1>2, <2>1, <2>2, KeptTypes DEF PendSV_Handler, TypeOK
<1>. QED
  BY <1>1, <1>2

---------------------------------------------------------------------------
(* The task and time API *)

\* The call goes on behind its unlocked tests with arguments that suit it.
LEMMA ContinueTypes ==
  ASSUME TypeOK, NEW t \in Tasks, NEW label \in Labels \ (UnlockLabels \cup {"clear"}),
         NEW on, NEW val, Fits(label, [on |-> on, val |-> val]), Continue(t, label, on, val)
  PROVE  TypeOK'
<1>1. ControlTypes' /\ Moves(t, label)
  BY GotoMoves DEF Continue, TypeOK, ControlTypes
<1>2. CallTypes'
  BY <1>1, CallMovedWithArg DEF Continue, TypeOK, CallTypes
<1>. QED
  BY <1>1, <1>2, KeptTypes DEF Continue, TypeOK

\* A locked section ends a call, or goes on with what it leaves in arg.
LEMMA SectionTypes ==
  ASSUME ControlTypes, CallTypes, NEW t \in Tasks, NEW next \in ReturnLabels,
         LockedSection(t, next), arg' = arg, credit' \in [Events -> Int], Fits(next, arg[t])
  PROVE  ControlTypes' /\ CallTypes'
BY SectionMoves, CallMovedSame

LEMMA FaultTypes ==
  ASSUME TypeOK, NEW t \in Tasks, Fault(t), UNCHANGED callVars
  PROVE  TypeOK'
<1>1. ControlTypes' /\ Moves(t, "fault")
  BY GotoMoves DEF Fault, TypeOK, ControlTypes, Labels, UnlockLabels
<1>2. CallTypes'
  BY <1>1, CallMovedSame, NothingAsked DEF TypeOK, CallTypes, callVars
<1>. QED
  BY <1>1, <1>2, KeptTypes DEF Fault, TypeOK

\* The tick counts, time-outs and priorities of calls are numbers in range.
LEMMA CallValues ==
  /\ Delays \subseteq 0 .. INVALID_VALUE - 1 /\ Timeouts \subseteq 0 .. INVALID_VALUE - 1
  /\ 0 .. INVALID_VALUE - 1 \subseteq Nat /\ 0 \in 0 .. INVALID_VALUE - 1
  /\ Priorities \subseteq 0 .. CFG_LOWEST_PRIO /\ Ids \subseteq Tasks
BY TaskApiAssumption, EventApiAssumption, ConfigAssumption

LEMMA CoSchedLockTypes ==
  ASSUME TypeOK, LockInv, LockInv', NEW t \in Tasks, CoSchedLock(t) \/ CoSchedUnlock(t)
  PROVE  TypeOK'
<1>1. t \in Contexts /\ pc[t] = "app" /\ arg' = arg /\ credit' = credit
  BY DEF CoSchedLock, CoSchedUnlock, Calls, At, Contexts, callVars
<1>2. \/ UNCHANGED <<pc, ret>>
      \/ Goto(t, "respond") /\ ret' = [ret EXCEPT ![t] = "app"]
  BY DEF CoSchedLock, CoSchedUnlock
<1>3. ControlTypes' /\ Moves(t, "app")
  <2>1. "respond" \in Labels /\ "app" \in ReturnLabels /\ OSSchedLock' \in Nat
    BY DEF Labels, UnlockLabels, ReturnLabels, LockInv
  <2>2. ControlTypes'
    BY <1>1, <1>2, <2>1 DEF TypeOK, ControlTypes, Goto
  <2>3. Moves(t, "app")
    BY <1>1, <1>2 DEF Moves, After, TypeOK, ControlTypes, Goto, Contexts, UnlockLabels
  <2>. QED
    BY <2>2, <2>3
<1>4. CallTypes'
  BY <1>1, <1>3, CallMovedSame, NothingAsked DEF TypeOK, CallTypes
<1>. QED
  BY <1>3, <1>4, KeptTypes DEF CoSchedLock, CoSchedUnlock, TypeOK

LEMMA CoTickDelayTypes ==
  ASSUME TypeOK, NEW t \in Tasks, NEW ticks \in Delays, CoTickDelay(t, ticks)
  PROVE  TypeOK'
<1>1. ListTypes'
  BY DEF CoTickDelay, Block, TypeOK, ListTypes, States
<1>2. DelayTypes'
  BY CallValues, LinkDelayTypes DEF CoTickDelay, TypeOK
<1>3. ControlTypes' /\ CallTypes'
  BY SectionTypes, NothingAsked DEF CoTickDelay, TypeOK, CallTypes, callVars, ReturnLabels
<1>. QED
  BY <1>1, <1>2, <1>3, KeptTypes DEF CoTickDelay, TypeOK

LEMMA ResetBodyTypes ==
  ASSUME TypeOK, NEW t \in Tasks, ResetBody(t)
  PROVE  TypeOK'
<1>1. Fits("reset", arg[t]) /\ arg' = arg /\ credit' = credit
  BY ArgAt DEF ResetBody, TypeOK, UnlockLabels, callVars
<1>2. PICK u \in Tasks : u = arg[t].on
  BY <1>1 DEF Fits, TaskArgLabels
<1>3. arg[t].val \in Nat /\ INVALID_VALUE \in Nat
  BY <1>1, ConfigAssumption DEF Fits
<1>4. CASE ~Contains(DlyList, u)
  BY <1>2, <1>4, FaultTypes DEF ResetBody
<1>5. CASE Contains(DlyList, u)
  <2>. DEFINE rest == Unlink(DlyList, u)
              d == [delay EXCEPT ![u] = IF arg[t].val = 0 THEN INVALID_VALUE ELSE arg[t].val]
  <2>1. rest \in Seq(Tasks)
    BY UnlinkType DEF TypeOK, DelayTypes
  <2>2. d \in [Tasks -> Int]
    BY <1>3 DEF TypeOK, DelayTypes
  <2>3. /\ delay' = d
        /\ \/ DlyList' = rest /\ InsertToTCBRdyList(u)
           \/ DlyList' = InsertBy(rest, d, u) /\ Block(u) /\ UNCHANGED TCBRdy
        /\ LockedSection(t, "app")
        /\ UNCHANGED <<eventVars, poolVars, runVars, reqVars>>
    BY <1>2, <1>5 DEF ResetBody
  <2>. HIDE DEF rest, d
  <2>4. DelayTypes'
    BY <2>1, <2>2, <2>3, InsertByType DEF DelayTypes
  <2>5. ListTypes'
    BY <2>3, InsertToTCBRdyListTypes DEF TypeOK, Block, ListTypes, States
  <2>6. ControlTypes' /\ CallTypes'
    BY <1>1, <2>3, SectionTypes, NothingAsked DEF TypeOK, CallTypes, ReturnLabels
  <2>. QED
    BY <2>3, <2>4, <2>5, <2>6, KeptTypes DEF TypeOK
<1>. QED
  BY <1>4, <1>5

\* Creating a task.
LEMMA CreateTaskTypes ==
  ASSUME TypeOK, NEW t \in Tasks, NEW p \in Priorities, NEW waiting \in BOOLEAN,
         CreateTask(t, p, waiting)
  PROVE  TypeOK'
<1>1. p \in 0 .. CFG_LOWEST_PRIO
  BY CallValues
<1>2. CASE FreeTCB = <<>>
  <2>1. LockedSection(t, "app") /\ UNCHANGED <<FreeTCB, arg, credit>>
    BY <1>2 DEF CreateTask
  <2>2. ControlTypes' /\ CallTypes'
    BY <2>1, SectionTypes, NothingAsked DEF TypeOK, CallTypes, ReturnLabels
  <2>3. PoolTypes'
    BY <2>1 DEF CreateTask, TypeOK, PoolTypes
  <2>. QED
    BY <2>2, <2>3, KeptTypes DEF CreateTask, TypeOK
<1>3. CASE FreeTCB # <<>>
  <2>1. PICK u \in Tasks : u = Head(FreeTCB) /\ Tail(FreeTCB) \in Seq(Tasks)
    BY <1>3, HeadTailType DEF TypeOK, PoolTypes
  <2>2. PICK next \in {"init", "initwait"} : LockedSection(t, next)
    BY <1>3 DEF CreateTask
  <2>3. FreeTCB' = Tail(FreeTCB) /\ WithArg(t, u, p) /\ credit' = credit
    BY <1>3, <2>1 DEF CreateTask
  <2>4. Fits(next, [on |-> u, val |-> p])
    BY <1>1 DEF Fits, EventArgLabels
  <2>5. ControlTypes' /\ Moves(t, next)
    BY <2>2, SectionMoves DEF TypeOK, ReturnLabels, TaskArgLabels
  <2>6. CallTypes'
    BY <2>3, <2>4, <2>5, CallMovedWithArg DEF TypeOK, CallTypes
  <2>7. PoolTypes'
    BY <2>1, <2>3 DEF CreateTask, TypeOK, PoolTypes
  <2>. QED
    BY <2>5, <2>6, <2>7, KeptTypes DEF CreateTask, TypeOK
<1>. QED
  BY <1>2, <1>3

LEMMA InitTaskTypes ==
  ASSUME TypeOK, LockInv', NEW t \in Tasks, InitTask(t)
  PROVE  TypeOK'
<1>1. /\ t \in Contexts /\ pc[t] \in {"init", "initwait"}
      /\ UNCHANGED <<DlyList, eventCounter, eventPtr, eventTCBList, FreeTCB, ecb, FreeEventList,
                     runVars, reqVars, arg, credit>>
  BY DEF InitTask, At, Contexts, callVars
<1>2. arg[t].on \in Tasks /\ arg[t].val \in 0 .. CFG_LOWEST_PRIO
  BY <1>1 DEF TypeOK, CallTypes, ArgOK, After, Fits, UnlockLabels, TaskArgLabels
<1>3. PICK u \in Tasks, p \in [Tasks -> 0 .. CFG_LOWEST_PRIO] :
        u = arg[t].on /\ p = [prio EXCEPT ![u] = arg[t].val]
  BY <1>2 DEF TypeOK, PoolTypes
<1>4. /\ prio' = p
      /\ delay' = [delay EXCEPT ![u] = INVALID_VALUE]
      /\ eventID' = [eventID EXCEPT ![u] = NULL]
      /\ pmail' = [pmail EXCEPT ![u] = NULL]
      /\ stalePrev' \subseteq stalePrev
  BY <1>3 DEF InitTask
<1>5. /\ state' = [state EXCEPT ![u] = "READY"] \/ state' = [state EXCEPT ![u] = "WAITING"]
      /\ TCBRdy' = InsertBy(TCBRdy, p, u) \/ TCBRdy' = TCBRdy
      /\ \/ TaskSchedReq' = (TaskSchedReq \/ TCBRdy = <<>> \/ p[u] < p[Head(TCBRdy)])
         \/ TaskSchedReq' = TaskSchedReq
      /\ \/ pc' = [pc EXCEPT ![u] = "app", ![t] = "respond"] /\ ret' = [ret EXCEPT ![t] = "app"]
         \/ pc' = [pc EXCEPT ![u] = "app", ![t] = "app"] /\ ret' = [ret EXCEPT ![t] = "app"]
         \/ pc' = [pc EXCEPT ![u] = "app", ![t] = "app"] /\ ret' = ret
  BY <1>3 DEF InitTask
<1>6. PoolTypes'
  BY <1>1, <1>4 DEF TypeOK, PoolTypes
<1>7. DelayTypes' /\ EventTypes'
  <2>1. INVALID_VALUE \in Int
    BY ConfigAssumption
  <2>. QED
    BY <1>1, <1>4, <2>1 DEF TypeOK, DelayTypes, EventTypes
<1>8. ListTypes'
  <2>1. InsertBy(TCBRdy, p, u) \in Seq(Tasks)
    BY InsertByType DEF TypeOK, ListTypes
  <2>. QED
    BY <1>5, <2>1 DEF TypeOK, ListTypes, States
<1>9. ControlTypes' /\ CallTypes'
  <2>1. u \in Contexts /\ {"app", "respond"} \subseteq Labels /\ "app" \in ReturnLabels
        /\ OSSchedLock' \in Nat
    BY DEF Contexts, Labels, UnlockLabels, ReturnLabels, LockInv
  <2>2. ControlTypes'
    BY <1>1, <1>5, <2>1 DEF TypeOK, ControlTypes
  <2>3. After(t)' = "app"
    BY <1>1, <1>5, <2>1 DEF After, TypeOK, ControlTypes, UnlockLabels
  <2>4. \A w \in Tasks \ {t} : After(w)' = "app" \/ After(w)' = After(w)
    BY <1>1, <1>5, <2>1 DEF After, TypeOK, ControlTypes, UnlockLabels, Contexts
  <2>5. \A w \in Tasks : ArgOK(w)'
    BY <1>1, <2>3, <2>4, NothingAsked DEF TypeOK, CallTypes, ArgOK
  <2>. QED
    BY <1>1, <2>2, <2>5 DEF TypeOK, CallTypes
<1>. QED
  BY <1>1, <1>6, <1>7, <1>8, <1>9, KeptTypes DEF TypeOK

\* Deleting, suspending and awaking.
LEMMA DeleteBodyTypes ==
  ASSUME TypeOK, NEW t \in Tasks, DeleteBody(t)
  PROVE  TypeOK'
<1>1. Fits("delete", arg[t]) /\ arg' = arg /\ credit' = credit
  BY ArgAt DEF DeleteBody, TypeOK, UnlockLabels, callVars
<1>2. PICK u \in Tasks : u = arg[t].on
  BY <1>1 DEF Fits, TaskArgLabels
<1>3. CASE Fault(t)
  BY <1>1, <1>3, FaultTypes DEF callVars
<1>4. CASE ~Fault(t)
  <2>1. /\ TCBRdy' = IF state[u] = "READY" THEN Unlink(TCBRdy, u) ELSE TCBRdy
        /\ RemoveDelayList(u) \/ UNCHANGED delayVars
        /\ RemoveEventWaittingList(u) \/ UNCHANGED <<eventID, eventTCBList>>
        /\ state' = [state EXCEPT ![u] = "DORMANT"]
        /\ TaskSchedReq' = TRUE
        /\ FreeTCB' = <<u>> \o FreeTCB
        /\ LockedSection(t, "app")
        /\ UNCHANGED <<pmail, eventCounter, eventPtr, stalePrev, prio, ecb, FreeEventList, runVars,
                       reqVars>>
    BY <1>2, <1>4 DEF DeleteBody
  <2>2. ListTypes'
    BY <2>1, UnlinkType DEF TypeOK, ListTypes, States
  <2>3. DelayTypes'
    BY <2>1, RemoveDelayListTypes, KeptTypes DEF TypeOK
  <2>4. EventTypes'
    <3>1. /\ eventID' \in [Tasks -> Events \cup {NULL}]
          /\ eventTCBList' \in [Events -> Seq(Tasks)]
      BY <2>1, RemoveEventWaittingListTypes DEF TypeOK, EventTypes
    <3>. QED
      BY <2>1, <3>1 DEF TypeOK, EventTypes
  <2>5. PoolTypes'
    BY <2>1, PushType DEF TypeOK, PoolTypes
  <2>6. ControlTypes' /\ CallTypes'
    BY <1>1, <2>1, SectionTypes, NothingAsked DEF TypeOK, CallTypes, ReturnLabels
  <2>. QED
    BY <2>1, <2>2, <2>3, <2>4, <2>5, <2>6, KeptTypes DEF TypeOK
<1>. QED
  BY <1>3, <1>4

LEMMA SuspendAwakeTypes ==
  ASSUME TypeOK, NEW t \in Tasks, SuspendBody(t) \/ AwakeBody(t)
  PROVE  TypeOK'
<1>1. PICK label \in {"suspend", "awake"} : At(t, label)
  BY DEF SuspendBody, AwakeBody
<1>2. Fits(label, arg[t]) /\ arg' = arg /\ credit' = credit
  BY <1>1, ArgAt DEF SuspendBody, AwakeBody, TypeOK, UnlockLabels, callVars
<1>3. PICK u \in Tasks : u = arg[t].on
  BY <1>2 DEF Fits, TaskArgLabels
<1>4. CASE Fault(t)
  BY <1>2, <1>4, FaultTypes DEF callVars
<1>5. CASE ~Fault(t)
  <2>1. LockedSection(t, "app") /\ UNCHANGED <<delayVars, eventVars, poolVars, runVars, reqVars>>
    BY <1>5 DEF SuspendBody, AwakeBody
  <2>2. ListTypes'
    <3>1. CASE SuspendBody(t)
      <4>1. /\ TCBRdy' = IF u # TCBRunning THEN Unlink(TCBRdy, u) ELSE TCBRdy
            /\ TaskSchedReq' = (TaskSchedReq \/ u = TCBRunning)
            /\ state' = [state EXCEPT ![u] = "WAITING"]
        BY <1>3, <1>5, <3>1 DEF SuspendBody
      <4>. QED
        BY <4>1, UnlinkType DEF TypeOK, ListTypes, States
    <3>2. CASE AwakeBody(t)
      BY <1>3, <1>5, <3>2, InsertToTCBRdyListTypes DEF AwakeBody, TypeOK
    <3>. QED
      BY <3>1, <3>2
  <2>3. ControlTypes' /\ CallTypes'
    BY <1>2, <2>1, SectionTypes, NothingAsked DEF TypeOK, CallTypes, ReturnLabels
  <2>. QED
    BY <2>1, <2>2, <2>3, KeptTypes DEF TypeOK
<1>. QED
  BY <1>4, <1>5

\* Changing a priority.
LEMMA CoSetPriorityTypes ==
  ASSUME TypeOK, NEW t \in Tasks, NEW u \in Tasks, NEW p \in Priorities, CoSetPriority(t, u, p)
  PROVE  TypeOK'
<1>1. p \in 0 .. CFG_LOWEST_PRIO
  BY CallValues
<1>2. PICK label \in {"reorder", "resched", "unwait", "app"} :
        Goto(t, label) /\ (label = "unwait" => eventID[u] # NULL)
  BY DEF CoSetPriority, InPrioList
<1>3. eventID[u] \in Events \cup {NULL}
  BY DEF TypeOK, EventTypes
<1>4. Fits(label, [on |-> u, val |-> eventID[u]])
  BY <1>2, <1>3 DEF Fits, TaskArgLabels, EventArgLabels
<1>5. ControlTypes' /\ Moves(t, label)
  BY <1>2, GotoMoves DEF CoSetPriority, TypeOK, ControlTypes, Labels, UnlockLabels, TaskArgLabels
<1>6. CallTypes'
  <2>1. WithArg(t, u, eventID[u]) /\ credit' \in [Events -> Int]
    BY DEF CoSetPriority, TypeOK, CallTypes
  <2>. QED
    BY <1>3, <1>4, <1>5, <2>1, CallMovedWithArg DEF TypeOK
<1>7. PoolTypes'
  BY <1>1 DEF CoSetPriority, TypeOK, PoolTypes
<1>. QED
  BY <1>5, <1>6, <1>7, KeptTypes DEF CoSetPriority, TypeOK

LEMMA ReorderTypes ==
  ASSUME TypeOK, NEW t \in Tasks, ReorderBody(t) \/ RescheduleBody(t)
  PROVE  TypeOK'
<1>1. arg' = arg /\ credit' = credit
  BY DEF ReorderBody, RescheduleBody, callVars
<1>2. CASE Fault(t)
  BY <1>1, <1>2, FaultTypes DEF callVars
<1>3. CASE ~Fault(t)
  <2>1. LockedSection(t, "app") /\ UNCHANGED <<delayVars, eventVars, poolVars, runVars, reqVars>>
    BY <1>3 DEF ReorderBody, RescheduleBody
  <2>2. ListTypes'
    <3>1. CASE RescheduleBody(t)
      BY <3>1 DEF RescheduleBody, TypeOK, ListTypes
    <3>2. CASE ReorderBody(t)
      <4>1. Fits("reorder", arg[t])
        BY <3>2, ArgAt DEF ReorderBody, TypeOK, UnlockLabels
      <4>2. PICK u \in Tasks : u = arg[t].on
        BY <4>1 DEF Fits, TaskArgLabels
      <4>3. PICK rest \in Seq(Tasks) : rest = Unlink(TCBRdy, u)
        BY UnlinkType DEF TypeOK, ListTypes
      <4>4. /\ state' = [state EXCEPT ![u] = "READY"]
            /\ TCBRdy' = InsertBy(rest, prio, u)
            /\ TaskSchedReq' = (TaskSchedReq \/ rest = <<>> \/ prio[u] < prio[Head(rest)])
        BY <1>3, <3>2, <4>2, <4>3 DEF ReorderBody
      <4>. QED
        BY <4>4, InsertByType DEF TypeOK, ListTypes, States
    <3>. QED
      BY <3>1, <3>2
  <2>3. ControlTypes' /\ CallTypes'
    BY <1>1, <2>1, SectionTypes, NothingAsked DEF TypeOK, CallTypes, ReturnLabels
  <2>. QED
    BY <2>1, <2>2, <2>3, KeptTypes DEF TypeOK
<1>. QED
  BY <1>2, <1>3

LEMMA UnwaitTypes ==
  ASSUME TypeOK, NEW t \in Tasks, UnwaitBody(t)
  PROVE  TypeOK'
<1>1. Fits("unwait", arg[t]) /\ arg' = arg /\ credit' = credit
  BY ArgAt DEF UnwaitBody, TypeOK, UnlockLabels, callVars
<1>2. PICK u \in Tasks : u = arg[t].on
  BY <1>1 DEF Fits, TaskArgLabels
<1>3. CASE Fault(t)
  BY <1>1, <1>3, FaultTypes DEF callVars
<1>4. CASE ~Fault(t)
  <2>1. /\ RemoveEventWaittingList(u)
        /\ Goto(t, "rewait")
        /\ UNCHANGED <<listVars, delayVars, pmail, eventCounter, eventPtr, stalePrev, poolVars, runVars,
                       reqVars, OSSchedLock, ret>>
    BY <1>2, <1>4 DEF UnwaitBody
  <2>2. EventTypes'
    BY <2>1, RemoveEventWaittingListTypes DEF TypeOK, EventTypes
  <2>3. ControlTypes' /\ Moves(t, "rewait")
    BY <2>1, GotoMoves DEF TypeOK, ControlTypes, Labels, UnlockLabels, TaskArgLabels
  <2>4. Fits("rewait", arg[t])
    BY <1>1 DEF Fits, TaskArgLabels, EventArgLabels
  <2>5. CallTypes'
    BY <1>1, <2>3, <2>4, CallMovedSame DEF TypeOK, CallTypes
  <2>. QED
    BY <2>1, <2>2, <2>3, <2>5, KeptTypes DEF TypeOK
<1>. QED
  BY <1>3, <1>4

LEMMA RewaitTypes ==
  ASSUME TypeOK, NEW t \in Tasks, RewaitBody(t)
  PROVE  TypeOK'
<1>1. Fits("rewait", arg[t]) /\ arg' = arg /\ credit' = credit
  BY ArgAt DEF RewaitBody, TypeOK, UnlockLabels, callVars
<1>2. PICK u \in Tasks, e \in Events : u = arg[t].on /\ e = arg[t].val
  BY <1>1 DEF Fits, TaskArgLabels
<1>3. CASE Fault(t)
  BY <1>1, <1>3, FaultTypes DEF callVars
<1>4. CASE ~Fault(t)
  <2>1. /\ LinkEvent(e, u) /\ Block(u)
        /\ LockedSection(t, "app")
        /\ UNCHANGED <<TCBRdy, delayVars, pmail, eventCounter, eventPtr, poolVars, runVars, reqVars>>
    BY <1>2, <1>4 DEF RewaitBody
  <2>2. EventTypes'
    BY <2>1, LinkEventTypes DEF TypeOK, EventTypes
  <2>3. ListTypes'
    BY <2>1 DEF Block, TypeOK, ListTypes, States
  <2>4. ControlTypes' /\ CallTypes'
    BY <1>1, <2>1, SectionTypes, NothingAsked DEF TypeOK, CallTypes, ReturnLabels
  <2>. QED
    BY <2>1, <2>2, <2>3, <2>4, KeptTypes DEF TypeOK
<1>. QED
  BY <1>3, <1>4

LEMMA TaskCallTypes ==
  ASSUME TypeOK, LockInv, LockInv', NEW t \in Tasks, TaskCall(t)
  PROVE  TypeOK'
<1>1. ASSUME NEW u \in Ids, NEW ticks \in Delays, CoResetTaskDelayTick(t, u, ticks)
      PROVE  TypeOK'
  <2>1. Fits("reset", [on |-> u, val |-> ticks])
    BY CallValues DEF Fits, EventArgLabels
  <2>. QED
    BY <1>1, <2>1, ContinueTypes DEF CoResetTaskDelayTick, Labels, UnlockLabels, TaskArgLabels
<1>2. ASSUME NEW u \in Ids, CoDelTask(t, u) \/ CoSuspendTask(t, u) \/ CoAwakeTask(t, u)
      PROVE  TypeOK'
  <2>1. PICK label \in {"delete", "suspend", "awake"} : Continue(t, label, u, 0)
    BY <1>2 DEF CoDelTask, CoSuspendTask, CoAwakeTask
  <2>2. Fits(label, [on |-> u, val |-> 0])
    BY CallValues DEF Fits, EventArgLabels
  <2>. QED
    BY <2>1, <2>2, ContinueTypes DEF Labels, UnlockLabels, TaskArgLabels
<1>3. ASSUME NEW u \in Ids, NEW p \in Priorities, CoSetPriority(t, u, p) PROVE TypeOK'
  BY <1>3, CallValues, CoSetPriorityTypes
<1>. QED
  BY <1>1, <1>2, <1>3, CoSchedLockTypes, CoTickDelayTypes, CreateTaskTypes DEF TaskCall

LEMMA TaskStepTypes ==
  ASSUME TypeOK, LockInv', NEW t \in Tasks, TaskStep(t)
  PROVE  TypeOK'
BY ResetBodyTypes, InitTaskTypes, DeleteBodyTypes, SuspendAwakeTypes, ReorderTypes, UnwaitTypes,
   RewaitTypes
DEF TaskStep

---------------------------------------------------------------------------
(* The event, semaphore and mailbox API *)

\* Creating an event.
LEMMA CoCreateEventTypes ==
  ASSUME TypeOK, NEW t \in Tasks, NEW new \in NewEvents, CoCreateEvent(t, new)
  PROVE  TypeOK'
<1>1. CASE FreeEventList = <<>>
  <2>1. LockedSection(t, "app") /\ UNCHANGED <<FreeEventList, arg, credit>>
    BY <1>1 DEF CoCreateEvent
  <2>2. ControlTypes' /\ CallTypes'
    BY <2>1, SectionTypes, NothingAsked DEF TypeOK, CallTypes, ReturnLabels
  <2>3. PoolTypes'
    BY <2>1 DEF CoCreateEvent, TypeOK, PoolTypes
  <2>. QED
    BY <2>2, <2>3, KeptTypes DEF CoCreateEvent, TypeOK
<1>2. CASE FreeEventList # <<>>
  <2>1. PICK e \in Events : e = Head(FreeEventList) /\ Tail(FreeEventList) \in Seq(Events)
    BY <1>2, HeadTailType DEF TypeOK, PoolTypes
  <2>2. /\ FreeEventList' = Tail(FreeEventList) /\ WithArg(t, e, new) /\ credit' = credit
        /\ LockedSection(t, "initevent")
    BY <1>2, <2>1 DEF CoCreateEvent
  <2>3. Fits("initevent", [on |-> e, val |-> new])
    BY DEF Fits, TaskArgLabels
  <2>4. ControlTypes' /\ Moves(t, "initevent")
    BY <2>2, SectionMoves DEF TypeOK, ReturnLabels, EventArgLabels
  <2>5. CallTypes'
    BY <2>2, <2>3, <2>4, CallMovedWithArg DEF TypeOK, CallTypes
  <2>6. PoolTypes'
    BY <2>1, <2>2 DEF CoCreateEvent, TypeOK, PoolTypes
  <2>. QED
    BY <2>4, <2>5, <2>6, KeptTypes DEF CoCreateEvent, TypeOK
<1>. QED
  BY <1>1, <1>2

LEMMA InitEventTypes ==
  ASSUME TypeOK, NEW t \in Tasks, InitEvent(t)
  PROVE  TypeOK'
<1>1. Fits("initevent", arg[t]) /\ arg' = arg
  BY ArgAt DEF InitEvent, TypeOK, UnlockLabels
<1>2. PICK e \in Events, new \in NewEvents : e = arg[t].on /\ new = arg[t].val
  BY <1>1 DEF Fits, EventArgLabels
<1>3. /\ new.eventType \in {"SEM", "MBOX"} /\ new.eventSortType \in {"FIFO", "PRIO"}
      /\ new.initialEventCounter \in U16 /\ new.eventCounter \in U16
  BY EventApiAssumption
<1>4. 0 \in U16 /\ new.eventCounter \in Int
  <2>1. 0 \in U16
    BY Words
  <2>. QED
    BY <1>3, <2>1, WordType
<1>9. CASE Len(eventTCBList[e]) > 1
  BY <1>1, <1>2, <1>9, FaultTypes DEF InitEvent, callVars
<1>10. SUFFICES ASSUME ~(Len(eventTCBList[e]) > 1) PROVE TypeOK'
  BY <1>9
<1>5. PoolTypes'
  <2>1. [eventType |-> new.eventType, eventSortType |-> new.eventSortType,
         initialEventCounter |-> IF new.eventType = "SEM" THEN new.initialEventCounter
                                 ELSE ecb[e].initialEventCounter]
        \in [eventType : {"SEM", "MBOX", "INVALID"}, eventSortType : {"FIFO", "PRIO"},
             initialEventCounter : U16]
    BY <1>3 DEF TypeOK, PoolTypes
  <2>. QED
    BY <1>2, <1>10, <2>1 DEF InitEvent, TypeOK, PoolTypes
<1>6. EventTypes'
  <2>1. (IF new.eventType = "SEM" THEN new.eventCounter ELSE 0) \in U16
    BY <1>3, <1>4
  <2>2. /\ eventCounter' = [eventCounter EXCEPT ![e] =
             IF new.eventType = "SEM" THEN new.eventCounter ELSE 0]
        /\ eventPtr' = [eventPtr EXCEPT ![e] = NULL]
        /\ eventTCBList' = [eventTCBList EXCEPT ![e] = <<>>]
        /\ UNCHANGED <<eventID, pmail, stalePrev>>
    BY <1>2, <1>10 DEF InitEvent
  <2>. QED
    BY <2>1, <2>2 DEF TypeOK, EventTypes
<1>7. ControlTypes' /\ Moves(t, "app")
  BY <1>2, <1>10, GotoMoves DEF InitEvent, TypeOK, ControlTypes, Labels, UnlockLabels
<1>8. CallTypes'
  <2>1. (IF new.eventType = "SEM" THEN new.eventCounter ELSE 0) \in Int
    BY <1>3, <1>4
  <2>2. credit' \in [Events -> Int]
    BY <1>2, <1>10, <2>1 DEF InitEvent, TypeOK, CallTypes
  <2>. QED
    BY <1>1, <1>7, <2>2, CallMovedSame, NothingAsked DEF TypeOK
<1>. QED
  BY <1>2, <1>5, <1>6, <1>7, <1>8, <1>10, KeptTypes DEF InitEvent, TypeOK

\* Deleting an event.
LEMMA DeleteEventTypes ==
  ASSUME TypeOK, LockInv', NEW t \in Tasks, NEW e \in Events, NEW type,
         DeleteUnused(t, e, type) \/ DeleteAnyway(t, e, type)
  PROVE  TypeOK'
<1>1. CASE DeleteUnused(t, e, type)
  <2>1. Fits("release", [on |-> e, val |-> 0])
    BY DEF Fits, TaskArgLabels
  <2>. QED
    BY <1>1, <2>1, ContinueTypes DEF DeleteUnused, Labels, UnlockLabels, EventArgLabels
<1>2. CASE DeleteAnyway(t, e, type)
  <2>1. Fits("delwaiter", [on |-> e, val |-> 0])
    BY DEF Fits, TaskArgLabels
  <2>2. Goto(t, "delwaiter") /\ WithArg(t, e, 0) /\ ret' = ret /\ credit' = credit
    BY <1>2 DEF DeleteAnyway
  <2>3. OSSchedLock' \in Nat
    BY DEF LockInv
  <2>4. ControlTypes' /\ Moves(t, "delwaiter")
    BY <2>2, <2>3, GotoMoves DEF TypeOK, Labels, UnlockLabels, EventArgLabels
  <2>5. CallTypes'
    BY <2>1, <2>2, <2>4, CallMovedWithArg DEF TypeOK, CallTypes
  <2>. QED
    BY <1>2, <2>4, <2>5, KeptTypes DEF DeleteAnyway, TypeOK
<1>. QED
  BY <1>1, <1>2

LEMMA DeleteWaiterTypes ==
  ASSUME TypeOK, LockInv', NEW t \in Tasks, DeleteWaiter(t)
  PROVE  TypeOK'
<1>1. Fits("delwaiter", arg[t]) /\ arg' = arg /\ credit' = credit /\ pc[t] = "delwaiter"
  BY ArgAt DEF DeleteWaiter, At, TypeOK, UnlockLabels, callVars
<1>2. PICK e \in Events : e = arg[t].on
  BY <1>1 DEF Fits, EventArgLabels
<1>3. OSSchedLock' \in Nat /\ t \in Contexts
  BY DEF LockInv, Contexts
<1>4. CASE eventTCBList[e] # <<>>
  <2>1. PICK w \in Tasks : w = Head(eventTCBList[e]) /\ Tail(eventTCBList[e]) \in Seq(Tasks)
    BY <1>4, HeadTailType DEF TypeOK, EventTypes
  <2>2. /\ RemoveDelayList(w) \/ UNCHANGED delayVars
        /\ eventTCBList' = [eventTCBList EXCEPT ![e] = Tail(@)]
        /\ eventID' = [eventID EXCEPT ![w] = NULL]
        /\ InsertToTCBRdyList(w)
        /\ UNCHANGED <<OSSchedLock, pc, ret>>
    BY <1>2, <1>4, <2>1 DEF DeleteWaiter
  <2>3. DelayTypes' /\ ListTypes'
    BY <2>2, RemoveDelayListTypes, InsertToTCBRdyListTypes, KeptTypes DEF TypeOK
  <2>4. EventTypes'
    <3>1. Len(eventTCBList[e]) > 1 => eventTCBList[e][2] \in Tasks
      BY LenProperties DEF TypeOK, EventTypes
    <3>2. stalePrev' \subseteq Tasks
      BY <1>2, <1>4, <3>1 DEF DeleteWaiter, LeavesBackLink, TypeOK, EventTypes
    <3>. QED
      BY <2>1, <2>2, <3>2 DEF DeleteWaiter, TypeOK, EventTypes
  <2>5. ControlTypes' /\ CallTypes'
    BY <1>1, <2>2 DEF TypeOK, ControlTypes, CallTypes, ArgOK, After
  <2>. QED
    BY <2>3, <2>4, <2>5, KeptTypes DEF DeleteWaiter, TypeOK
<1>5. CASE eventTCBList[e] = <<>>
  <2>1. /\ UNCHANGED <<listVars, delayVars, eventTCBList, stalePrev, eventID>>
        /\ \/ Goto(t, "respond") /\ ret' = [ret EXCEPT ![t] = "release"]
           \/ Goto(t, "release") /\ ret' = ret
    BY <1>2, <1>5 DEF DeleteWaiter
  <2>2. {"respond", "release"} \subseteq Labels /\ "release" \in ReturnLabels
    BY DEF Labels, UnlockLabels, ReturnLabels, EventArgLabels
  <2>3. ControlTypes'
    BY <1>3, <2>1, <2>2 DEF TypeOK, ControlTypes, Goto
  <2>4. Moves(t, "release")
    BY <1>1, <1>3, <2>1 DEF Moves, After, TypeOK, ControlTypes, Goto, Contexts, UnlockLabels
  <2>5. Fits("release", arg[t])
    BY <1>1 DEF Fits, TaskArgLabels, EventArgLabels
  <2>6. CallTypes'
    BY <1>1, <2>4, <2>5, CallMovedSame DEF TypeOK, CallTypes
  <2>7. EventTypes'
    BY <2>1 DEF DeleteWaiter, TypeOK, EventTypes
  <2>. QED
    BY <2>1, <2>3, <2>6, <2>7, KeptTypes DEF DeleteWaiter, TypeOK
<1>. QED
  BY <1>4, <1>5

LEMMA RetireECBTypes ==
  ASSUME TypeOK, LockInv', NEW t \in Tasks, RetireECB(t)
  PROVE  TypeOK'
<1>1. Fits("release", arg[t]) /\ arg' = arg /\ credit' = credit
  BY ArgAt DEF RetireECB, TypeOK, UnlockLabels, callVars
<1>2. PICK e \in Events : e = arg[t].on
  BY <1>1 DEF Fits, EventArgLabels
<1>3. PoolTypes'
  <2>1. ecb' = [ecb EXCEPT ![e].eventType = "INVALID"] /\ UNCHANGED <<prio, FreeTCB, FreeEventList>>
    BY <1>2 DEF RetireECB
  <2>. QED
    BY <2>1 DEF TypeOK, PoolTypes
<1>4. Goto(t, "free") /\ UNCHANGED <<OSSchedLock, ret>>
  BY DEF RetireECB
<1>5. ControlTypes' /\ Moves(t, "free")
  BY <1>4, GotoMoves DEF TypeOK, ControlTypes, Labels, UnlockLabels, EventArgLabels
<1>6. Fits("free", arg[t])
  BY <1>1 DEF Fits, TaskArgLabels, EventArgLabels
<1>7. CallTypes'
  BY <1>1, <1>5, <1>6, CallMovedSame DEF TypeOK, CallTypes
<1>. QED
  BY <1>3, <1>5, <1>7, KeptTypes DEF RetireECB, TypeOK

LEMMA ReleaseECBTypes ==
  ASSUME TypeOK, NEW t \in Tasks, ReleaseECB(t)
  PROVE  TypeOK'
<1>1. Fits("free", arg[t]) /\ arg' = arg /\ credit' = credit
  BY ArgAt DEF ReleaseECB, TypeOK, UnlockLabels, callVars
<1>2. PICK e \in Events : e = arg[t].on
  BY <1>1 DEF Fits, EventArgLabels
<1>3. PoolTypes'
  <2>1. FreeEventList' = <<e>> \o FreeEventList /\ UNCHANGED <<prio, FreeTCB, ecb>>
    BY <1>2 DEF ReleaseECB
  <2>2. FreeEventList' \in Seq(Events)
    BY <2>1, PushType DEF TypeOK, PoolTypes
  <2>. QED
    BY <2>1, <2>2 DEF TypeOK, PoolTypes
<1>4. ControlTypes' /\ CallTypes'
  BY <1>1, SectionTypes, NothingAsked DEF ReleaseECB, TypeOK, CallTypes, ReturnLabels
<1>. QED
  BY <1>3, <1>4, KeptTypes DEF ReleaseECB, TypeOK

\* Blocking on an event, and going on when woken.
LEMMA BlockBodyTypes ==
  ASSUME TypeOK, NEW t \in Tasks, BlockBody(t)
  PROVE  TypeOK'
<1>1. PICK label \in {"semblock", "mailblock"} :
        At(t, label) /\ LockedSection(t, IF label = "semblock" THEN "semwoken" ELSE "mailwoken")
  BY DEF BlockBody, At
<1>2. Fits(label, arg[t]) /\ arg' = arg /\ credit' = credit
  BY <1>1, ArgAt DEF BlockBody, TypeOK, UnlockLabels, callVars
<1>3. PICK e \in Events, n \in Nat : e = arg[t].on /\ n = arg[t].val
  BY <1>2, CallValues DEF Fits, EventArgLabels
<1>4. /\ LinkEvent(e, t) /\ Block(t)
      /\ LinkDelay(t, n) \/ UNCHANGED delayVars
      /\ UNCHANGED <<TCBRdy, pmail, eventCounter, eventPtr, poolVars, runVars, reqVars>>
  BY <1>3 DEF BlockBody
<1>5. EventTypes'
  BY <1>4, LinkEventTypes DEF TypeOK, EventTypes
<1>6. DelayTypes'
  BY <1>4, LinkDelayTypes, KeptTypes DEF TypeOK
<1>7. ListTypes'
  BY <1>4 DEF Block, TypeOK, ListTypes, States
<1>8. ControlTypes' /\ CallTypes'
  <2>1. PICK next \in {"semwoken", "mailwoken"} : LockedSection(t, next)
    BY <1>1
  <2>2. Fits(next, arg[t])
    BY <1>2 DEF Fits, TaskArgLabels, EventArgLabels
  <2>. QED
    BY <1>2, <2>1, <2>2, SectionTypes DEF TypeOK, CallTypes, ReturnLabels, EventArgLabels
<1>. QED
  BY <1>4, <1>5, <1>6, <1>7, <1>8, KeptTypes DEF TypeOK

LEMMA WokenTypes ==
  ASSUME TypeOK, NEW t \in Tasks, Woken(t)
  PROVE  TypeOK'
<1>1. ControlTypes' /\ Moves(t, "app")
  BY GotoMoves DEF Woken, TypeOK, ControlTypes, Labels, UnlockLabels
<1>2. credit' \in [Events -> Int]
  BY DEF Woken, Credited, TypeOK, CallTypes
<1>3. CallTypes'
  BY <1>1, <1>2, CallMovedSame, NothingAsked DEF Woken, TypeOK
<1>4. EventTypes'
  BY DEF Woken, TypeOK, EventTypes
<1>. QED
  BY <1>1, <1>3, <1>4, KeptTypes DEF Woken, TypeOK

\* Semaphores.
LEMMA CoPendSemTypes ==
  ASSUME TypeOK, NEW t \in Tasks, NEW e \in Events, NEW timeout \in Timeouts, CoPendSem(t, e, timeout)
  PROVE  TypeOK'
<1>1. PICK next \in {"app", "semblock"} : LockedSection(t, next)
  BY DEF CoPendSem
<1>2. ControlTypes' /\ Moves(t, next)
  BY <1>1, SectionMoves DEF TypeOK, ReturnLabels, EventArgLabels
<1>3. Fits(next, [on |-> e, val |-> timeout])
  BY CallValues DEF Fits, TaskArgLabels
<1>4. credit' \in [Events -> Int]
  BY DEF CoPendSem, Credited, TypeOK, CallTypes
<1>5. CallTypes'
  BY <1>2, <1>3, <1>4, CallMovedWithArg DEF CoPendSem, TypeOK
<1>6. EventTypes'
  <2>1. eventCounter[e] \in U16
    BY DEF TypeOK, EventTypes
  <2>2. eventCounter[e] > 0 => eventCounter[e] - 1 \in U16
    <3>1. \A n \in U16 : n > 0 => n - 1 \in U16
      BY Words
    <3>. QED
      BY <2>1, <3>1
  <2>. QED
    BY <2>2, SMTT(30) DEF CoPendSem, TypeOK, EventTypes
<1>. QED
  BY <1>2, <1>5, <1>6, KeptTypes DEF CoPendSem, TypeOK

LEMMA CoAcceptSemTypes ==
  ASSUME TypeOK, NEW t \in Tasks, NEW e \in Events, CoAcceptSem(t, e)
  PROVE  TypeOK'
<1>1. PICK next \in {"app", "decrement"} : LockedSection(t, next)
  BY DEF CoAcceptSem
<1>2. ControlTypes' /\ Moves(t, next)
  BY <1>1, SectionMoves DEF TypeOK, ReturnLabels, EventArgLabels
<1>3. Fits(next, [on |-> e, val |-> 0])
  BY DEF Fits, TaskArgLabels
<1>4. CallTypes'
  BY <1>2, <1>3, CallMovedWithArg DEF CoAcceptSem, TypeOK, CallTypes
<1>. QED
  BY <1>2, <1>4, KeptTypes DEF CoAcceptSem, TypeOK

LEMMA DecrementTypes ==
  ASSUME TypeOK, NEW t \in Tasks, Decrement(t)
  PROVE  TypeOK'
<1>1. Fits("decrement", arg[t]) /\ arg' = arg
  BY ArgAt DEF Decrement, TypeOK, UnlockLabels
<1>2. PICK e \in Events : e = arg[t].on
  BY <1>1 DEF Fits, EventArgLabels
<1>3. EventTypes'
  <2>1. (eventCounter[e] - 1) % 65536 \in U16
    BY WordType DEF TypeOK, EventTypes
  <2>. QED
    BY <1>2, <2>1 DEF Decrement, TypeOK, EventTypes
<1>4. credit' \in [Events -> Int]
  BY <1>2 DEF Decrement, Credited, TypeOK, CallTypes
<1>5. ControlTypes' /\ Moves(t, "app")
  BY GotoMoves DEF Decrement, TypeOK, ControlTypes, Labels, UnlockLabels
<1>6. CallTypes'
  BY <1>1, <1>4, <1>5, CallMovedSame, NothingAsked DEF TypeOK
<1>. QED
  BY <1>3, <1>5, <1>6, KeptTypes DEF Decrement, TypeOK

\* Posting, for both kinds.
LEMMA PostTypes ==
  ASSUME TypeOK, NEW t \in Tasks, PostSem(t) \/ PostMail(t)
  PROVE  TypeOK'
<1>1. arg[t].on \in Events /\ (At(t, "postmail") => arg[t].val \in Mails)
  <2>1. At(t, "postsem") => Fits("postsem", arg[t])
    BY ArgAt DEF TypeOK, UnlockLabels
  <2>2. At(t, "postmail") => Fits("postmail", arg[t])
    BY ArgAt DEF TypeOK, UnlockLabels
  <2>. QED
    BY <2>1, <2>2 DEF PostSem, PostMail, Fits, EventArgLabels
<1>2. CASE PostMail(t) /\ Contains(FreeEventList, arg[t].on)
  BY <1>2, FaultTypes DEF PostMail, callVars
<1>3. CASE PostSem(t) \/ ~Contains(FreeEventList, arg[t].on)
  <2>1. PICK e \in Events : e = arg[t].on
    BY <1>1
  <2>2. ListTypes' /\ DelayTypes' /\ EventTypes'
    <3>1. CASE PostSem(t)
      BY <2>1, <3>1, PostSemBodyTypes DEF PostSem, TypeOK
    <3>2. CASE PostMail(t) /\ ~Contains(FreeEventList, arg[t].on)
      <4>1. PICK mail \in Mails : mail = arg[t].val
        BY <1>1, <3>2 DEF PostMail
      <4>. QED
        BY <2>1, <3>2, <4>1, PostMailBodyTypes DEF PostMail, TypeOK
    <3>. QED
      BY <1>3, <3>1, <3>2
  <2>3. /\ credit' = [credit EXCEPT ![e] = @ + 1]
        /\ LockedSection(t, "app") /\ UNCHANGED <<poolVars, runVars, reqVars, arg>>
    BY <1>3, <2>1 DEF PostSem, PostMail, Credited
  <2>4. ControlTypes' /\ CallTypes'
    <3>1. credit' \in [Events -> Int]
      BY <2>3 DEF TypeOK, CallTypes
    <3>. QED
      BY <2>3, <3>1, SectionTypes, NothingAsked DEF TypeOK, ReturnLabels
  <2>. QED
    BY <2>2, <2>3, <2>4, KeptTypes DEF TypeOK
<1>. QED
  BY <1>2, <1>3

LEMMA TakeMailTypes ==
  ASSUME TypeOK, NEW t \in Tasks, NEW e \in Events, NEW val \in 0 .. INVALID_VALUE - 1,
         NEW otherwise \in {"app", "mailblock"}, otherwise = "mailblock" => val \in Timeouts, WithArg(t, e, val), TakeMail(t, e, otherwise)
  PROVE  TypeOK'
<1>1. PICK next \in {"app", otherwise} : LockedSection(t, next)
  BY DEF TakeMail
<1>2. ControlTypes' /\ Moves(t, next)
  BY <1>1, SectionMoves DEF TypeOK, ReturnLabels, EventArgLabels
<1>3. Fits(next, [on |-> e, val |-> val])
  BY DEF Fits, TaskArgLabels
<1>4. credit' \in [Events -> Int]
  BY DEF TakeMail, Credited, TypeOK, CallTypes
<1>5. CallTypes'
  BY <1>2, <1>3, <1>4, CallMovedWithArg DEF TypeOK
<1>6. EventTypes'
  <2>1. 0 \in U16
    BY Words
  <2>2. /\ eventCounter' = [eventCounter EXCEPT ![e] = 0] \/ eventCounter' = eventCounter
        /\ eventPtr' = [eventPtr EXCEPT ![e] = NULL] \/ eventPtr' = eventPtr
        /\ UNCHANGED <<eventID, pmail, eventTCBList, stalePrev>>
    BY DEF TakeMail
  <2>3. EventTypes
    BY DEF TypeOK
  <2>4. eventCounter' \in [Events -> U16]
    <3>1. CASE eventCounter' = [eventCounter EXCEPT ![e] = 0]
      BY <2>1, <2>3, <3>1 DEF EventTypes
    <3>2. CASE eventCounter' = eventCounter
      BY <2>3, <3>2 DEF EventTypes
    <3>. QED
      BY <2>2, <3>1, <3>2
  <2>5. eventPtr' \in [Events -> Mails \cup {NULL}]
    BY <2>2, <2>3, SMTT(30) DEF EventTypes
  <2>. QED
    BY <2>2, <2>3, <2>4, <2>5 DEF EventTypes
<1>. QED
  BY <1>2, <1>5, <1>6, KeptTypes DEF TakeMail, TypeOK

LEMMA EventCallTypes ==
  ASSUME TypeOK, LockInv', NEW t \in Tasks, EventCall(t) \/ SemCall(t) \/ MboxCall(t)
  PROVE  TypeOK'
<1>1. CASE EventCall(t)
  BY <1>1, CoCreateEventTypes, DeleteEventTypes DEF EventCall
<1>2. ASSUME NEW e \in Events, CoPostSem(t, e) PROVE TypeOK'
  <2>1. Fits("postsem", [on |-> e, val |-> 0])
    BY DEF Fits, TaskArgLabels
  <2>. QED
    BY <1>2, <2>1, ContinueTypes DEF CoPostSem, Labels, UnlockLabels, EventArgLabels
<1>3. ASSUME NEW e \in Events, NEW mail \in Mails, CoPostMail(t, e, mail) PROVE TypeOK'
  <2>1. Fits("postmail", [on |-> e, val |-> mail])
    BY DEF Fits, TaskArgLabels
  <2>. QED
    BY <1>3, <2>1, ContinueTypes DEF CoPostMail, Labels, UnlockLabels, EventArgLabels
<1>4. ASSUME NEW e \in Events, NEW timeout \in Timeouts, CoPendMail(t, e, timeout) PROVE TypeOK'
  BY <1>4, CallValues, TakeMailTypes DEF CoPendMail
<1>5. ASSUME NEW e \in Events, CoAcceptMail(t, e) PROVE TypeOK'
  BY <1>5, CallValues, TakeMailTypes DEF CoAcceptMail
<1>6. CASE SemCall(t)
  BY <1>2, <1>6, CoPendSemTypes, CoAcceptSemTypes DEF SemCall
<1>7. CASE MboxCall(t)
  BY <1>3, <1>4, <1>5, <1>7 DEF MboxCall
<1>. QED
  BY <1>1, <1>6, <1>7

LEMMA EventStepTypes ==
  ASSUME TypeOK, LockInv', NEW t \in Tasks, EventStep(t) \/ SemStep(t) \/ MboxStep(t)
  PROVE  TypeOK'
BY InitEventTypes, DeleteWaiterTypes, RetireECBTypes, ReleaseECBTypes, BlockBodyTypes, WokenTypes,
   DecrementTypes, PostTypes
DEF EventStep, SemStep, MboxStep

---------------------------------------------------------------------------
(* The delay list has a head while its head is being moved *)

\* A task that is at a step of its own call, or in its own code, is alone.
LEMMA NoneDisposing ==
  ASSUME LockInv, NEW t \in Tasks, TaskStepShape(t)
  PROVE  ~Disposing'
<1>1. \A c \in Contexts \ {t} : pc[c] \notin {"unlink", "tickunlink"}
  BY CpuAlone DEF TaskStepShape, Locking, LockLabels, UnlockLabels
<1>. QED
  BY <1>1 DEF TaskStepShape, Disposing

LEMMA UnlockKeepsHead ==
  ASSUME TypeOK, LockInv, HeadThere, NEW c \in Contexts, UnlockStep(c)
  PROVE  HeadThere'
<1>1. pc[c] \in UnlockLabels \cup {"clear"} /\ pc \in [Contexts -> Labels]
  BY DEF UnlockStep, BeginUnlock, DisposeHead, UnlinkHead, EndDispose, ClearTimeReq, RespondCell,
         EndCells, ClearIsrReq, UnlockSchedule, ClearLock, At, UnlockLabels, TypeOK, ControlTypes
<1>2. CASE DisposeHead(c)
  BY <1>2 DEF DisposeHead, Expired, HeadThere
<1>3. CASE UnlinkHead(c) \/ RespondCell(c)
  <2>1. Locking(c)
    BY <1>3 DEF UnlinkHead, RespondCell, At, Locking, LockLabels, UnlockLabels
  <2>2. \A d \in Contexts \ {c} : ~Locking(d)
    BY <2>1 DEF LockInv, OneWriter
  <2>3. \A d \in Contexts : pc'[d] \notin {"unlink", "tickunlink"}
    BY <1>1, <1>3, <2>2 DEF UnlinkHead, RespondCell, At, Goto, Locking, LockLabels, UnlockLabels
  <2>. QED
    BY <2>3 DEF HeadThere, Disposing
<1>4. CASE \/ BeginUnlock(c) \/ EndDispose(c) \/ ClearTimeReq(c) \/ EndCells(c) \/ ClearIsrReq(c)
           \/ UnlockSchedule(c) \/ ClearLock(c)
  <2>1. DlyList' = DlyList
    BY <1>4 DEF BeginUnlock, EndDispose, ClearTimeReq, EndCells, ClearIsrReq, UnlockSchedule,
                ClearLock, delayVars
  <2>2. ret[c] \notin {"unlink", "tickunlink"}
    BY DEF LockInv, Contexts, ReturnLabels, TaskArgLabels, EventArgLabels
  <2>3. PICK label : Goto(c, label) /\ label \notin {"unlink", "tickunlink"}
    BY <1>4, <2>2 DEF BeginUnlock, EndDispose, ClearTimeReq, EndCells, ClearIsrReq, UnlockSchedule,
                      ClearLock
  <2>4. Disposing' => Disposing
    BY <1>1, <2>3 DEF Disposing, Goto
  <2>. QED
    BY <2>1, <2>4 DEF HeadThere
<1>. QED
  BY <1>2, <1>3, <1>4 DEF UnlockStep

LEMMA HandlerKeepsHead ==
  ASSUME TypeOK, LockInv, HeadThere, TickEnter \/ Interrupt \/ IsrExit \/ PendSV_Handler
  PROVE  HeadThere'
<1>1. pc \in [Contexts -> Labels]
  BY DEF TypeOK, ControlTypes
<1>2. CASE TickEnter \/ IsrExit \/ PendSV_Handler
  <2>1. DlyList' = DlyList
    BY <1>2 DEF TickEnter, IsrExit, PendSV_Handler, delayVars
  <2>2. Disposing' => Disposing
    BY <1>1, <1>2 DEF TickEnter, IsrExit, PendSV_Handler, Disposing, Goto
  <2>. QED
    BY <2>1, <2>2 DEF HeadThere
<1>3. CASE Interrupt
  <2>1. Goto(Isr, "isrexit") \/ Goto(Isr, "respond")
    BY <1>3 DEF Interrupt, isr_PostSem, isr_PostMail, IsrPost, LockedSection
  <2>2. Disposing' => Disposing
    BY <1>1, <2>1 DEF Disposing, Goto
  <2>3. CASE OSSchedLock = 0
    <3>1. \A c \in Contexts : ~Locking(c)
      BY <2>3 DEF LockInv, OneWriter
    <3>2. ~Disposing
      BY <3>1 DEF Disposing, Locking, LockLabels, UnlockLabels
    <3>. QED
      BY <2>2, <3>2 DEF HeadThere
  <2>4. CASE OSSchedLock # 0
    <3>1. OSSchedLock > 0
      BY <2>4 DEF LockInv
    <3>2. DlyList' = DlyList
      BY <1>3, <3>1 DEF Interrupt, isr_PostSem, isr_PostMail, IsrPost, NothingPosted, delayVars
    <3>. QED
      BY <2>2, <3>2 DEF HeadThere
  <2>. QED
    BY <2>3, <2>4
<1>. QED
  BY <1>2, <1>3

---------------------------------------------------------------------------
(* The theorem *)

LEMMA InitTypes ==
  ASSUME Init
  PROVE  TypeOK /\ HeadThere
<1>1. Idle \in Tasks /\ TCBRdy \in Seq(Tasks)
  <2>1. Front(BootOrder) \in Seq(Tasks)
    BY BootAssumption, SubSeqProperties, LenProperties DEF Front
  <2>. QED
    BY <2>1, ContextAssumption DEF Init, KernelInit
<1>2. ListTypes
  BY <1>1 DEF Init, KernelInit, ListTypes, States
<1>3. INVALID_VALUE \in Int /\ CFG_MAX_SERVICE_REQUEST \in Nat
  BY ConfigAssumption
<1>11. DelayTypes /\ RunTypes
  <2>1. delay = [t \in Tasks |-> INVALID_VALUE] /\ DlyList = <<>>
    BY DEF Init, KernelInit
  <2>2. DelayTypes
    BY <1>3, <2>1 DEF DelayTypes
  <2>. QED
    BY <1>1, <2>2 DEF Init, KernelInit, RunTypes
<1>4. PoolTypes
  BY BootAssumption DEF Init, KernelInit, PoolTypes
<1>5. EventTypes
  BY BootAssumption DEF Init, KernelInit, EventTypes
<1>6. ReqTypes
  <2>1. IsrReq = FALSE /\ TimeReq = FALSE /\ ServiceReq = <<>>
    BY DEF Init, KernelInit
  <2>2. ServiceReq \in Seq(Requests) /\ Len(ServiceReq) = 0
    BY <2>1, EmptySeq
  <2>3. Len(ServiceReq) <= CFG_MAX_SERVICE_REQUEST
    BY <1>3, <2>2
  <2>4. IsrReq \in BOOLEAN /\ TimeReq \in BOOLEAN
    BY <2>1
  <2>. QED
    BY <2>2, <2>3, <2>4 DEF ReqTypes
<1>7. /\ pc = [c \in Contexts |-> IF c = Idle THEN "respond" ELSE IF NeverUsed(c) THEN "off" ELSE "app"]
      /\ ret = [c \in Contexts |-> IF c = SysTick THEN "off" ELSE IF c = Isr THEN "isrexit" ELSE "app"]
      /\ OSSchedLock = 1
  BY DEF Init, KernelInit
<1>8. ControlTypes
  BY <1>7 DEF ControlTypes, Labels, UnlockLabels, ReturnLabels
<1>9. CallTypes
  <2>1. \A t \in Tasks : After(t) \in {"app", "off"}
    BY <1>7, ContextAssumption DEF After, Contexts, UnlockLabels
  <2>2. \A t \in Tasks : ArgOK(t)
    BY <2>1 DEF ArgOK, Fits, TaskArgLabels, EventArgLabels
  <2>3. \A n \in U16 : n \in Int
    BY WordType
  <2>4. DOMAIN arg = Tasks /\ credit \in [Events -> Int]
    BY <1>5, <2>3 DEF Init, KernelInit, EventTypes
  <2>. QED
    BY <2>2, <2>4 DEF CallTypes
<1>10. ~Disposing
  BY <1>7 DEF Disposing
<1>. QED
  BY <1>2, <1>4, <1>5, <1>6, <1>8, <1>9, <1>10, <1>11 DEF TypeOK, HeadThere

LEMMA NextTypes ==
  ASSUME TypeOK /\ HeadThere, LockInv, LockInv', [Next]_vars
  PROVE  (TypeOK /\ HeadThere)'
<1>1. ASSUME NEW t \in Tasks, Call(t) \/ TaskStep(t) \/ EventStep(t) \/ SemStep(t) \/ MboxStep(t)
      PROVE  (TypeOK /\ HeadThere)'
  <2>1. TypeOK'
    BY <1>1, TaskCallTypes, TaskStepTypes, EventCallTypes, EventStepTypes DEF Call
  <2>2. TaskStepShape(t)
    BY <1>1, TaskCallShape, TaskStepIsShape, EventCallShape, EventStepShape, TokenShape DEF Call
  <2>. QED
    BY <2>1, <2>2, NoneDisposing DEF HeadThere
<1>2. ASSUME NEW c \in Contexts, UnlockStep(c) PROVE (TypeOK /\ HeadThere)'
  BY <1>2, UnlockStepTypes, UnlockKeepsHead
<1>3. CASE TickEnter \/ Interrupt \/ IsrExit \/ PendSV_Handler
  BY <1>3, TickEnterTypes, InterruptTypes, HandlerTypes, HandlerKeepsHead
<1>4. CASE UNCHANGED vars
  BY <1>4 DEF vars, TypeOK, ListTypes, DelayTypes, EventTypes, PoolTypes, RunTypes, ReqTypes,
              ControlTypes, CallTypes, ArgOK, After, HeadThere, Disposing
<1>. QED
  BY <1>1, <1>2, <1>3, <1>4 DEF Next, Step, Contexts

\* Every variable keeps its type, the queue of requests keeps its bound, and a
\* call reaches each step with arguments that suit it, whatever the application
\* calls and wherever ticks and interrupts fall.
THEOREM TypeCorrect == Spec => []TypeOK
<1>1. Init => TypeOK /\ HeadThere
  BY InitTypes
<1>2. TypeOK /\ HeadThere /\ LockInv /\ LockInv' /\ [Next]_vars => (TypeOK /\ HeadThere)'
  BY NextTypes
<1>. QED
  BY <1>1, <1>2, LockInvariant, PTL DEF Spec
=============================================================================
