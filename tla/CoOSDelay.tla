----------------------------- MODULE CoOSDelay ------------------------------
(***************************************************************************)
(* A delay is never over early: the proof of MCDelay's NeverEarly.  What   *)
(* is left to sleep never exceeds the delay a task is in the list with,    *)
(* and TimeDispose takes out a head whose delay is 0.                      *)
(***************************************************************************)
EXTENDS CoOSExact, MCDelay

\* No task is in the delay list for less than it still has to sleep; one that
\* TimeDispose is taking out has slept, whatever a tick now makes of its delay.
LeftInv ==
  /\ \A u \in Tasks : left[u] \in Nat /\ (Contains(DlyList, u) => left[u] <= delay[u])
  /\ Disposing => left[Head(DlyList)] = 0

---------------------------------------------------------------------------
(* What a step does to the delays *)

\* The step puts nobody into the delay list,
OnlyClears ==
  \A u \in Tasks : Contains(DlyList', u) => Contains(DlyList, u) /\ delay'[u] \in {delay[u], INVALID_VALUE}
\* nobody ends CoResetTaskDelayTick in it,
KeepsResets == \A c \in Tasks : pc[c] = "reset" => pc'[c] = "reset"
\* and a head that is taken out has slept long enough.
DisposesDue ==
  \A c \in Contexts : pc[c] \in {"dispose", "tickdispose"} /\ pc'[c] \in {"unlink", "tickunlink"} => Expired
\* What TimeDispose is taking out it goes on to, and begins with a head that is due.
HeadKept == Disposing' => (Disposing \/ Expired) /\ DlyList' = DlyList /\ KeepsResets

\* What context c asks for task u is what u is put into the list for.
AskedIsPut ==
  \A c, u \in Tasks : Asks(c, u) => Asked(c) = delay'[u] /\ delay'[u] \in Nat
\* A task for which nobody asks is put into the list by nobody.
PutWhenAsked ==
  \A u \in Tasks : (\A c \in Tasks : ~Asks(c, u)) /\ Contains(DlyList', u) =>
    Contains(DlyList, u) /\ delay'[u] \in {delay[u], INVALID_VALUE}

LEMMA ClearingStep ==
  ASSUME KernelInv, OnlyClears, KeepsResets
  PROVE  AskedIsPut /\ PutWhenAsked
BY DEF OnlyClears, KeepsResets, AskedIsPut, PutWhenAsked, Asks

\* What the steps that put nobody into the list do to it.
Marks(u) == delay' = [delay EXCEPT ![u] = INVALID_VALUE]
Clears == UNCHANGED delayVars \/ \E u : (Marks(u) /\ UNCHANGED DlyList) \/ RemoveDelayList(u)

LEMMA ClearsOnly ==
  ASSUME KernelInv, Clears
  PROVE  OnlyClears
<1>1. IsInjective(DlyList) /\ DlyList \in Seq(Tasks) /\ delay \in [Tasks -> Int]
  BY ListsNow DEF DelayInv, DelayTypes
<1>2. CASE UNCHANGED delayVars BY <1>2 DEF OnlyClears, delayVars
<1>3. CASE ~UNCHANGED delayVars
  <2>1. PICK u : Marks(u) /\ (UNCHANGED DlyList \/ DlyList' = Unlink(DlyList, u))
    BY <1>3 DEF Clears, RemoveDelayList, Marks
  <2>2. \A v \in Tasks : delay'[v] \in {delay[v], INVALID_VALUE} BY <1>1, <2>1 DEF Marks
  <2>3. \A x : Contains(Unlink(DlyList, u), x) => Contains(DlyList, x)
    <3>1. CASE Contains(DlyList, u) BY <1>1, <3>1, UnlinkItems
    <3>2. CASE ~Contains(DlyList, u) BY <3>2, EmptyList DEF Unlink
    <3> QED BY <3>1, <3>2
  <2> QED BY <2>1, <2>2, <2>3 DEF OnlyClears
<1> QED BY <1>2, <1>3

\* A step of a task that is not at the label of ResetBody.
LEMMA TaskClears ==
  ASSUME KernelInv, NEW t \in Tasks, TaskStepShape(t)
  PROVE  /\ DisposesDue
         /\ pc[t] # "reset" => KeepsResets
         /\ Runs(t) => ~Disposing' /\ HeadKept
         /\ \A c \in Tasks \ {t} : pc[c] # "reset"
<1>1. t = TCBRunning BY CpuAlone DEF KernelInv, TaskStepShape
<1>2. \A c \in Tasks : pc[c] = "reset" => c = TCBRunning
  BY DEF KernelInv, OrderInv, ManageInv, Managed, Managing, SleepsAt
<1>3. DisposesDue BY DEF DisposesDue, TaskStepShape
<1>4. Runs(t) => ~Disposing' BY TaskAlone DEF TaskStepShape, Disposing
<1> QED BY <1>1, <1>2, <1>3, <1>4 DEF KeepsResets, HeadKept

StepAsks == AskedIsPut /\ PutWhenAsked /\ DisposesDue /\ HeadKept

\* CoTickDelay
LEMMA TickDelayAsks ==
  ASSUME KernelInv, Disciplined, NEW t \in Tasks, NEW n \in Delays, CoTickDelay(t, n), TaskStepShape(t)
  PROVE  AskedIsPut /\ PutWhenAsked
<1>1. Runs(t) /\ pc[t] = "app" BY RunsCalling DEF CoTickDelay
<1>2. delay \in [Tasks -> Int] /\ ~Contains(DlyList, t) /\ DlyList \in Seq(Tasks)
  BY <1>1, TaskFree, ListsNow DEF DelayTypes
<1>3. ASSUME NEW k \in Delays, CoTickDelay(t, k)
      PROVE  /\ delay'[t] = k /\ k \in Nat
             /\ \A u \in Tasks \ {t} : delay'[u] = delay[u]
             /\ \A u \in Tasks : Contains(DlyList', u) <=> Contains(DlyList, u) \/ u = t
  BY <1>2, <1>3, TaskApiAssumption, InsertByItems DEF CoTickDelay, LinkDelay
<1>4. ASSUME NEW c \in Tasks, NEW u \in Tasks, Asks(c, u)
      PROVE  c = t /\ u = t
  BY <1>1, <1>3, <1>4, TaskClears DEF Asks
<1>5. Asks(t, t) BY <1>1, <1>2, <1>3 DEF Asks
<1>6. Asked(t) = delay'[t] /\ delay'[t] \in Nat
  <2>1. Asked(t) \in Delays /\ CoTickDelay(t, Asked(t)) BY <1>1 DEF Asked
  <2> QED BY <2>1, <1>3
<1> QED BY <1>3, <1>4, <1>5, <1>6 DEF AskedIsPut, PutWhenAsked

LEMMA CallAsks ==
  ASSUME KernelInv, Disciplined, NEW t \in Tasks, Call(t)
  PROVE  StepAsks
<1>1. TaskStepShape(t)
  BY TaskCallShape, EventCallShape, TokenShape DEF Call, KernelInv
<1>2. pc[t] = "app"
  BY DEF Call, TaskCall, CoSchedLock, CoSchedUnlock, CoTickDelay, CoResetTaskDelayTick, CreateTask, CoDelTask,
         CoSuspendTask, CoAwakeTask, CoSetPriority, EventCall, CoCreateEvent, DeleteUnused, DeleteAnyway, SemCall,
         CoPendSem, CoAcceptSem, CoPostSem, MboxCall, CoPendMail, CoAcceptMail, CoPostMail, Calls, At
<1>5. Runs(t)
  BY RunsCalling DEF Call, TaskCall, CoSchedLock, CoSchedUnlock, CoTickDelay, CoResetTaskDelayTick, CreateTask, CoDelTask,
         CoSuspendTask, CoAwakeTask, CoSetPriority, EventCall, CoCreateEvent, DeleteUnused, DeleteAnyway, SemCall,
         CoPendSem, CoAcceptSem, CoPostSem, MboxCall, CoPendMail, CoAcceptMail, CoPostMail
<1>3. CASE \E n \in Delays : CoTickDelay(t, n)
  BY <1>1, <1>3, <1>5, TaskClears, TickDelayAsks DEF StepAsks
<1>4. CASE ~\E n \in Delays : CoTickDelay(t, n)
  <2>1. UNCHANGED delayVars
    <3>1. CASE TaskCall(t)
      BY <1>4, <3>1 DEF TaskCall, CoSchedLock, CoSchedUnlock, CoResetTaskDelayTick, CreateTask, CoDelTask,
           CoSuspendTask, CoAwakeTask, CoSetPriority, Continue, delayVars
    <3>2. CASE EventCall(t)
      BY <3>2 DEF EventCall, CoCreateEvent, DeleteUnused, DeleteAnyway, Continue, delayVars
    <3>3. CASE SemCall(t) \/ MboxCall(t)
      BY <3>3 DEF SemCall, CoPendSem, CoAcceptSem, CoPostSem, MboxCall, CoPendMail, CoAcceptMail, TakeMail,
           CoPostMail, Continue, delayVars
    <3> QED BY <3>1, <3>2, <3>3 DEF Call
  <2>2. OnlyClears BY <2>1, ClearsOnly DEF Clears
  <2>3. KeepsResets /\ DisposesDue /\ HeadKept BY <1>1, <1>2, <1>5, TaskClears
  <2> QED BY <2>2, <2>3, ClearingStep DEF StepAsks
<1> QED BY <1>3, <1>4

\* CoResetTaskDelayTick behind its test.
LEMMA ResetAsks ==
  ASSUME KernelInv, Disciplined, NEW t \in Tasks, ResetBody(t), TaskStepShape(t)
  PROVE  AskedIsPut /\ PutWhenAsked
<1> DEFINE v == arg[t].on
<1>1. /\ Runs(t) /\ pc[t] = "reset" /\ v \in Tasks /\ Contains(DlyList, v)
  BY ManagerAt DEF ResetBody, Managing, Tested
<1>2. arg[t].val \in Nat /\ arg[t].val # 0
  <2>1. Fits("reset", arg[t]) BY ArgAt DEF ResetBody, KernelInv, TypeOK, UnlockLabels
  <2>2. arg[t].val # 0 BY <1>1 DEF KernelInv, OrderInv, ManageInv, Managed
  <2> QED BY <2>1, <2>2 DEF Fits
<1>3. delay \in [Tasks -> Int] /\ DlyList \in Seq(Tasks) /\ IsInjective(DlyList)
  BY <1>1, ListsNow DEF DelayInv, DelayTypes
<1>4. /\ delay' = [delay EXCEPT ![v] = arg[t].val] /\ LockedSection(t, "app")
      /\ DlyList' = InsertBy(Unlink(DlyList, v), delay', v)
  BY <1>1, <1>2 DEF ResetBody
<1> HIDE DEF v
<1>5. pc'[t] # "reset" BY <1>4 DEF LockedSection, Goto, KernelInv, LockInv, Contexts
<1>6. delay'[v] = arg[t].val /\ \A u \in Tasks \ {v} : delay'[u] = delay[u] BY <1>1, <1>3, <1>4
<1>9. \A x : Contains(DlyList', x) <=> Contains(DlyList, x)
  BY <1>1, <1>3, <1>4, UnlinkItems, UnlinkType, InsertByItems
<1>7. ASSUME NEW c \in Tasks, NEW u \in Tasks, Asks(c, u)
      PROVE  c = t /\ u = v
  BY <1>1, <1>9, <1>7, TaskClears DEF Asks, v
<1>8. Asks(t, v) /\ Asked(t) = arg[t].val BY <1>1, <1>5 DEF Asks, Asked, v
<1> QED BY <1>1, <1>2, <1>6, <1>7, <1>8, <1>9 DEF AskedIsPut, PutWhenAsked

\* The blocking half of the pend calls.
LEMMA BlockAsks ==
  ASSUME KernelInv, NEW t \in Tasks, BlockBody(t), TaskStepShape(t)
  PROVE  AskedIsPut /\ PutWhenAsked
<1>1. Runs(t) /\ pc[t] \in {"semblock", "mailblock"}
  BY RunsInCall DEF BlockBody, UnlockLabels
<1>2. arg[t].val \in 0 .. INVALID_VALUE - 1 /\ INVALID_VALUE \in Nat
  <2>1. Fits("semblock", arg[t]) \/ Fits("mailblock", arg[t])
    BY ArgAt DEF BlockBody, KernelInv, TypeOK, UnlockLabels
  <2> QED BY <2>1, ConfigAssumption, EventApiAssumption DEF Fits
<1>3. delay \in [Tasks -> Int] /\ ~Contains(DlyList, t) /\ DlyList \in Seq(Tasks)
  BY <1>1, TaskFree, ListsNow DEF DelayTypes
<1>4. CASE arg[t].val = 0
  <2>1. UNCHANGED delayVars BY <1>4 DEF BlockBody
  <2>2. KeepsResets BY <1>1, TaskClears
  <2> QED BY <2>1, <2>2, ClearsOnly, ClearingStep DEF Clears
<1>5. CASE arg[t].val # 0
  <2>1. delay' = [delay EXCEPT ![t] = arg[t].val] /\ DlyList' = InsertBy(DlyList, delay', t)
    BY <1>5 DEF BlockBody, LinkDelay
  <2>2. delay'[t] = arg[t].val /\ \A u \in Tasks \ {t} : delay'[u] = delay[u] BY <1>3, <2>1
  <2>3. \A x : Contains(DlyList', x) <=> Contains(DlyList, x) \/ x = t BY <1>3, <2>1, InsertByItems
  <2>4. ASSUME NEW c \in Tasks, NEW u \in Tasks, Asks(c, u)
        PROVE  c = t /\ u = t
    BY <1>1, <2>3, <2>4, TaskClears DEF Asks
  <2>5. Asked(t) = arg[t].val BY <1>1 DEF Asked
  <2>6. Asks(t, t) BY <1>1, <1>3, <2>3 DEF Asks
  <2> QED BY <1>2, <2>2, <2>3, <2>4, <2>5, <2>6 DEF AskedIsPut, PutWhenAsked
<1> QED BY <1>4, <1>5

\* What a post does to the delays: the waiter it wakes leaves the list.
LEMMA PostClears ==
  ASSUME KernelInv, NEW e, NEW n, NEW mail, PostBody(e, n, mail)
  PROVE  OnlyClears
<1>1. Clears BY DEF PostBody, Clears
<1> QED BY <1>1, ClearsOnly

LEMMA StepOfCallAsks ==
  ASSUME KernelInv, Disciplined, NEW t \in Tasks, TaskStep(t) \/ EventStep(t) \/ SemStep(t) \/ MboxStep(t)
  PROVE  StepAsks
<1>1. TaskStepShape(t)
  BY TaskStepIsShape, EventStepShape, TokenShape DEF KernelInv
<1>5. Runs(t)
  BY RunsInCall DEF TaskStep, ResetBody, InitTask, DeleteBody, SuspendBody, AwakeBody, ReorderBody, RescheduleBody,
       UnwaitBody, RewaitBody, EventStep, InitEvent, DeleteWaiter, RetireECB, ReleaseECB, BlockBody, Woken, SemStep,
       Decrement, PostSem, MboxStep, PostMail, UnlockLabels
<1>2. CASE ResetBody(t) BY <1>1, <1>2, <1>5, ResetAsks, TaskClears DEF StepAsks
<1>3. CASE BlockBody(t) BY <1>1, <1>3, <1>5, BlockAsks, TaskClears DEF StepAsks
<1>4. CASE ~ResetBody(t) /\ ~BlockBody(t)
  <2>1. pc[t] # "reset"
    BY <1>4 DEF TaskStep, InitTask, DeleteBody, SuspendBody, AwakeBody, ReorderBody, RescheduleBody, UnwaitBody,
         RewaitBody, EventStep, InitEvent, DeleteWaiter, RetireECB, ReleaseECB, Woken, SemStep, Decrement,
         PostSem, MboxStep, PostMail, At
  <2>2. OnlyClears
    <3>2. CASE TaskStep(t)
      <4>1. Clears
        BY <1>4, <3>2 DEF TaskStep, InitTask, DeleteBody, SuspendBody, AwakeBody, ReorderBody, RescheduleBody,
             UnwaitBody, RewaitBody, Fault, Clears, Marks
      <4> QED BY <4>1, ClearsOnly
    <3>3. CASE EventStep(t)
      <4>1. Clears
        BY <1>4, <3>3 DEF EventStep, InitEvent, DeleteWaiter, RetireECB, ReleaseECB, Woken, Fault, Clears
      <4> QED BY <4>1, ClearsOnly
    <3>4. CASE SemStep(t) \/ MboxStep(t)
      <4>1. UNCHANGED delayVars \/ PostSemBody(arg[t].on) \/ PostMailBody(arg[t].on, arg[t].val)
        BY <3>4 DEF SemStep, Decrement, PostSem, MboxStep, PostMail, Fault
      <4>2. UNCHANGED delayVars => OnlyClears BY ClearsOnly DEF Clears
      <4> QED BY <4>1, <4>2, PostClears DEF PostSemBody, PostMailBody
    <3> QED BY <3>2, <3>3, <3>4
  <2> QED BY <1>1, <1>5, <2>1, <2>2, TaskClears, ClearingStep DEF StepAsks
<1> QED BY <1>2, <1>3, <1>4

\* OsSchedUnlock takes tasks out of the delay list, those whose delay is 0.
LEMMA UnlockAsks ==
  ASSUME KernelInv, NEW c \in Contexts, UnlockStep(c)
  PROVE  StepAsks
<1>1. DOMAIN pc = Contexts /\ OneWriter BY DEF KernelInv, LockInv
<1>2. pc[c] # "reset" /\ \E label : pc' = pc \/ Goto(c, label)
  BY DEF UnlockStep, BeginUnlock, DisposeHead, UnlinkHead, EndDispose, ClearTimeReq, RespondCell, EndCells,
         ClearIsrReq, UnlockSchedule, ClearLock, At
<1>3. KeepsResets BY <1>1, <1>2 DEF KeepsResets, Goto, Contexts
<1>7. c \in Contexts OBVIOUS
<1>4. DisposesDue
  <2>1. CASE DisposeHead(c) BY <2>1 DEF DisposeHead, DisposesDue
  <2>2. CASE ~DisposeHead(c)
    <3>1. pc[c] \in {"dispose", "tickdispose"} => pc' = [pc EXCEPT ![c] = "timeclr"] \/ pc' = [pc EXCEPT ![c] = "respond"]
      BY <2>2 DEF UnlockStep, BeginUnlock, UnlinkHead, EndDispose, ClearTimeReq, RespondCell, EndCells,
             ClearIsrReq, UnlockSchedule, ClearLock, At, Goto
    <3>2. \A d \in Contexts \ {c} : pc'[d] = pc[d] BY <1>1, <1>2 DEF Goto
    <3> QED BY <1>1, <3>1, <3>2 DEF DisposesDue
  <2> QED BY <2>1, <2>2
<1>5. OnlyClears
  <2>1. CASE RespondCell(c)
    <3>1. UNCHANGED delayVars \/ PostSemBody(Head(ServiceReq).id) \/ PostMailBody(Head(ServiceReq).id, Head(ServiceReq).arg)
      BY <2>1 DEF RespondCell, NothingPosted
    <3>2. UNCHANGED delayVars => OnlyClears BY ClearsOnly DEF Clears
    <3> QED BY <3>1, <3>2, PostClears DEF PostSemBody, PostMailBody
  <2>2. CASE ~RespondCell(c)
    <3>1. CASE UnlinkHead(c)
      <4>1. DlyList' = Tail(DlyList) /\ UNCHANGED delay BY <3>1 DEF UnlinkHead
      <4>2. DlyList # <<>> /\ DlyList \in Seq(Tasks) /\ IsInjective(DlyList)
        BY <1>7, <3>1, ListsNow DEF UnlinkHead, At, Disposing, DelayInv, DelayTypes
      <4> QED BY <4>1, <4>2, HeadTailItems DEF OnlyClears
    <3>2. CASE ~UnlinkHead(c)
      <4>1. Clears
        BY <2>2, <3>2 DEF UnlockStep, BeginUnlock, DisposeHead, EndDispose, ClearTimeReq, EndCells,
               ClearIsrReq, UnlockSchedule, ClearLock, Clears, Marks, delayVars
      <4> QED BY <4>1, ClearsOnly
    <3> QED BY <3>1, <3>2
  <2> QED BY <2>1, <2>2
<1>6. HeadKept
  <2>1. CASE DisposeHead(c) BY <1>3, <2>1 DEF DisposeHead, HeadKept
  <2>2. CASE UnlinkHead(c) \/ RespondCell(c)
    <3>1. Locking(c) /\ pc'[c] \notin {"unlink", "tickunlink"}
      BY <1>1, <1>7, <2>2 DEF UnlinkHead, RespondCell, At, Goto, Locking, LockLabels, UnlockLabels
    <3>2. \A d \in Contexts \ {c} : pc'[d] = pc[d] /\ ~Locking(d) BY <1>1, <1>2, <1>7, <3>1 DEF Goto, OneWriter
    <3> QED BY <3>1, <3>2 DEF HeadKept, Disposing, Locking, LockLabels, UnlockLabels
  <2>3. CASE ~DisposeHead(c) /\ ~UnlinkHead(c) /\ ~RespondCell(c)
    <3>1. UNCHANGED DlyList
      BY <2>3 DEF UnlockStep, BeginUnlock, EndDispose, ClearTimeReq, EndCells, ClearIsrReq, UnlockSchedule,
             ClearLock, delayVars
    <3>2. ret[c] \notin {"unlink", "tickunlink"}
      <4>1. LockInv BY DEF KernelInv
      <4>2. CASE c \in Tasks BY <4>1, <4>2 DEF LockInv, ReturnLabels, TaskArgLabels, EventArgLabels, MutexLabels
      <4>3. CASE c \in {SysTick, Isr} BY <4>1, <4>3 DEF LockInv
      <4> QED BY <4>2, <4>3 DEF Contexts
    <3>3. pc'[c] \notin {"unlink", "tickunlink"}
      BY <1>1, <1>7, <2>3, <3>2 DEF UnlockStep, BeginUnlock, EndDispose, ClearTimeReq, EndCells, ClearIsrReq,
             UnlockSchedule, ClearLock, RespondCell, At, Goto
    <3>4. \A d \in Contexts \ {c} : pc'[d] = pc[d] BY <1>1, <1>2 DEF Goto
    <3>5. Disposing' => Disposing BY <3>3, <3>4 DEF Disposing
    <3> QED BY <1>3, <3>1, <3>5 DEF HeadKept
  <2> QED BY <2>1, <2>2, <2>3
<1> QED BY <1>3, <1>4, <1>5, <1>6, ClearingStep DEF StepAsks

\* The user's interrupt posts; a switch and the end of the interrupt do nothing.
LEMMA HandlerAsks ==
  ASSUME KernelInv, Interrupt \/ IsrExit \/ PendSV_Handler \/ UNCHANGED vars
  PROVE  StepAsks
<1>1. DOMAIN pc = Contexts /\ OneWriter /\ OSSchedLock \in Nat BY DEF KernelInv, LockInv
<1>2. pc' = pc \/ (pc[Isr] \in {"off", "isrexit"} /\ \E label \in {"off", "isrexit", "respond"} : Goto(Isr, label))
  BY DEF Interrupt, isr_PostSem, isr_PostMail, IsrPost, LockedSection, IsrExit, PendSV_Handler, vars
<1>3. KeepsResets /\ DisposesDue BY <1>1, <1>2 DEF KeepsResets, DisposesDue, Goto, Contexts
<1>4. OnlyClears
  <2>1. UNCHANGED delayVars => OnlyClears BY ClearsOnly DEF Clears
  <2>2. CASE Interrupt
    <3>1. PICK e \in Events : isr_PostSem(e) \/ \E mail \in Mails : isr_PostMail(e, mail)
      BY <2>2 DEF Interrupt
    <3>2. isr_PostSem(e) => UNCHANGED delayVars \/ PostSemBody(e)
      BY DEF isr_PostSem, IsrPost, NothingPosted
    <3>3. \A mail \in Mails : isr_PostMail(e, mail) => UNCHANGED delayVars \/ PostMailBody(e, mail)
      BY DEF isr_PostMail, IsrPost, NothingPosted
    <3>4. PostSemBody(e) => OnlyClears BY PostClears DEF PostSemBody
    <3>5. \A mail : PostMailBody(e, mail) => OnlyClears BY PostClears DEF PostMailBody
    <3> QED BY <2>1, <3>1, <3>2, <3>3, <3>4, <3>5
  <2>3. CASE IsrExit \/ PendSV_Handler \/ UNCHANGED vars
    BY <2>1, <2>3 DEF IsrExit, PendSV_Handler, vars, delayVars
  <2> QED BY <2>2, <2>3
<1>5. HeadKept
  <2>1. Disposing' => Disposing BY <1>1, <1>2 DEF Disposing, Goto, Contexts
  <2>2. Disposing => OSSchedLock > 0 BY <1>1 DEF Disposing, OneWriter, Locking, LockLabels, UnlockLabels
  <2>3. OSSchedLock > 0 => UNCHANGED DlyList
    BY DEF Interrupt, isr_PostSem, isr_PostMail, IsrPost, NothingPosted, IsrExit, PendSV_Handler, vars, delayVars
  <2> QED BY <1>3, <2>1, <2>2, <2>3 DEF HeadKept
<1> QED BY <1>3, <1>4, <1>5, ClearingStep DEF StepAsks

LEMMA NextAsks ==
  ASSUME KernelInv, Disciplined, [Next]_vars, ~TickEnter
  PROVE  StepAsks
<1>1. ASSUME NEW t \in Tasks, Step(t) PROVE StepAsks
  BY <1>1, StepOfCallAsks, UnlockAsks DEF Step, Contexts
<1> QED BY <1>1, CallAsks, UnlockAsks, HandlerAsks DEF Next, Contexts

---------------------------------------------------------------------------
(* The steps that keep the invariant *)

\* A head that is due has nothing left to sleep.
LEMMA DueHasSlept ==
  ASSUME KernelInv, LeftInv, Expired
  PROVE  left[Head(DlyList)] = 0
<1>1. DlyList \in Seq(Tasks) /\ IsInjective(DlyList) /\ DlyList # <<>>
  BY ListsNow DEF Expired, DelayInv, DelayTypes
<1>2. Head(DlyList) \in Tasks /\ Contains(DlyList, Head(DlyList)) /\ delay[Head(DlyList)] = 0
  BY <1>1, HeadTailType, HeadTailItems DEF Expired
<1> QED BY <1>2 DEF LeftInv

\* Without a tick the tasks have as much left to sleep as before, or as much as
\* they ask for.
LEMMA PutKeepsLeft ==
  ASSUME KernelInv, LeftInv, DNext, ~TickEnter, StepAsks
  PROVE  LeftInv'
<1>4. Disposing' => left'[Head(DlyList')] = 0
  <2>1. SUFFICES ASSUME Disposing' PROVE left'[Head(DlyList)] = 0 BY DEF StepAsks, HeadKept
  <2>2. DlyList' = DlyList /\ KeepsResets /\ (Disposing \/ Expired) BY <2>1 DEF StepAsks, HeadKept
  <2>3. Head(DlyList) \in Tasks BY <2>2, ListsNow, HeadTailType DEF Expired, DelayInv, DelayTypes
  <2>4. left[Head(DlyList)] = 0 BY <2>2, DueHasSlept DEF LeftInv
  <2>5. \A c \in Tasks : ~Asks(c, Head(DlyList)) BY <2>2 DEF Asks, KeepsResets
  <2> QED BY <2>3, <2>4, <2>5 DEF DNext
<1> SUFFICES ASSUME NEW u \in Tasks
             PROVE  left'[u] \in Nat /\ (Contains(DlyList', u) => left'[u] <= delay'[u])
  BY <1>4 DEF LeftInv
<1>1. /\ left[u] \in Nat /\ (Contains(DlyList, u) => left[u] <= delay[u])
      /\ delay[u] \in 0 .. INVALID_VALUE /\ INVALID_VALUE \in Nat
  BY ListsNow, ConfigAssumption DEF LeftInv, DelayInv
<1>2. CASE \E c \in Tasks : Asks(c, u)
  <2> DEFINE c == CHOOSE c \in Tasks : Asks(c, u)
  <2>1. c \in Tasks /\ Asks(c, u) BY <1>2
  <2>2. left'[u] = Asked(c) BY <1>2 DEF DNext
  <2>3. Asked(c) = delay'[u] /\ delay'[u] \in Nat BY <2>1 DEF StepAsks, AskedIsPut
  <2> QED BY <2>2, <2>3
<1>3. CASE ~\E c \in Tasks : Asks(c, u)
  <2>1. left'[u] = left[u] BY <1>3 DEF DNext
  <2>2. Contains(DlyList', u) => Contains(DlyList, u) /\ delay'[u] \in {delay[u], INVALID_VALUE}
    BY <1>3 DEF StepAsks, PutWhenAsked
  <2> QED BY <1>1, <2>1, <2>2
<1> QED BY <1>2, <1>3

\* A tick counts down what is left, and the delays of the tasks in the list; one
\* that TimeDispose is taking out has nothing left.
LEMMA TickKeepsLeft ==
  ASSUME KernelInv, LeftInv, DNext, TickEnter
  PROVE  LeftInv' /\ DisposesDue
<1>1. DOMAIN pc = Contexts /\ UNCHANGED DlyList /\ pc[SysTick] = "off" BY DEF TickEnter, KernelInv, LockInv
<1>2. /\ DelayInv /\ DlyList \in Seq(Tasks) /\ delay \in [Tasks -> Int] /\ INVALID_VALUE \in Nat
  BY ListsNow, ConfigAssumption DEF DelayTypes
<1>3. pc' = pc \/ (OSSchedLock = 0 /\ \E label \in {"tickdispose", "respond"} : Goto(SysTick, label))
  BY DEF TickEnter, KernelInv, LockInv
<1>4. KeepsResets BY <1>1, <1>3, ContextAssumption DEF KeepsResets, Goto, Contexts
<1>5. DisposesDue BY <1>1, <1>3 DEF DisposesDue, Goto
<1>6. \A u \in Tasks : left[u] \in Nat /\ (Contains(DlyList, u) => left[u] <= delay[u]) BY DEF LeftInv
<1>7. \A c, u \in Tasks : ~Asks(c, u) BY <1>1, <1>4 DEF Asks, KeepsResets
<1>8. \A u \in Tasks : left'[u] = IF left[u] > 0 THEN left[u] - 1 ELSE left[u] BY <1>7 DEF DNext
<1>9. CASE Disposing
  <2>1. DlyList # <<>> /\ delay' = [delay EXCEPT ![Head(DlyList)] = IF @ > 1 THEN @ - 1 ELSE 0]
    BY <1>2, <1>9 DEF TickEnter, DelayInv
  <2>2. PICK h \in Tasks : h = Head(DlyList) BY <1>2, <2>1, HeadTailType
  <2>3. left[h] = 0 BY <1>9, <2>2 DEF LeftInv
  <2>4. delay'[h] >= 0 /\ \A u \in Tasks \ {h} : delay'[u] = delay[u] BY <1>2, <2>1, <2>2
  <2>5. delay'[h] \in Int BY <1>2, <2>1, <2>2
  <2>6. ASSUME NEW u \in Tasks PROVE left'[u] \in Nat /\ (Contains(DlyList, u) => left'[u] <= delay'[u])
    <3>1. CASE u = h BY <1>8, <2>3, <2>4, <2>5, <3>1
    <3>2. CASE u # h BY <1>2, <1>6, <1>8, <2>4, <3>2
    <3> QED BY <3>1, <3>2
  <2>7. left'[Head(DlyList)] = 0 BY <1>8, <2>2, <2>3
  <2> QED BY <1>1, <1>5, <2>6, <2>7 DEF LeftInv
<1>10. CASE ~Disposing
  <2>1. delay' = IF DlyList = <<>> THEN delay
                 ELSE [t \in Tasks |-> IF Contains(DlyList, t) /\ delay[Head(DlyList)] > 0
                                       THEN delay[t] - 1 ELSE delay[t]]
    BY <1>10 DEF TickEnter
  <2>2. ~Disposing' BY <1>1, <1>3, <1>10 DEF Disposing, Goto
  <2>3. InOrder(DlyList, delay) BY <1>2, <1>10 DEF DelayInv
  <2>4. ASSUME NEW u \in Tasks, Contains(DlyList, u)
        PROVE  delay'[u] = delay[u] \/ (delay'[u] = delay[u] - 1 /\ delay[u] > 0)
    <3>1. CASE DlyList # <<>> /\ delay[Head(DlyList)] > 0
      <4>1. delay[Head(DlyList)] <= delay[u] BY <1>2, <2>3, <2>4, <3>1, TailOrder, DelaysKeyed
      <4>2. Head(DlyList) \in Tasks BY <1>2, <3>1, HeadTailType
      <4> QED BY <1>2, <2>1, <2>4, <3>1, <4>1, <4>2
    <3>2. CASE ~(DlyList # <<>> /\ delay[Head(DlyList)] > 0) BY <2>1, <3>2
    <3> QED BY <3>1, <3>2
  <2>5. ASSUME NEW u \in Tasks PROVE left'[u] \in Nat /\ (Contains(DlyList, u) => left'[u] <= delay'[u])
    BY <1>2, <1>6, <1>8, <2>4, <2>5
  <2> QED BY <1>1, <1>5, <2>2, <2>5 DEF LeftInv
<1> QED BY <1>9, <1>10

\* Nobody is woken before its time: when TimeDispose takes a task out of the
\* delay list, the ticks it asked for have passed, whatever ticks fell into
\* locked sections, and whoever was put into the list before it, moved in it or
\* taken out of it (InsertDelayList, RemoveDelayList, TimeDispose,
\* CoResetTaskDelayTick; the ticks of SysTick_Handler).  Where the application's
\* waits are timed, that holds beside the tick that finds TimeDispose between
\* time.c:335 and time.c:336, too.
THEOREM NeverWokenEarly == Disciplined => (DSpec => NeverEarly)
<1> SUFFICES ASSUME Disciplined PROVE DSpec => NeverEarly
  OBVIOUS
<1>1. DInit => ExactInv /\ LeftInv
  <2>1. DInit => ExactInv BY InitExact DEF DInit
  <2>2. ASSUME DInit PROVE LeftInv
    <3>1. ~Disposing BY <2>2 DEF DInit, Init, KernelInit, Disposing
    <3>2. DlyList = <<>> BY <2>2 DEF DInit, Init, KernelInit
    <3> QED BY <2>2, <3>1, <3>2, EmptyList DEF DInit, LeftInv
  <2> QED BY <2>1, <2>2
<1>2. ASSUME ExactInv, LeftInv, [DNext]_<<vars, left>>
      PROVE  ExactInv' /\ LeftInv' /\ (DNext => DisposesDue)
  <2>1. [Next]_vars /\ KernelInv BY <1>2 DEF DNext, ExactInv
  <2>2. ExactInv' BY <1>2, <2>1, NextExact
  <2>3. CASE DNext /\ TickEnter BY <1>2, <2>1, <2>2, <2>3, TickKeepsLeft
  <2>4. CASE DNext /\ ~TickEnter
    <3>1. StepAsks BY <2>1, <2>4, NextAsks
    <3> QED BY <1>2, <2>1, <2>2, <2>4, <3>1, PutKeepsLeft DEF StepAsks
  <2>5. CASE UNCHANGED <<vars, left>> /\ ~DNext
    <3>1. LeftInv' BY <1>2, <2>5 DEF LeftInv, vars, Disposing
    <3> QED BY <2>2, <2>5, <3>1
  <2> QED BY <1>2, <2>3, <2>4, <2>5
<1>3. ASSUME ExactInv, LeftInv, [DNext]_<<vars, left>>
      PROVE  [\A c \in Contexts : pc[c] \in {"dispose", "tickdispose"} /\ pc'[c] \in {"unlink", "tickunlink"}
                => left[Head(DlyList)] = 0]_<<vars, left>>
  BY <1>2, <1>3, DueHasSlept DEF DisposesDue, ExactInv
<1> QED BY <1>1, <1>2, <1>3, PTL DEF DSpec, NeverEarly
=============================================================================
