------------------------------- MODULE CoOS ---------------------------------
(***************************************************************************)
(* The kernel and its task, semaphore and mailbox APIs composed: the       *)
(* scheduler picks the task, the task makes the calls of Api, ticks and    *)
(* the user's interrupt fall between any two steps.                        *)
(***************************************************************************)
EXTENDS CoSem, CoMbox

Init == KernelInit

\* A task's next call; the rest of the call it is in.
Call(t) == TaskCall(t) \/ EventCall(t) \/ SemCall(t) \/ MboxCall(t)
Step(t) == UnlockStep(t) \/ TaskStep(t) \/ EventStep(t) \/ SemStep(t) \/ MboxStep(t)

Interrupt ==
  \E e \in Events :
    /\ credit[e] < MaxCredit[e]
    /\ \/ <<Isr, "isr_PostSem">> \in Api /\ ecb[e].eventType = "SEM" /\ isr_PostSem(e)
       \/ /\ <<Isr, "isr_PostMail">> \in Api /\ ecb[e].eventType = "MBOX"
          /\ \E mail \in Mails : isr_PostMail(e, mail)

Next ==
  \/ \E t \in Tasks : Call(t) \/ Step(t)
  \/ TickEnter \/ UnlockStep(SysTick)
  \/ Interrupt \/ UnlockStep(Isr) \/ IsrExit
  \/ PendSV_Handler

Spec == Init /\ [][Next]_vars

\* The timer ticks whatever the CPU does, and a pending SysTick is taken once
\* no other handler is active; an exception that is active is served; a task
\* that has the CPU again and again gets through its call.  No task has to
\* make a call, and the user's interrupt need not come.
Fairness ==
  /\ SF_vars(TickEnter)
  /\ SF_vars(UnlockStep(SysTick)) /\ WF_vars(UnlockStep(Isr)) /\ WF_vars(IsrExit)
  /\ WF_vars(PendSV_Handler)
  /\ \A t \in Tasks : SF_vars(Step(t))

FairSpec == Spec /\ Fairness

---------------------------------------------------------------------------
(* Types *)

States == {"READY", "RUNNING", "WAITING", "DORMANT"}
UnlockLabels == {"respond", "dispose", "unlink", "tickdispose", "tickunlink", "timeclr", "cells",
                 "isrclr", "sched"}
TaskArgLabels == {"reset", "init", "initwait", "delete", "suspend", "awake", "reorder", "resched",
                  "unwait", "rewait"}
EventArgLabels == {"initevent", "release", "free", "semblock", "semwoken", "mailblock", "mailwoken",
                   "decrement", "postsem", "postmail", "delwaiter"}
\* The steps of the mutex calls (CoMutex), which the application of CoSync makes.
MutexLabels == {"initmutex", "entered"}
Labels == UnlockLabels \cup TaskArgLabels \cup EventArgLabels \cup MutexLabels
          \cup {"app", "off", "isrexit", "clear", "fault"}
ReturnLabels == (TaskArgLabels \cup EventArgLabels \cup MutexLabels \cup {"app"}) \ {"delwaiter"}
Requests == [type : {"SEM", "MBOX"}, id : Events, arg : Mails \cup {NULL}]

\* Where task t goes on in its call, once it has left OsSchedUnlock.
After(t) == IF pc[t] \in UnlockLabels \cup {"clear"} THEN ret[t] ELSE pc[t]

\* The arguments of a call suit the step it has come to.
Fits(label, a) ==
  /\ label \in TaskArgLabels => a.on \in Tasks
  /\ label \in EventArgLabels => a.on \in Events
  /\ label = "reset" => a.val \in 0 .. INVALID_VALUE - 1
  /\ label \in {"semblock", "semwoken", "mailblock", "mailwoken"} => a.val \in Timeouts
  /\ label \in {"init", "initwait"} => a.val \in 0 .. CFG_LOWEST_PRIO
  /\ label \in {"unwait", "rewait"} => a.val \in Events
  /\ label = "initevent" => a.val \in NewEvents
  /\ label = "postmail" => a.val \in Mails
ArgOK(t) == Fits(After(t), arg[t])

ListTypes ==
  state \in [Tasks -> States] /\ TCBRdy \in Seq(Tasks) /\ TaskSchedReq \in BOOLEAN
DelayTypes == delay \in [Tasks -> Int] /\ DlyList \in Seq(Tasks)
EventTypes ==
  /\ eventID \in [Tasks -> Events \cup {NULL}] /\ pmail \in [Tasks -> Mails \cup {NULL, EVENT}]
  /\ eventCounter \in [Events -> U16] /\ eventPtr \in [Events -> Mails \cup {NULL}]
  /\ eventTCBList \in [Events -> Seq(Tasks)] /\ stalePrev \subseteq Tasks
PoolTypes ==
  /\ prio \in [Tasks -> 0 .. CFG_LOWEST_PRIO] /\ FreeTCB \in Seq(Tasks)
  /\ ecb \in [Events -> [eventType : {"SEM", "MBOX", "INVALID"}, eventSortType : {"FIFO", "PRIO"},
                         initialEventCounter : U16]]
  /\ FreeEventList \in Seq(Events)
RunTypes == TCBRunning \in Tasks /\ TCBNext \in Tasks /\ PendSV \in BOOLEAN
ReqTypes ==
  /\ IsrReq \in BOOLEAN /\ TimeReq \in BOOLEAN
  /\ ServiceReq \in Seq(Requests) /\ Len(ServiceReq) <= CFG_MAX_SERVICE_REQUEST
ControlTypes ==
  /\ OSSchedLock \in Nat
  /\ pc \in [Contexts -> Labels] /\ ret \in [Contexts -> ReturnLabels \cup {"off", "isrexit"}]
CallTypes ==
  DOMAIN arg = Tasks /\ (\A t \in Tasks : ArgOK(t)) /\ credit \in [Events -> Int]

\* Every variable has its type, the arguments of a call suit its next step,
\* and the queue of requests is bounded.
TypeOK ==
  /\ ListTypes /\ DelayTypes /\ EventTypes /\ PoolTypes /\ RunTypes /\ ReqTypes
  /\ ControlTypes /\ CallTypes

---------------------------------------------------------------------------
(* The scheduler lock *)

\* Inside a locked section: a task until OsSchedUnlock has scheduled, a
\* handler until it has written the lock.
LockLabels == UnlockLabels \cup {"delwaiter"}
Locking(c) ==
  \/ pc[c] \in LockLabels
  \/ c \in {SysTick, Isr} /\ pc[c] = "clear"

\* At most one context is inside a locked section, the lock is taken while
\* it is, and a task inside one is the running task: the ready, delay and
\* event lists have one writer although ticks and interrupts fall into the
\* section (OSSchedLock in core.c, SysTick_Handler, isr_PostSem).
OneWriter ==
  /\ \A c, d \in Contexts : Locking(c) /\ Locking(d) => c = d
  /\ \A c \in Contexts : Locking(c) => OSSchedLock > 0
  /\ \A t \in Tasks : Locking(t) => t = TCBRunning

\* A context switch never takes the CPU from a task that holds the
\* scheduler lock: it falls behind the task's own Schedule() or at lock 0
\* (CoSchedLock, OsSchedUnlock, CoExitISR, PendSV_Handler).
LockKeepsCpu ==
  [][TCBRunning' # TCBRunning => OSSchedLock = 0 \/ pc[TCBRunning] = "clear"]_vars

\* What makes both inductive: a switch is pended only by a task that is through
\* with its lock, by a handler that will write the lock before it ends, or at
\* lock 0; and an unlock returns to a step outside the lock.
LockInv ==
  /\ OSSchedLock \in Nat /\ DOMAIN pc = Contexts /\ DOMAIN ret = Contexts
  /\ ret[SysTick] = "off" /\ ret[Isr] = "isrexit"
  /\ \A t \in Tasks : ret[t] \in ReturnLabels
  /\ OneWriter
  /\ PendSV => /\ \A t \in Tasks : ~Locking(t)
               /\ OSSchedLock = 0 \/ pc[TCBRunning] = "clear" \/ Locking(SysTick) \/ Locking(Isr)

---------------------------------------------------------------------------
(* The lists *)

NoFault == \A c \in Contexts : pc[c] # "fault"

\* The ready list holds the READY tasks that were ever created, each once, and
\* the RUNNING task is the one the CPU has or is about to get (TCBRdy, TCBNext,
\* Schedule and InsertToTCBRdyList in task.c).
ReadyListExact ==
  /\ IsInjective(TCBRdy) /\ IsInjective(FreeTCB)
  /\ \A t \in Tasks : Contains(TCBRdy, t) <=> state[t] = "READY" /\ pc[t] # "off"
  /\ \A t \in Tasks : state[t] = "RUNNING" => t = TCBNext /\ ~Contains(FreeTCB, t)
  /\ PendSV \/ TCBRunning = TCBNext

\* A tick between time.c:335 and 336 counts the delay of the task that is taken out
\* of the list down from the mark "not in the list": the task goes on with a valid
\* delay, until its next one.  That must not be seen while it is in a list: only a
\* task that waits for nothing, or for a mutex, has such a delay.
Spoilt(t) ==
  /\ TickRace
  /\ state[t] # "WAITING" \/ (ret[t] = "entered" /\ eventID[t] = NULL)

\* A task is in the delay list exactly while its delay is valid, but for one the
\* tick has spoilt; in the list of the event its eventID names and in no other; and
\* only while WAITING.
WaitListsExact ==
  /\ IsInjective(DlyList)
  /\ \A t \in Tasks : Contains(DlyList, t) =>
       state[t] = "WAITING" /\ (delay[t] # INVALID_VALUE \/ Disposing)
  /\ \A t \in Tasks : delay[t] # INVALID_VALUE =>
       delay[t] \in 0 .. INVALID_VALUE /\ (Contains(DlyList, t) \/ Spoilt(t))
  /\ \A e \in Events : IsInjective(eventTCBList[e])
  /\ \A t \in Tasks, e \in Events : Contains(eventTCBList[e], t) <=> eventID[t] = e
  /\ \A t \in Tasks : eventID[t] # NULL => state[t] = "WAITING"

ListsExact == NoFault /\ ReadyListExact /\ WaitListsExact

\* The tasks CoSetPriority has given a priority and not yet moved.
Moving == {arg[t].on : t \in {u \in Tasks : pc[u] \in {"reorder", "unwait"}}}

SortedBy(list, key) ==
  \A i, j \in DOMAIN list : i < j => key[list[i]] <= key[list[j]] \/ {list[i], list[j]} \cap Moving # {}

\* The ready list and the PRIO waiting lists are in priority order, but for a
\* task CoSetPriority is about to move.
PriorityOrder ==
  /\ SortedBy(TCBRdy, prio)
  /\ \A e \in Events : ecb[e].eventSortType = "PRIO" => SortedBy(eventTCBList[e], prio)

\* When no switch, unlock, request or change of priority is under way, the
\* running task is RUNNING and no ready task has a higher priority (Schedule,
\* InsertToTCBRdyList; the callers of both set TaskSchedReq).
Settled == ~PendSV /\ OSSchedLock = 0 /\ ~TaskSchedReq /\ pc[SysTick] = "off" /\ pc[Isr] = "off"
           /\ \A t \in Tasks : pc[t] \notin {"reorder", "resched"}
HighestRuns ==
  Settled => /\ state[TCBRunning] = "RUNNING"
             /\ TCBRdy # <<>> => prio[TCBRunning] <= prio[Head(TCBRdy)]

---------------------------------------------------------------------------
(* Semaphores and mailboxes *)

Granted(e) == {t \in Tasks : pmail[t] # NULL /\ arg[t].on = e}
Requested(e) == {i \in DOMAIN ServiceReq : ServiceReq[i].id = e}

\* Every post told E_OK is still in the counter, with a waiter that was woken
\* for it, or in the request queue, until a take is told E_OK.
TokensConserved ==
  \A e \in Events : ecb[e].eventType # "INVALID" =>
    eventCounter[e] + Cardinality(Granted(e)) + Cardinality(Requested(e)) = credit[e]

\* Posts and takes keep the promise of the abstract semaphore: tokens come from
\* posts that were accepted and each is taken at most once.
Tokens == INSTANCE Semaphore WITH tokens <- credit, Initial <- [e \in Events |-> BootEvents[e].eventCounter]
TokenPromise == Tokens!Spec

\* No more takes are told E_OK than tokens were there and posted.
NeverOverdrawn == \A e \in Events : credit[e] >= 0

\* A mailbox holds a mail exactly when its counter says so.
MailboxHonest ==
  \A e \in Events : ecb[e].eventType = "MBOX" => (eventCounter[e] = 1 <=> eventPtr[e] # NULL)

---------------------------------------------------------------------------
(* Progress, where no task keeps the scheduler locked *)

\* A delay and a time-out end: the task leaves the delay list (SysTick_Handler,
\* isr_TimeDispose, RespondSRQ, TimeDispose).
DelayEnds == \A t \in Tasks : Contains(DlyList, t) ~> ~Contains(DlyList, t)

\* Requests that interrupts queued while the lock was held are served: the
\* unlock that ends the locked section finds them (InsertInSRQ, RespondSRQ).
RequestsServed == (ServiceReq # <<>>) ~> (ServiceReq = <<>>)

\* A ready task that no task but itself has priority over gets the CPU.
Top(t) == \A u \in Tasks \ {t} : prio[u] > prio[t]
TopTaskRuns == \A t \in Tasks : (state[t] = "READY" /\ Top(t) /\ pc[t] # "off") ~> TCBRunning = t

---------------------------------------------------------------------------
(* Applications that use the API as it can be used *)

\* Calls that leave a task or an event where another call does not expect it:
\* CoSuspendTask tests the task and stops it in two steps, and a deleted event
\* may be the object of a call that has passed its test.
Forbidden == {"CoSuspendTask", "CoCreateSem", "CoCreateMbox", "CoDelSem", "CoDelMbox"}

\* Calls that act on the state another task was found in.
Manage == {"CoResetTaskDelayTick", "CoDelTask", "CoAwakeTask", "CoSetPriority"}

\* What a task whose delay a tick has spoilt must not do: wait for an event without
\* a time-out, or have its delay reset.
TimedWaits == 0 \notin Timeouts /\ \A call \in Api : call[2] # "CoResetTaskDelayTick"

\* Where a tick may fall into TimeDispose, waits are timed; idle only computes;
\* another task is managed under CoSchedLock, with its state checked, and never woken
\* by a delay of 0 (time.c:243); each TCB is created once or free at CoStartOS, and
\* the one CreateTCBList leaves READY (task.c:82) is not managed.
Disciplined ==
  /\ TickRace => TimedWaits
  /\ \A call \in Api : /\ call[1] # Idle /\ call[2] \notin Forbidden
                       /\ call[2] \in Manage => CFG_PAR_CHECKOUT_EN /\ LockToManage /\ 0 \notin Delays
                       /\ call[2] = "CoPostMail" => CFG_PAR_CHECKOUT_EN
  /\ IsInjective(BootOrder) /\ IsInjective(BootFree)
  /\ \A t \in Tasks : Contains(BootOrder, t) <=> ~Contains(BootFree, t)
  /\ BootFree # <<>> => Last(BootFree) \notin Ids
  /\ \A e \in Events : Contains(BootFreeEvents, e) => BootEvents[e].eventType = "INVALID"

\* In such an application a call that is about an event finds one of its type,
\* and no token is taken behind the lock it was tested under (CoAcceptSem) or
\* given to a waiter that is not told so (a kernel without mailboxes).
TypedCalls == Disciplined /\ CFG_PAR_CHECKOUT_EN
TokenRules == TypedCalls /\ CFG_MAILBOX_EN /\ \A call \in Api : call[2] # "CoAcceptSem"

=============================================================================
