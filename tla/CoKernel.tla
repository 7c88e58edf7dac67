------------------------------ MODULE CoKernel ------------------------------
(***************************************************************************)
(* The CoOS kernel below its API: the scheduler lock and the scheduler     *)
(* (core.c, task.c), the delay list (time.c), the service request queue    *)
(* (serviceReq.c), the waiting lists of the events (event.c) and the       *)
(* exceptions that drive them (portable/arch.c, portable/GCC/port.c).      *)
(*                                                                         *)
(* One CPU runs the contexts: the tasks, the SysTick exception and one     *)
(* user interrupt, Isr.  pc[c] says where context c is in the kernel code. *)
(* A body between OsSchedLock() and OsSchedUnlock() is one step: while the *)
(* lock is held an interrupt only queues requests, and a tick only counts  *)
(* down the head of the delay list and raises flags.  OsSchedUnlock itself *)
(* is a sequence of steps, and so is every unlocked read of the state a    *)
(* caller acts on; the test of a call's parameters is part of its first    *)
(* step.                                                                   *)
(***************************************************************************)
EXTENDS Integers, Sequences, FiniteSets, SequencesExt

CONSTANTS
  Tasks,       \* the TCBs of TCBTbl
  Idle,        \* TCBTbl[0], the task CoInitOS creates
  Events,      \* the ECBs of EventTbl
  Mails,       \* the pointers tasks and interrupts send
  SysTick,     \* the context of SysTick_Handler
  Isr,         \* the context of the user's interrupt handler
  NULL,        \* Co_NULL, and INVALID_ID of an event
  BootOrder,   \* the ready list main() leaves to CoStartOS, idle last
  BootFree,    \* the free TCB list at that point
  BootPrio,    \* the priorities the tasks of BootOrder are created with
  BootEvents,  \* the ECBs created before CoStartOS
  BootFreeEvents,  \* the free event list at that point
  CFG_LOWEST_PRIO, CFG_MAX_SERVICE_REQUEST,
  CFG_MAILBOX_EN, CFG_PAR_CHECKOUT_EN,
  INVALID_VALUE,   \* 0xffffffff: "not in the delay list"
  TickRace         \* may a tick fall between time.c:335 and time.c:336?

EVENT == "0xffffffff"      \* the pmail EventTaskToRdy gives a semaphore waiter

Contexts == Tasks \cup {SysTick, Isr}
MaxU16 == 65535
U16 == 0 .. MaxU16

ASSUME ContextAssumption ==
  /\ Idle \in Tasks
  /\ SysTick \notin Tasks /\ Isr \notin Tasks /\ SysTick # Isr
  /\ NULL \notin Tasks \cup Events \cup Mails
  /\ EVENT \notin Mails \cup {NULL}

\* TCBTbl has a fixed number of TCBs.
ASSUME FiniteAssumption == IsFiniteSet(Tasks)

ASSUME BootAssumption ==
  /\ BootOrder \in Seq(Tasks) /\ BootFree \in Seq(Tasks) /\ BootOrder # <<>>
  /\ BootPrio \in [Tasks -> 0 .. CFG_LOWEST_PRIO]
  /\ Idle = Last(BootOrder)
  \* CreateTask has put each task behind those of its priority
  /\ \A i, j \in DOMAIN BootOrder : i < j => BootPrio[BootOrder[i]] <= BootPrio[BootOrder[j]]
  /\ BootEvents \in [Events -> [eventType : {"SEM", "MBOX", "INVALID"},
       eventSortType : {"FIFO", "PRIO"}, initialEventCounter : U16, eventCounter : U16]]
  \* CoCreateMbox makes an empty mailbox
  /\ \A e \in Events : BootEvents[e].eventType = "MBOX" => BootEvents[e].eventCounter = 0
  /\ BootFreeEvents \in Seq(Events)

ASSUME ConfigAssumption ==
  /\ CFG_LOWEST_PRIO \in Nat /\ CFG_MAX_SERVICE_REQUEST \in Nat \ {0}
  /\ INVALID_VALUE \in Nat \ {0}
  /\ CFG_MAILBOX_EN \in BOOLEAN /\ CFG_PAR_CHECKOUT_EN \in BOOLEAN /\ TickRace \in BOOLEAN

VARIABLES
  state, prio, eventID, pmail,   \* fields of the TCBs
  delay,          \* ticks until a task of DlyList expires: the sum of the
                  \* delayTick fields up to it; INVALID_VALUE outside the list
  TCBRdy, DlyList, FreeTCB,      \* the lists of TCBs, head first
  TCBRunning, TCBNext,
  ecb,            \* eventType, eventSortType, initialEventCounter of the ECBs
  eventCounter, eventPtr, eventTCBList, FreeEventList,
  stalePrev,      \* tasks that are behind no other in an event's list, with a waitPrev all
                  \* the same: it names a task that DeleteEvent took out
  OSSchedLock, TaskSchedReq, IsrReq, TimeReq,
  ServiceReq,     \* the cells between head and head + cnt
  PendSV,         \* is the context switch exception pending?
  pc, ret,        \* where a context is; where OsSchedUnlock() returns to
  arg,            \* the object and the value a task's current call is about
  credit          \* history: per event, posts and takes told E_OK

listVars  == <<state, TCBRdy, TaskSchedReq>>
delayVars == <<delay, DlyList>>
eventVars == <<eventID, pmail, eventCounter, eventPtr, eventTCBList, stalePrev>>
poolVars  == <<prio, FreeTCB, ecb, FreeEventList>>
runVars   == <<TCBRunning, TCBNext, PendSV>>
reqVars   == <<IsrReq, TimeReq, ServiceReq>>
callVars  == <<arg, credit>>
vars == <<state, prio, eventID, pmail, delay, TCBRdy, DlyList, FreeTCB, TCBRunning, TCBNext,
          ecb, eventCounter, eventPtr, eventTCBList, stalePrev, FreeEventList, OSSchedLock, TaskSchedReq,
          IsrReq, TimeReq, ServiceReq, PendSV, pc, ret, arg, credit>>

---------------------------------------------------------------------------
(* Contexts and control *)

\* Interrupts run before SysTick, both run before PendSV, PendSV before tasks.
OnCPU(c) ==
  \/ c = Isr
  \/ c = SysTick /\ pc[Isr] = "off"
  \/ c = TCBRunning /\ pc[Isr] = "off" /\ pc[SysTick] = "off" /\ ~PendSV

At(c, label) == pc[c] = label /\ OnCPU(c)
Goto(c, label) == pc' = [pc EXCEPT ![c] = label]

\* OsSchedLock(); <body>; OsSchedUnlock(); with the body in the same step.
\* A nested unlock only counts down; the outermost one runs the steps below.
LockedSection(c, next) ==
  IF OSSchedLock = 0
  THEN OSSchedLock' = 1 /\ Goto(c, "respond") /\ ret' = [ret EXCEPT ![c] = next]
  ELSE Goto(c, next) /\ UNCHANGED <<OSSchedLock, ret>>

\* A list operation on a TCB that is linked elsewhere: the lists are corrupt
\* from here on, and the model stops the context that did it.
Fault(c) ==
  /\ Goto(c, "fault")
  /\ UNCHANGED <<listVars, delayVars, eventVars, poolVars, runVars, reqVars, OSSchedLock, ret>>

---------------------------------------------------------------------------
(* The lists *)

\* Behind every item whose key is not larger.
InsertBy(list, key, t) ==
  LET later == {i \in 1 .. Len(list) : key[t] < key[list[i]]}
      at == IF later = {} THEN Len(list) + 1 ELSE CHOOSE i \in later : \A j \in later : i <= j
  IN InsertAt(list, at, t)

\* A slip to rule out: the head goes, whatever item was asked for.
UnlinkFirst(list, t) == IF list = <<>> THEN <<>> ELSE Tail(list)

\* A TCB with no links is taken for the only item: the list becomes empty.
Unlink(list, t) ==
  IF Contains(list, t) THEN RemoveAt(list, CHOOSE i \in 1 .. Len(list) : list[i] = t) ELSE <<>>

\* A slip to rule out: a task that goes to the head asks for no scheduling.
InsertQuietly(t) ==
  /\ state' = [state EXCEPT ![t] = "READY"]
  /\ TCBRdy' = InsertBy(TCBRdy, prio, t)
  /\ UNCHANGED TaskSchedReq

InsertToTCBRdyList(t) ==
  /\ state' = [state EXCEPT ![t] = "READY"]
  /\ TCBRdy' = InsertBy(TCBRdy, prio, t)
  /\ TaskSchedReq' = (TaskSchedReq \/ TCBRdy = <<>> \/ prio[t] < prio[Head(TCBRdy)])

\* A slip to rule out: the delay is marked invalid, the task stays in the list.
ForgetDelay(t) ==
  /\ delay' = [delay EXCEPT ![t] = INVALID_VALUE]
  /\ UNCHANGED DlyList

RemoveDelayList(t) ==
  /\ delay' = [delay EXCEPT ![t] = INVALID_VALUE]
  /\ DlyList' = Unlink(DlyList, t)

\* A slip to rule out: the tick that is running already is counted.
LinkDelayShort(t, ticks) ==
  LET d == [delay EXCEPT ![t] = ticks - 1]
  IN delay' = d /\ DlyList' = InsertBy(DlyList, d, t)

\* InsertDelayList without its last two assignments: WAITING, TaskSchedReq.
LinkDelay(t, ticks) ==
  LET d == [delay EXCEPT ![t] = ticks]
  IN delay' = d /\ DlyList' = InsertBy(DlyList, d, t)

\* The back link of each task behind the head names the one in front of it.  That
\* of the head is written by nobody.
Relinked(list) == stalePrev' = stalePrev \ ToSet(Tail(list))

\* A slip to rule out: the sort type of the event is not looked at.
LinkEventLast(e, t) ==
  /\ eventID' = [eventID EXCEPT ![t] = e]
  /\ eventTCBList' = [eventTCBList EXCEPT ![e] = Append(@, t)]
  /\ Relinked(Append(eventTCBList[e], t))

LinkEvent(e, t) ==
  LET list == IF ecb[e].eventSortType = "FIFO" THEN Append(eventTCBList[e], t)
              ELSE InsertBy(eventTCBList[e], prio, t)
  IN /\ eventID' = [eventID EXCEPT ![t] = e]
     /\ eventTCBList' = [eventTCBList EXCEPT ![e] = list]
     /\ Relinked(list)

Block(t) == state' = [state EXCEPT ![t] = "WAITING"] /\ TaskSchedReq' = TRUE

\* A slip to rule out: the task leaves the list and keeps the event's id.
LeaveEventList(t) ==
  /\ eventTCBList' = [eventTCBList EXCEPT ![eventID[t]] = Unlink(@, t)]
  /\ UNCHANGED eventID

\* RemoveEventWaittingList goes by the links of t.  It takes a head whose back link
\* is stale for a task further back (event.c:394); and a task with no links, which
\* is in no list, for the only one, and cuts off all that are in the list.
Misled(t) ==
  LET list == eventTCBList[eventID[t]]
  IN t \in stalePrev \/ (~Contains(list, t) /\ Len(list) > 1)

RemoveEventWaittingList(t) ==
  /\ eventTCBList' = [eventTCBList EXCEPT ![eventID[t]] = Unlink(@, t)]
  /\ eventID' = [eventID EXCEPT ![t] = NULL]

---------------------------------------------------------------------------
(* Posting: the body of CoPostSem and CoPostMail and their EventTaskToRdy  *)

\* A slip to rule out: a semaphore keeps the token it woke a waiter for.
ConsumesMailOnly(e) == ecb[e].eventType = "MBOX"

\* Does waking a waiter take the token back and tell the waiter so?  For
\* semaphores only when mailboxes are compiled in (event.c:346).
Consumes(e) ==
  \/ ecb[e].eventType = "MBOX"
  \/ ecb[e].eventType = "SEM" /\ CFG_MAILBOX_EN

\* The post leaves n in the counter and mail in the box, then wakes a waiter.
PostBody(e, n, mail) ==
  IF eventTCBList[e] = <<>>
  THEN /\ eventCounter' = [eventCounter EXCEPT ![e] = n]
       /\ eventPtr' = [eventPtr EXCEPT ![e] = mail]
       /\ UNCHANGED <<eventTCBList, stalePrev, eventID, pmail, delayVars, listVars>>
  ELSE LET t == Head(eventTCBList[e]) IN
       /\ UNCHANGED stalePrev
       /\ eventTCBList' = [eventTCBList EXCEPT ![e] = Tail(@)]
       /\ eventID' = [eventID EXCEPT ![t] = NULL]
       /\ eventCounter' = [eventCounter EXCEPT ![e] = IF Consumes(e) THEN (n - 1) % 65536 ELSE n]
       /\ pmail' = [pmail EXCEPT ![t] = IF ecb[e].eventType = "MBOX" THEN mail
                                        ELSE IF Consumes(e) THEN EVENT ELSE @]
       /\ eventPtr' = [eventPtr EXCEPT ![e] = IF ecb[e].eventType = "MBOX" THEN NULL ELSE mail]
       /\ IF delay[t] # INVALID_VALUE THEN RemoveDelayList(t) ELSE UNCHANGED delayVars
       /\ IF t = TCBRunning
          THEN state' = [state EXCEPT ![t] = "RUNNING"] /\ UNCHANGED <<TCBRdy, TaskSchedReq>>
          ELSE InsertToTCBRdyList(t)

PostSemBody(e) == PostBody(e, (eventCounter[e] + 1) % 65536, eventPtr[e])
PostMailBody(e, mail) == PostBody(e, 1, mail)

\* What CoPostSem and CoPostMail test before they take the lock.
Accepts(e, type) ==
  /\ CFG_PAR_CHECKOUT_EN => ecb[e].eventType = type
  /\ IF type = "SEM" THEN eventCounter[e] # ecb[e].initialEventCounter ELSE eventCounter[e] = 0

NothingPosted == UNCHANGED <<eventVars, delayVars, listVars>>

---------------------------------------------------------------------------
(* OsSchedUnlock() at lock 1, in the order of its code *)

BeginUnlock(c) ==
  /\ At(c, "respond")
  /\ Goto(c, IF ~IsrReq THEN "sched" ELSE IF TimeReq THEN "dispose" ELSE "cells")
  /\ UNCHANGED <<listVars, delayVars, eventVars, poolVars, runVars, reqVars, callVars, OSSchedLock, ret>>

Expired == DlyList # <<>> /\ delay[Head(DlyList)] = 0

\* TimeDispose, up to and with delayTick = INVALID_VALUE (time.c:335).
\* "dispose" is its call in RespondSRQ, "tickdispose" the one in SysTick.  Where the
\* list of an event would be corrupt from here on, the model stops the context.
DisposeHead(c) ==
  /\ At(c, "dispose") \/ At(c, "tickdispose")
  /\ Expired
  /\ eventID[Head(DlyList)] # NULL => ~Misled(Head(DlyList))
  /\ LET t == Head(DlyList) IN
     /\ delay' = [delay EXCEPT ![t] = INVALID_VALUE]
     /\ IF eventID[t] # NULL THEN RemoveEventWaittingList(t) ELSE UNCHANGED <<eventID, eventTCBList>>
  /\ Goto(c, IF pc[c] = "dispose" THEN "unlink" ELSE "tickunlink")
  /\ UNCHANGED <<listVars, DlyList, pmail, eventCounter, eventPtr, stalePrev, poolVars, runVars,
                 reqVars, callVars, OSSchedLock, ret>>

UnlinkHead(c) ==
  /\ At(c, "unlink") \/ At(c, "tickunlink")
  /\ DlyList' = Tail(DlyList)
  /\ InsertToTCBRdyList(Head(DlyList))
  /\ Goto(c, IF pc[c] = "unlink" THEN "dispose" ELSE "tickdispose")
  /\ UNCHANGED <<delay, eventVars, poolVars, runVars, reqVars, callVars, OSSchedLock, ret>>

EndDispose(c) ==
  /\ At(c, "dispose") \/ At(c, "tickdispose")
  /\ ~Expired
  /\ Goto(c, IF pc[c] = "dispose" THEN "timeclr" ELSE "respond")
  /\ UNCHANGED <<listVars, delayVars, eventVars, poolVars, runVars, reqVars, callVars, OSSchedLock, ret>>

ClearTimeReq(c) ==
  /\ At(c, "timeclr")
  /\ TimeReq' = FALSE
  /\ Goto(c, "cells")
  /\ UNCHANGED <<listVars, delayVars, eventVars, poolVars, runVars, IsrReq, ServiceReq, callVars,
                 OSSchedLock, ret>>

\* The lock is held: no interrupt can change the counter between the test
\* and the body of the post, so a cell is one step.
RespondCell(c) ==
  /\ At(c, "cells")
  /\ ServiceReq # <<>>
  /\ LET cell == Head(ServiceReq) IN
     \/ cell.type = "SEM" /\ Accepts(cell.id, "SEM") /\ PostSemBody(cell.id)
     \/ cell.type = "MBOX" /\ Accepts(cell.id, "MBOX") /\ PostMailBody(cell.id, cell.arg)
     \/ ~Accepts(cell.id, cell.type) /\ NothingPosted
  /\ ServiceReq' = Tail(ServiceReq)
  /\ UNCHANGED <<poolVars, runVars, IsrReq, TimeReq, callVars, OSSchedLock, pc, ret>>

EndCells(c) ==
  /\ At(c, "cells")
  /\ ServiceReq = <<>>
  /\ Goto(c, "isrclr")
  /\ UNCHANGED <<listVars, delayVars, eventVars, poolVars, runVars, reqVars, callVars, OSSchedLock, ret>>

\* A slip to rule out: a request queued since the last cell is not seen.
ClearIsrReqBlindly(c) ==
  /\ At(c, "isrclr")
  /\ IsrReq' = FALSE
  /\ Goto(c, "sched")
  /\ UNCHANGED <<listVars, delayVars, eventVars, poolVars, runVars, TimeReq, ServiceReq, callVars,
                 OSSchedLock, ret>>

ClearIsrReq(c) ==
  /\ At(c, "isrclr")
  /\ IsrReq' = (IsrReq /\ ServiceReq # <<>>)
  /\ Goto(c, "sched")
  /\ UNCHANGED <<listVars, delayVars, eventVars, poolVars, runVars, TimeReq, ServiceReq, callVars,
                 OSSchedLock, ret>>

\* Slips to rule out: the lock is not looked at; a running task is not preempted.
ScheduleUnlocked(level, nesting) ==
  IF TCBRdy = <<>> \/ TCBRunning # TCBNext
  THEN UNCHANGED <<listVars, TCBNext, PendSV>>
  ELSE LET rdy == Head(TCBRdy)
       IN /\ TaskSchedReq' = FALSE
          /\ IF state[TCBRunning] # "RUNNING" \/ prio[rdy] < prio[TCBRunning]
             THEN /\ state' = IF state[TCBRunning] = "RUNNING"
                              THEN [state EXCEPT ![TCBRunning] = "READY", ![rdy] = "RUNNING"]
                              ELSE [state EXCEPT ![rdy] = "RUNNING"]
                  /\ TCBRdy' = IF state[TCBRunning] = "RUNNING"
                               THEN Unlink(InsertBy(TCBRdy, prio, TCBRunning), rdy) ELSE Tail(TCBRdy)
                  /\ TCBNext' = rdy /\ PendSV' = TRUE
             ELSE UNCHANGED <<state, TCBRdy, TCBNext, PendSV>>
ScheduleCooperatively(level, nesting) ==
  IF TCBRdy = <<>> \/ TCBRunning # TCBNext \/ level > 1 \/ nesting > 0 \/ state[TCBRunning] = "RUNNING"
  THEN UNCHANGED <<listVars, TCBNext, PendSV>>
  ELSE /\ TaskSchedReq' = FALSE
       /\ state' = [state EXCEPT ![Head(TCBRdy)] = "RUNNING"]
       /\ TCBRdy' = Tail(TCBRdy)
       /\ TCBNext' = Head(TCBRdy) /\ PendSV' = TRUE

\* Schedule() called with the lock at level and OSIntNesting at nesting.
Schedule(level, nesting) ==
  IF TCBRdy = <<>> \/ TCBRunning # TCBNext \/ level > 1 \/ nesting > 0
  THEN UNCHANGED <<listVars, TCBNext, PendSV>>
  ELSE LET cur == TCBRunning
           rdy == Head(TCBRdy)
       IN /\ TaskSchedReq' = FALSE
          /\ \/ /\ state[cur] # "RUNNING"
                /\ state' = [state EXCEPT ![rdy] = "RUNNING"]
                /\ TCBRdy' = Tail(TCBRdy)
                /\ TCBNext' = rdy /\ PendSV' = TRUE
             \/ /\ state[cur] = "RUNNING" /\ prio[rdy] < prio[cur]
                /\ state' = [state EXCEPT ![cur] = "READY", ![rdy] = "RUNNING"]
                /\ TCBRdy' = Unlink(InsertBy(TCBRdy, prio, cur), rdy)
                /\ TCBNext' = rdy /\ PendSV' = TRUE
             \/ /\ state[cur] = "RUNNING" /\ prio[rdy] >= prio[cur]
                /\ UNCHANGED <<state, TCBRdy, TCBNext, PendSV>>

InHandler == IF pc[Isr] = "off" THEN 0 ELSE 1

\* A slip to rule out: the unlock of a handler leaves scheduling to the tasks.
UnlockNoSchedule(c) ==
  /\ At(c, "sched")
  /\ IF TaskSchedReq /\ c \in Tasks THEN Schedule(OSSchedLock, InHandler)
     ELSE UNCHANGED <<listVars, TCBNext, PendSV>>
  /\ Goto(c, "clear")
  /\ UNCHANGED <<delayVars, eventVars, poolVars, TCBRunning, reqVars, callVars, OSSchedLock, ret>>

UnlockSchedule(c) ==
  /\ At(c, "sched")
  /\ IF TaskSchedReq THEN Schedule(OSSchedLock, InHandler) ELSE UNCHANGED <<listVars, TCBNext, PendSV>>
  /\ Goto(c, "clear")
  /\ UNCHANGED <<delayVars, eventVars, poolVars, TCBRunning, reqVars, callVars, OSSchedLock, ret>>

ClearLock(c) ==
  /\ At(c, "clear")
  /\ OSSchedLock' = 0
  /\ Goto(c, ret[c])
  /\ UNCHANGED <<listVars, delayVars, eventVars, poolVars, runVars, reqVars, callVars, ret>>

UnlockStep(c) ==
  \/ BeginUnlock(c) \/ DisposeHead(c) \/ UnlinkHead(c) \/ EndDispose(c) \/ ClearTimeReq(c)
  \/ RespondCell(c) \/ EndCells(c) \/ ClearIsrReq(c) \/ UnlockSchedule(c) \/ ClearLock(c)

---------------------------------------------------------------------------
(* The exceptions *)

Disposing == \E c \in Contexts : pc[c] \in {"unlink", "tickunlink"}

\* Slips to rule out: the handler does not look at the lock; it leaves no
\* request behind when the lock is held.
TickThroughLock ==
  /\ pc[SysTick] = "off" /\ pc[Isr] = "off" /\ ~PendSV
  /\ LET due == DlyList # <<>> /\ delay[Head(DlyList)] <= 1
     IN /\ delay' = [t \in Tasks |-> IF Contains(DlyList, t) /\ delay[Head(DlyList)] > 0
                                     THEN delay[t] - 1 ELSE delay[t]]
        /\ TaskSchedReq' = TRUE
        /\ OSSchedLock' = 1 /\ Goto(SysTick, IF due THEN "tickdispose" ELSE "respond")
  /\ UNCHANGED <<state, TCBRdy, DlyList, eventVars, poolVars, runVars, reqVars, callVars, ret>>
TickWithoutRequest ==
  /\ pc[SysTick] = "off" /\ pc[Isr] = "off" /\ ~PendSV
  /\ ~Disposing
  /\ delay' = [t \in Tasks |-> IF Contains(DlyList, t) /\ delay[Head(DlyList)] > 0
                               THEN delay[t] - 1 ELSE delay[t]]
  /\ TaskSchedReq' = TRUE
  /\ IF OSSchedLock > 0 THEN UNCHANGED <<OSSchedLock, pc>>
     ELSE /\ OSSchedLock' = 1
          /\ Goto(SysTick, IF DlyList # <<>> /\ delay[Head(DlyList)] <= 1 THEN "tickdispose" ELSE "respond")
  /\ UNCHANGED <<state, TCBRdy, DlyList, eventVars, poolVars, runVars, reqVars, callVars, ret>>

\* SysTick_Handler: same priority as PendSV, never preempts itself or Isr.  A head
\* that TimeDispose has marked invalid already is counted down once more.
TickEnter ==
  /\ pc[SysTick] = "off" /\ pc[Isr] = "off" /\ ~PendSV
  /\ Disposing => TickRace
  /\ LET due == DlyList # <<>> /\ delay[Head(DlyList)] <= 1
         held == OSSchedLock > 0
     IN /\ delay' = IF DlyList = <<>> THEN delay
                    ELSE IF Disposing THEN [delay EXCEPT ![Head(DlyList)] = IF @ > 1 THEN @ - 1 ELSE 0]
                    ELSE [t \in Tasks |-> IF Contains(DlyList, t) /\ delay[Head(DlyList)] > 0
                                          THEN delay[t] - 1 ELSE delay[t]]
        /\ IsrReq' = (IsrReq \/ (held /\ due))
        /\ TimeReq' = (TimeReq \/ (held /\ due))
        /\ TaskSchedReq' = TRUE
        /\ IF held THEN UNCHANGED <<OSSchedLock, pc>>
           ELSE OSSchedLock' = 1 /\ Goto(SysTick, IF due THEN "tickdispose" ELSE "respond")
  /\ UNCHANGED <<state, TCBRdy, DlyList, eventVars, poolVars, runVars, ServiceReq, callVars, ret>>

\* The context switch that Schedule pended.
PendSV_Handler ==
  /\ PendSV /\ pc[SysTick] = "off" /\ pc[Isr] = "off"
  /\ PendSV' = FALSE
  /\ TCBRunning' = TCBNext
  /\ OSSchedLock' = 0
  /\ UNCHANGED <<listVars, delayVars, eventVars, poolVars, TCBNext, reqVars, callVars, pc, ret>>

\* A slip to rule out: the queue of requests is not tested for room.
IsrPostUnbounded(type, e, mail, Body) ==
  /\ pc[Isr] = "off"
  /\ OSSchedLock > 0
  /\ ServiceReq' = Append(ServiceReq, [type |-> type, id |-> e, arg |-> mail])
  /\ IsrReq' = TRUE
  /\ credit' = [credit EXCEPT ![e] = @ + 1]
  /\ Goto(Isr, "isrexit")
  /\ NothingPosted
  /\ UNCHANGED <<OSSchedLock, ret, poolVars, runVars, TimeReq, arg>>

\* CoEnterISR(), then isr_PostSem(e) or isr_PostMail(e, mail), in the user's
\* handler.  The handler is told E_OK when the request is queued.
IsrPost(type, e, mail, Body) ==
  /\ pc[Isr] = "off"
  /\ IF OSSchedLock > 0
     THEN /\ IF Len(ServiceReq) < CFG_MAX_SERVICE_REQUEST
             THEN /\ ServiceReq' = Append(ServiceReq, [type |-> type, id |-> e, arg |-> mail])
                  /\ IsrReq' = TRUE
                  /\ credit' = [credit EXCEPT ![e] = @ + 1]
             ELSE UNCHANGED <<ServiceReq, IsrReq, credit>>
          /\ Goto(Isr, "isrexit")
          /\ UNCHANGED <<OSSchedLock, ret>>
          /\ NothingPosted
     ELSE /\ IF Accepts(e, type)
             THEN Body /\ LockedSection(Isr, "isrexit") /\ credit' = [credit EXCEPT ![e] = @ + 1]
             ELSE NothingPosted /\ Goto(Isr, "isrexit") /\ UNCHANGED <<OSSchedLock, ret, credit>>
          /\ UNCHANGED <<ServiceReq, IsrReq>>
  /\ UNCHANGED <<poolVars, runVars, TimeReq, arg>>

\* CoExitISR()
IsrExit ==
  /\ pc[Isr] = "isrexit"
  /\ IF TaskSchedReq THEN Schedule(OSSchedLock + 1, 0) ELSE UNCHANGED <<listVars, TCBNext, PendSV>>
  /\ Goto(Isr, "off")
  /\ UNCHANGED <<delayVars, eventVars, poolVars, TCBRunning, reqVars, callVars, OSSchedLock, ret>>

isr_PostSem(e) == IsrPost("SEM", e, NULL, PostSemBody(e))
isr_PostMail(e, mail) == IsrPost("MBOX", e, mail, PostMailBody(e, mail))

---------------------------------------------------------------------------
(* CoStartOS: idle is made the running task and the first unlock begins.   *)
(* The last TCB is not set DORMANT by CreateTCBList (task.c:82): READY is  *)
(* the value 0 its memory starts with.                                     *)
NeverUsed(t) == ~Contains(BootOrder, t)

KernelInit ==
  /\ state = [t \in Tasks |-> IF t = Idle THEN "RUNNING"
                               ELSE IF NeverUsed(t) /\ t # Last(BootFree) THEN "DORMANT" ELSE "READY"]
  /\ prio = BootPrio
  /\ eventID = [t \in Tasks |-> NULL]
  /\ pmail = [t \in Tasks |-> NULL]
  /\ delay = [t \in Tasks |-> INVALID_VALUE]
  /\ TCBRdy = Front(BootOrder) /\ DlyList = <<>> /\ FreeTCB = BootFree
  /\ TCBRunning = Idle /\ TCBNext = Idle
  /\ ecb = [e \in Events |-> [eventType |-> BootEvents[e].eventType,
                              eventSortType |-> BootEvents[e].eventSortType,
                              initialEventCounter |-> BootEvents[e].initialEventCounter]]
  /\ eventCounter = [e \in Events |-> BootEvents[e].eventCounter]
  /\ eventPtr = [e \in Events |-> NULL]
  /\ eventTCBList = [e \in Events |-> <<>>] /\ stalePrev = {}
  /\ FreeEventList = BootFreeEvents
  /\ OSSchedLock = 1 /\ TaskSchedReq = TRUE
  /\ IsrReq = FALSE /\ TimeReq = FALSE /\ ServiceReq = <<>> /\ PendSV = FALSE
  /\ pc = [c \in Contexts |-> IF c = Idle THEN "respond" ELSE IF NeverUsed(c) THEN "off" ELSE "app"]
  /\ ret = [c \in Contexts |-> IF c = SysTick THEN "off" ELSE IF c = Isr THEN "isrexit" ELSE "app"]
  /\ arg = [t \in Tasks |-> [on |-> NULL, val |-> 0]]
  /\ credit = eventCounter

=============================================================================
