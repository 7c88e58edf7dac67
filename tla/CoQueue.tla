------------------------------ MODULE CoQueue ------------------------------
(***************************************************************************)
(* The message queues of CoOS (queue.c) and the queue branch of            *)
(* EventTaskToRdy (event.c): a ring of mails behind an event.              *)
(***************************************************************************)
EXTENDS CoOS

CONSTANTS CFG_MAX_QUEUE, QueueSizes, QueueSorts

Queues == 0 .. CFG_MAX_QUEUE - 1

VARIABLES
  QueueTbl,        \* qStart (the ring, NULL when there is none), head, tail, qMaxSize, qSize
  QueueIDVessel,   \* the ids of the control blocks in use
  got              \* history: the mail a task's call returned last

queueVars == <<QueueTbl, QueueIDVessel, got>>

NoQueue == [qStart |-> NULL, head |-> 0, tail |-> 0, qMaxSize |-> 0, qSize |-> 0]

QueueInit ==
  /\ QueueTbl = [q \in Queues |-> NoQueue]
  /\ QueueIDVessel = {}
  /\ got = [t \in Tasks |-> NULL]

IsQueue(e) == ecb[e].eventType = "QUEUE"
QCB(e) == QueueTbl[eventPtr[e]]

---------------------------------------------------------------------------
(* The ring *)

\* A slip to rule out: an index that does not wrap in time.
WrapLate(i, max) == IF i = max + 1 THEN 0 ELSE i

Wrap(i, max) == IF i = max THEN 0 ELSE i

\* The oldest mail is at head; it is taken.  The pointer left behind in the
\* ring is never read again and modelled as NULL.
Oldest(qcb) == qcb.qStart[qcb.head]
Take(qcb) ==
  [qcb EXCEPT !.qStart[qcb.head] = NULL, !.head = Wrap(@ + 1, qcb.qMaxSize), !.qSize = @ - 1]
Put(qcb, mail) ==
  [qcb EXCEPT !.qStart[qcb.tail] = mail, !.tail = Wrap(@ + 1, qcb.qMaxSize), !.qSize = @ + 1]

Full(qcb) == qcb.qSize = qcb.qMaxSize

\* The locked body of CoPostQueueMail, with EventTaskToRdy: the first waiting
\* task is given the oldest mail.
PostQueueBody(e, mail) ==
  LET with == Put(QCB(e), mail) IN
  IF eventTCBList[e] = <<>>
  THEN /\ QueueTbl' = [QueueTbl EXCEPT ![eventPtr[e]] = with]
       /\ UNCHANGED <<eventTCBList, stalePrev, eventID, pmail, delayVars, listVars>>
  ELSE LET t == Head(eventTCBList[e]) IN
       /\ UNCHANGED stalePrev
       /\ QueueTbl' = [QueueTbl EXCEPT ![eventPtr[e]] = Take(with)]
       /\ pmail' = [pmail EXCEPT ![t] = Oldest(with)]
       /\ eventTCBList' = [eventTCBList EXCEPT ![e] = Tail(@)]
       /\ eventID' = [eventID EXCEPT ![t] = NULL]
       /\ IF delay[t] # INVALID_VALUE THEN RemoveDelayList(t) ELSE UNCHANGED delayVars
       /\ IF t = TCBRunning
          THEN state' = [state EXCEPT ![t] = "RUNNING"] /\ UNCHANGED <<TCBRdy, TaskSchedReq>>
          ELSE InsertToTCBRdyList(t)

\* CoPostQueueMail in a context nothing can interrupt.
PostQueueAtOnce(e, mail) ==
  IF IsQueue(e) /\ ~Full(QCB(e))
  THEN PostQueueBody(e, mail)
  ELSE UNCHANGED <<QueueTbl, eventTCBList, stalePrev, eventID, pmail, delayVars, listVars>>

---------------------------------------------------------------------------
(* Creating and deleting *)

FreeIds == Queues \ QueueIDVessel

CoCreateQueue(t, size, sort) ==
  /\ Calls(t, "CoCreateQueue")
  /\ IF FreeIds = {} THEN LockedSection(t, "app") /\ UNCHANGED <<QueueIDVessel, arg>>
     ELSE LET id == CHOOSE i \in FreeIds : \A j \in FreeIds : i <= j IN
          /\ QueueIDVessel' = QueueIDVessel \cup {id}
          /\ WithArg(t, id, [size |-> size, sort |-> sort])
          /\ LockedSection(t, "initqueue")
  /\ UNCHANGED <<listVars, delayVars, eventVars, poolVars, runVars, reqVars, credit, QueueTbl, got>>

\* The block, not known to anyone yet, is filled in; CreatEvent takes an ECB.
\* Without one the call fails and keeps the block.
InitQueue(t) ==
  /\ At(t, "initqueue")
  /\ LET size == arg[t].val.size IN
     QueueTbl' = [QueueTbl EXCEPT ![arg[t].on] =
       [qStart |-> [i \in 0 .. size - 1 |-> NULL], head |-> 0, tail |-> 0, qMaxSize |-> size, qSize |-> 0]]
  /\ IF FreeEventList = <<>>
     THEN LockedSection(t, "app") /\ UNCHANGED <<FreeEventList, arg>>
     ELSE /\ FreeEventList' = Tail(FreeEventList)
          /\ WithArg(t, Head(FreeEventList), [q |-> arg[t].on, sort |-> arg[t].val.sort])
          /\ LockedSection(t, "initqevent")
  /\ UNCHANGED <<listVars, delayVars, eventVars, prio, FreeTCB, ecb, runVars, reqVars, credit,
                 QueueIDVessel, got>>

InitQueueEvent(t) ==
  /\ At(t, "initqevent")
  /\ LET e == arg[t].on IN
     /\ ecb' = [ecb EXCEPT ![e].eventType = "QUEUE", ![e].eventSortType = arg[t].val.sort]
     /\ eventPtr' = [eventPtr EXCEPT ![e] = arg[t].val.q]
     /\ eventTCBList' = [eventTCBList EXCEPT ![e] = <<>>]
  /\ Goto(t, "app")
  /\ Ends(t)
  /\ UNCHANGED <<listVars, delayVars, eventID, pmail, eventCounter, stalePrev, prio, FreeTCB,
                 FreeEventList, runVars, reqVars, OSSchedLock, ret, queueVars>>

\* No other task is in a call about the queue, unless it waits in its list:
\* the application's part, as the calls go on using the block after their tests.
InUse(t, e) ==
  \E u \in Tasks \ {t} : /\ After(u) \in {"qpost", "qblock", "qwoken"} /\ arg[u].on = e
                         /\ ~Contains(eventTCBList[e], u)

\* CoDelQueue: the block is remembered, then DeleteEvent.
CoDelQueue(t, e, anyway) ==
  /\ Calls(t, "CoDelQueue") /\ IsQueue(e) /\ ~InUse(t, e)
  /\ anyway \/ eventTCBList[e] = <<>>
  /\ WithArg(t, e, eventPtr[e])
  /\ IF anyway THEN OSSchedLock' = OSSchedLock + 1 /\ Goto(t, "qdelwaiter")
     ELSE Goto(t, "qretire") /\ UNCHANGED OSSchedLock
  /\ UNCHANGED <<listVars, delayVars, eventVars, poolVars, runVars, reqVars, ret, credit, queueVars>>

DeleteQueueWaiter(t) ==
  /\ At(t, "qdelwaiter")
  /\ LET e == arg[t].on IN
     IF eventTCBList[e] # <<>>
     THEN LET w == Head(eventTCBList[e]) IN
          /\ LeavesBackLink(eventTCBList[e])
          /\ IF delay[w] # INVALID_VALUE THEN RemoveDelayList(w) ELSE UNCHANGED delayVars
          /\ eventTCBList' = [eventTCBList EXCEPT ![e] = Tail(@)]
          /\ eventID' = [eventID EXCEPT ![w] = NULL]
          /\ InsertToTCBRdyList(w)
          /\ UNCHANGED <<OSSchedLock, pc, ret>>
     ELSE /\ IF OSSchedLock = 1
             THEN Goto(t, "respond") /\ ret' = [ret EXCEPT ![t] = "qretire"] /\ UNCHANGED OSSchedLock
             ELSE Goto(t, "qretire") /\ OSSchedLock' = OSSchedLock - 1 /\ UNCHANGED ret
          /\ UNCHANGED <<listVars, delayVars, eventTCBList, stalePrev, eventID>>
  /\ UNCHANGED <<pmail, eventCounter, eventPtr, poolVars, runVars, reqVars, callVars, queueVars>>

\* ReleaseECB, then what CoDelQueue does with the block once the ECB is free.
RetireQueue(t) ==
  /\ At(t, "qretire")
  /\ ecb' = [ecb EXCEPT ![arg[t].on].eventType = "INVALID"]
  /\ Goto(t, "qfree")
  /\ UNCHANGED <<listVars, delayVars, eventVars, prio, FreeTCB, FreeEventList, runVars, reqVars,
                 callVars, OSSchedLock, ret, queueVars>>

ReleaseQueue(t) ==
  /\ At(t, "qfree")
  /\ FreeEventList' = <<arg[t].on>> \o FreeEventList
  /\ eventPtr' = [eventPtr EXCEPT ![arg[t].on] = NULL]
  /\ LockedSection(t, "qclear")
  /\ UNCHANGED <<listVars, delayVars, eventID, pmail, eventCounter, eventTCBList, stalePrev, prio, FreeTCB,
                 ecb, runVars, reqVars, callVars, queueVars>>

FreeQueueId(t) ==
  /\ At(t, "qclear")
  /\ QueueIDVessel' = QueueIDVessel \ {arg[t].val}
  /\ Goto(t, "qzero")
  /\ UNCHANGED <<listVars, delayVars, eventVars, poolVars, runVars, reqVars, callVars, OSSchedLock,
                 ret, QueueTbl, got>>

ZeroQueue(t) ==
  /\ At(t, "qzero")
  /\ QueueTbl' = [QueueTbl EXCEPT ![arg[t].val] = NoQueue]
  /\ Goto(t, "app")
  /\ Ends(t)
  /\ UNCHANGED <<listVars, delayVars, eventVars, poolVars, runVars, reqVars, OSSchedLock,
                 ret, QueueIDVessel, got>>

---------------------------------------------------------------------------
(* Mails *)

\* Both calls take the mail that is there; only the pend goes on to block.
TakeQueueMail(t, e, timeout, otherwise) ==
  /\ IF QCB(e).qSize # 0
     THEN /\ QueueTbl' = [QueueTbl EXCEPT ![eventPtr[e]] = Take(@)]
          /\ got' = [got EXCEPT ![t] = Oldest(QCB(e))]
          /\ LockedSection(t, "app") /\ UNCHANGED arg
     ELSE /\ LockedSection(t, otherwise) /\ UNCHANGED <<QueueTbl, got>>
          /\ IF otherwise = "app" THEN UNCHANGED arg ELSE WithArg(t, e, timeout)
  /\ UNCHANGED <<listVars, delayVars, eventVars, poolVars, runVars, reqVars, credit, QueueIDVessel>>

CoAcceptQueueMail(t, e) ==
  /\ Calls(t, "CoAcceptQueueMail") /\ IsQueue(e)
  /\ TakeQueueMail(t, e, 0, "app")

CoPendQueueMail(t, e, timeout) ==
  /\ Calls(t, "CoPendQueueMail") /\ IsQueue(e)
  /\ OSSchedLock = 0
  /\ TakeQueueMail(t, e, timeout, "qblock")

\* Behind the unlock that ended the test of the queue.
BlockOnQueue(t) ==
  /\ At(t, "qblock")
  /\ LinkEvent(arg[t].on, t) /\ Block(t)
  /\ IF arg[t].val # 0 THEN LinkDelay(t, arg[t].val) ELSE UNCHANGED delayVars
  /\ LockedSection(t, "qwoken")
  /\ UNCHANGED <<TCBRdy, pmail, eventCounter, eventPtr, poolVars, runVars, reqVars, callVars, queueVars>>

QueueWoken(t) ==
  /\ At(t, "qwoken")
  /\ got' = [got EXCEPT ![t] = IF pmail[t] # NULL THEN pmail[t] ELSE @]
  /\ pmail' = [pmail EXCEPT ![t] = NULL]
  /\ Goto(t, "app")
  /\ Ends(t)
  /\ UNCHANGED <<listVars, delayVars, eventID, eventCounter, eventPtr, eventTCBList, stalePrev, poolVars,
                 runVars, reqVars, OSSchedLock, ret, QueueTbl, QueueIDVessel>>

\* The test for a full queue comes before the lock.
CoPostQueueMail(t, e, mail) ==
  /\ Calls(t, "CoPostQueueMail") /\ IsQueue(e) /\ ~Full(QCB(e))
  /\ Continue(t, "qpost", e, mail)
  /\ UNCHANGED queueVars

PostQueueMail(t) ==
  /\ At(t, "qpost")
  /\ PostQueueBody(arg[t].on, arg[t].val)
  /\ LockedSection(t, "app")
  /\ Ends(t)
  /\ UNCHANGED <<eventCounter, eventPtr, poolVars, runVars, reqVars, QueueIDVessel, got>>

\* In the user's interrupt handler: a request while the lock is held.
isr_PostQueueMail(e, mail) ==
  /\ <<Isr, "isr_PostQueueMail">> \in Api /\ pc[Isr] = "off" /\ IsQueue(e)
  /\ IF OSSchedLock > 0
     THEN /\ IF Len(ServiceReq) < CFG_MAX_SERVICE_REQUEST
             THEN /\ ServiceReq' = Append(ServiceReq, [type |-> "QUEUE", id |-> e, arg |-> mail])
                  /\ IsrReq' = TRUE
             ELSE UNCHANGED <<ServiceReq, IsrReq>>
          /\ Goto(Isr, "isrexit")
          /\ UNCHANGED <<OSSchedLock, ret, QueueTbl, eventTCBList, stalePrev, eventID, pmail, delayVars, listVars>>
     ELSE /\ PostQueueAtOnce(e, mail)
          /\ IF Full(QCB(e)) THEN Goto(Isr, "isrexit") /\ UNCHANGED <<OSSchedLock, ret>>
             ELSE LockedSection(Isr, "isrexit")
          /\ UNCHANGED <<ServiceReq, IsrReq>>
  /\ UNCHANGED <<eventCounter, eventPtr, poolVars, runVars, TimeReq, callVars, QueueIDVessel, got>>

\* RespondSRQ of such a request.
RespondQueueCell(c) ==
  /\ At(c, "cells") /\ ServiceReq # <<>> /\ Head(ServiceReq).type = "QUEUE"
  /\ PostQueueAtOnce(Head(ServiceReq).id, Head(ServiceReq).arg)
  /\ ServiceReq' = Tail(ServiceReq)
  /\ UNCHANGED <<eventCounter, eventPtr, poolVars, runVars, IsrReq, TimeReq, callVars, OSSchedLock, pc,
                 ret, QueueIDVessel, got>>

QueueCall(t) ==
  \/ \E size \in QueueSizes, sort \in QueueSorts : CoCreateQueue(t, size, sort)
  \/ \E e \in Events : \/ CoAcceptQueueMail(t, e)
                       \/ \E timeout \in Timeouts : CoPendQueueMail(t, e, timeout)

QueueStep(t) ==
  \/ InitQueue(t) \/ InitQueueEvent(t) \/ DeleteQueueWaiter(t) \/ RetireQueue(t) \/ ReleaseQueue(t)
  \/ FreeQueueId(t) \/ ZeroQueue(t) \/ BlockOnQueue(t) \/ QueueWoken(t) \/ PostQueueMail(t)
=============================================================================
