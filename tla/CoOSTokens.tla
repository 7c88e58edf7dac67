----------------------------- MODULE CoOSTokens -----------------------------
(***************************************************************************)
(* TLAPS proofs about the tokens of CoOS in applications that keep to the  *)
(* rules of TokenRules, for any number of tasks, events and requests: a    *)
(* mailbox says honestly whether it is full, and posts and takes keep the  *)
(* promise of the abstract semaphore (Semaphore), so that no more takes    *)
(* are told E_OK than there were tokens.                                   *)
(***************************************************************************)
EXTENDS CoOSExact, FiniteSetTheorems, FunctionTheorems

---------------------------------------------------------------------------
(* The inductive invariants *)

\* A call that is about a semaphore is at one, a request about a mailbox
\* carries a mail, and a mailbox holds one mail or none.
SemLabels == {"semblock", "semwoken", "postsem", "decrement"}
CallsTyped == \A t \in Tasks : After(t) \in SemLabels => ecb[arg[t].on].eventType = "SEM"
MailCells == \A i \in DOMAIN ServiceReq : ServiceReq[i].type = "MBOX" => ServiceReq[i].arg \in Mails
BoxState ==
  \A e \in Events : ecb[e].eventType = "MBOX" =>
    (eventCounter[e] = 0 /\ eventPtr[e] = NULL) \/ (eventCounter[e] = 1 /\ eventPtr[e] \in Mails)
MailInv == CallsTyped /\ MailCells /\ BoxState

\* A task sleeps in a pend call exactly for the event in whose list it is, and
\* one that is woken without a time-out has been given its token (where a tick
\* may fall into TimeDispose, all time out).  The two steps in which CoSetPriority
\* moves a waiting task are the exception.
Sleeping == {"semwoken", "mailwoken"}
Asking == {"unwait", "rewait"}
BetweenLists(t) == \E r \in Tasks : After(r) = "rewait" /\ arg[r].on = t
WokenFor(t) ==
  /\ pmail[t] # NULL \/ eventID[t] # NULL => After(t) \in Sleeping
  /\ eventID[t] # NULL => arg[t].on = eventID[t] /\ pmail[t] = NULL
  /\ ~TickRace /\ After(t) = "semwoken" /\ arg[t].val = 0 =>
       \/ pmail[t] # NULL \/ state[t] = "DORMANT"
       \/ delay[t] = INVALID_VALUE /\ (eventID[t] # NULL \/ BetweenLists(t))
StaysAsked(r) ==
  After(r) \in Asking =>
    After(arg[r].on) \in Sleeping /\ arg[arg[r].on].on = arg[r].val /\ pmail[arg[r].on] = NULL
WakeInv == \A t \in Tasks : WokenFor(t) /\ StaysAsked(t) /\ After(t) # "decrement"

\* The tokens in the counter, with woken waiters and in the request queue are
\* covered by posts that were accepted and not yet taken.
Held(e) == eventCounter[e] + Cardinality(Granted(e)) + Cardinality(Requested(e))
Covered == \A e \in Events : Held(e) <= credit[e]

TokenInv == ExactInv /\ MailInv /\ WakeInv /\ Covered

---------------------------------------------------------------------------
(* Where the tasks are *)

\* Only the task that has the CPU is at the two steps of CoSetPriority, and
\* nobody is while the lock is free or an unlock is under way.
LEMMA AskerRuns ==
  ASSUME KernelInv, NEW r \in Tasks, After(r) \in Asking
  PROVE  /\ r = TCBRunning /\ OSSchedLock > 0 /\ ~HandlerLocks /\ pc[r] \in Asking
         /\ arg[r].on \in Tasks
<1>1. pc[r] \in Asking
  BY DEF After, Asking, KernelInv, OrderInv, ControlInv, Returns, MutexLabels
<1>2. Managed(r) /\ ArgOK(r) BY DEF KernelInv, OrderInv, ManageInv, TypeOK, CallTypes
<1>3. arg[r].on \in Tasks BY <1>2 DEF ArgOK, Fits, Asking, TaskArgLabels
<1> QED BY <1>1, <1>2, <1>3 DEF Managed, Managing, Asking, SleepsAt, Undisturbed

LEMMA OnlyAsker ==
  ASSUME KernelInv, NEW t \in Tasks, Runs(t)
  PROVE  \A r \in Tasks \ {t} : After(r) \notin Asking
BY AskerRuns, TaskAlone

LEMMA NoAskerUnlocked ==
  ASSUME KernelInv, OSSchedLock = 0
  PROVE  \A r \in Tasks : After(r) \notin Asking
BY AskerRuns

LEMMA NoAskerInUnlock ==
  ASSUME KernelInv, NEW c \in Contexts, pc[c] \in UnlockLabels, OnCPU(c)
  PROVE  \A r \in Tasks : After(r) \notin Asking
<1>1. (c \in Tasks => c = TCBRunning) /\ (c \notin Tasks => HandlerLocks) BY Serving
<1> QED BY <1>1, AskerRuns DEF UnlockLabels, Asking

LEMMA AfterRuns ==
  ASSUME NEW t \in Tasks, Runs(t)
  PROVE  After(t) = pc[t]
BY DEF Runs, After

LEMMA ControlNow ==
  ASSUME KernelInv
  PROVE  /\ ControlTypes /\ OSSchedLock \in Nat /\ EventTypes /\ ReqTypes /\ CallTypes /\ TypeOK
         /\ DOMAIN arg = Tasks /\ credit \in [Events -> Int]
BY DEF KernelInv, TypeOK, ControlTypes, CallTypes

---------------------------------------------------------------------------
(* Steps of the task on the CPU *)

\* What the others slept on is as it was.
Rests(v) ==
  /\ arg'[v] = arg[v] /\ pmail'[v] = pmail[v] /\ eventID'[v] = eventID[v]
  /\ state[v] = "DORMANT" => state'[v] = "DORMANT"
  /\ ~TickRace /\ delay[v] = INVALID_VALUE => delay'[v] = INVALID_VALUE

\* Task t asks for something, at label next, and does not sleep.
Asks(t, label) ==
  /\ Runs(t) /\ pc[t] \notin Sleeping \cup Asking /\ Moves(t, label)
  /\ label \notin Sleeping \cup Asking
  /\ label \in SemLabels => ecb[arg'[t].on].eventType = "SEM"
  /\ UNCHANGED <<ecb, ServiceReq, pmail, eventID>>
  /\ \A v \in Tasks \ {t} : Rests(v)

Quiet(t, label) == Asks(t, label) /\ UNCHANGED <<eventCounter, eventPtr, credit>>

LEMMA SectionAsks ==
  ASSUME KernelInv, NEW t \in Tasks, Runs(t), pc[t] \notin Sleeping \cup Asking,
         NEW next \in ReturnLabels, LockedSection(t, next), next \notin Sleeping \cup Asking,
         next \in SemLabels => ecb[arg'[t].on].eventType = "SEM",
         UNCHANGED <<ecb, ServiceReq, pmail, eventID>>, \A v \in Tasks \ {t} : Rests(v)
  PROVE  Asks(t, next)
BY SectionMoves, ControlNow DEF Asks

LEMMA GotoAsks ==
  ASSUME KernelInv, NEW t \in Tasks, Runs(t), pc[t] \notin Sleeping \cup Asking,
         NEW label \in Labels \ (UnlockLabels \cup {"clear"}), Goto(t, label), UNCHANGED <<OSSchedLock, ret>>,
         label \notin Sleeping \cup Asking,
         label \in SemLabels => ecb[arg'[t].on].eventType = "SEM",
         UNCHANGED <<ecb, ServiceReq, pmail, eventID>>, \A v \in Tasks \ {t} : Rests(v)
  PROVE  Asks(t, label)
BY GotoMoves, ControlNow DEF Asks

\* A step that ends elsewhere or goes on with arguments it has been given.
LEMMA OthersRest ==
  ASSUME NEW t \in Tasks, UNCHANGED <<state, delay, pmail, eventID>>, \A v \in Tasks \ {t} : arg'[v] = arg[v]
  PROVE  \A v \in Tasks \ {t} : Rests(v)
BY DEF Rests

LEMMA ContinueAsks ==
  ASSUME KernelInv, NEW t \in Tasks, Runs(t), pc[t] = "app", NEW label \in Labels, NEW on, NEW val,
         Continue(t, label, on, val), label \notin UnlockLabels \cup {"clear"} \cup Sleeping \cup Asking,
         label \in SemLabels => ecb[on].eventType = "SEM"
  PROVE  Quiet(t, label)
<1>1. arg'[t].on = on /\ \A v \in Tasks \ {t} : arg'[v] = arg[v]
  BY ControlNow DEF Continue, WithArg
<1>2. UNCHANGED <<state, delay, pmail, eventID, ecb, ServiceReq, OSSchedLock, ret, eventCounter, eventPtr, credit>>
  BY DEF Continue, listVars, delayVars, eventVars, poolVars, reqVars
<1>3. \A v \in Tasks \ {t} : Rests(v) BY <1>1, <1>2, OthersRest
<1> QED BY <1>1, <1>2, <1>3, GotoAsks DEF Continue, Quiet, Sleeping, Asking

---------------------------------------------------------------------------
(* Calls that are about no token *)

LEMMA LockCallQuiet ==
  ASSUME KernelInv, Disciplined, NEW t \in Tasks, CoSchedLock(t) \/ CoSchedUnlock(t)
  PROVE  Quiet(t, "app")
<1>1. Runs(t) /\ pc[t] = "app" BY RunsCalling DEF CoSchedLock, CoSchedUnlock
<1>2. UNCHANGED <<state, delay, pmail, eventID, ecb, ServiceReq, eventCounter, eventPtr, arg, credit>>
  BY DEF CoSchedLock, CoSchedUnlock, listVars, delayVars, eventVars, poolVars, reqVars, callVars
<1>3. Moves(t, "app")
  <2>1. \/ UNCHANGED <<pc, ret>>
        \/ Goto(t, "respond") /\ ret' = [ret EXCEPT ![t] = "app"]
    BY DEF CoSchedLock, CoSchedUnlock
  <2>2. CASE UNCHANGED <<pc, ret>> BY <1>1, <2>2 DEF Moves, After, UnlockLabels
  <2>3. CASE Goto(t, "respond") /\ ret' = [ret EXCEPT ![t] = "app"]
    BY <2>3, ControlNow DEF Moves, After, Goto, ControlTypes, Contexts, UnlockLabels
  <2> QED BY <2>1, <2>2, <2>3
<1> QED BY <1>1, <1>2, <1>3, OthersRest DEF Quiet, Asks, Sleeping, Asking, SemLabels

LEMMA TickDelayQuiet ==
  ASSUME KernelInv, Disciplined, NEW t \in Tasks, NEW ticks, CoTickDelay(t, ticks)
  PROVE  Quiet(t, "app")
<1>1. Runs(t) /\ pc[t] = "app" /\ LockedSection(t, "app") BY RunsCalling DEF CoTickDelay
<1>2. UNCHANGED <<pmail, eventID, ecb, ServiceReq, eventCounter, eventPtr, arg, credit>>
  BY DEF CoTickDelay, eventVars, poolVars, reqVars, callVars
<1>3. \A v \in Tasks \ {t} : state'[v] = state[v] /\ delay'[v] = delay[v]
  BY ListsNow DEF CoTickDelay, LinkDelay, Block, DelayTypes
<1>4. \A v \in Tasks \ {t} : Rests(v) BY <1>2, <1>3 DEF Rests
<1> QED BY <1>1, <1>2, <1>4, SectionAsks DEF Quiet, Sleeping, Asking, SemLabels, ReturnLabels

LEMMA CreateTaskQuiet ==
  ASSUME KernelInv, Disciplined, NEW t \in Tasks, NEW p, NEW waiting, CreateTask(t, p, waiting)
  PROVE  \E label : Quiet(t, label) /\ label # "decrement"
<1>1. Runs(t) /\ pc[t] = "app" BY RunsCalling DEF CreateTask
<1>2. PICK label \in {"app", "init", "initwait"} : LockedSection(t, label) BY DEF CreateTask
<1>3. UNCHANGED <<state, delay, pmail, eventID, ecb, ServiceReq, eventCounter, eventPtr, credit>>
  BY DEF CreateTask, listVars, delayVars, eventVars, reqVars
<1>4. \A v \in Tasks \ {t} : arg'[v] = arg[v] BY ControlNow DEF CreateTask, WithArg
<1>5. \A v \in Tasks \ {t} : Rests(v) BY <1>3, <1>4, OthersRest
<1>6. label \in ReturnLabels /\ label \notin Sleeping \cup Asking \cup SemLabels
  BY DEF ReturnLabels, TaskArgLabels, Sleeping, Asking, SemLabels
<1>7. Asks(t, label) BY <1>1, <1>2, <1>3, <1>5, <1>6, SectionAsks DEF Sleeping, Asking
<1> QED BY <1>2, <1>3, <1>7 DEF Quiet

LEMMA ManageQuiet ==
  ASSUME KernelInv, Disciplined, NEW t \in Tasks, NEW u, NEW ticks,
         CoResetTaskDelayTick(t, u, ticks) \/ CoDelTask(t, u) \/ CoAwakeTask(t, u)
  PROVE  \E label : Quiet(t, label) /\ label # "decrement"
<1>1. Runs(t) /\ pc[t] = "app" BY RunsCalling DEF CoResetTaskDelayTick, CoDelTask, CoAwakeTask
<1>2. PICK label \in {"reset", "delete", "awake"} : \E val : Continue(t, label, u, val)
  BY DEF CoResetTaskDelayTick, CoDelTask, CoAwakeTask
<1>3. /\ label \in Labels
      /\ label \notin UnlockLabels \cup {"clear"} \cup Sleeping \cup Asking \cup SemLabels
  BY DEF Labels, UnlockLabels, TaskArgLabels, Sleeping, Asking, SemLabels
<1>4. PICK val : Continue(t, label, u, val) BY <1>2
<1>5. Quiet(t, label) BY <1>1, <1>3, <1>4, ContinueAsks
<1>6. label # "decrement" BY <1>3 DEF SemLabels
<1> QED BY <1>5, <1>6

LEMMA SetPriorityQuiet ==
  ASSUME KernelInv, Disciplined, NEW t \in Tasks, NEW u, NEW p, CoSetPriority(t, u, p),
         ~Goto(t, "unwait")
  PROVE  \E label : Quiet(t, label) /\ label # "decrement"
<1>1. Runs(t) /\ pc[t] = "app" BY RunsCalling DEF CoSetPriority
<1>2. PICK label \in {"reorder", "resched", "app"} : Goto(t, label) BY DEF CoSetPriority
<1>3. UNCHANGED <<state, delay, pmail, eventID, ecb, ServiceReq, OSSchedLock, ret, eventCounter, eventPtr, credit>>
  BY DEF CoSetPriority, listVars, delayVars, eventVars, reqVars
<1>4. \A v \in Tasks \ {t} : arg'[v] = arg[v] BY ControlNow DEF CoSetPriority, WithArg
<1>5. \A v \in Tasks \ {t} : Rests(v) BY <1>3, <1>4, OthersRest
<1>6. label \in Labels \ (UnlockLabels \cup {"clear"}) /\ label \notin Sleeping \cup Asking \cup SemLabels
  BY DEF Labels, UnlockLabels, TaskArgLabels, Sleeping, Asking, SemLabels
<1>7. Asks(t, label) BY <1>1, <1>2, <1>3, <1>5, <1>6, GotoAsks DEF Sleeping, Asking
<1> QED BY <1>2, <1>3, <1>7 DEF Quiet

\* The steps behind the tests of a managing call, but for those that take a task
\* out of an event's list.
LEMMA ManageStepQuiet ==
  ASSUME KernelInv, Disciplined, NEW t \in Tasks,
         ResetBody(t) \/ AwakeBody(t) \/ ReorderBody(t) \/ RescheduleBody(t)
  PROVE  Quiet(t, "app")
<1>1. Runs(t) /\ pc[t] \in {"reset", "awake", "reorder", "resched"}
  BY RunsInCall DEF ResetBody, AwakeBody, ReorderBody, RescheduleBody, UnlockLabels
<1>2. UNCHANGED <<pmail, eventID, ecb, ServiceReq, eventCounter, eventPtr, arg, credit>>
  BY DEF ResetBody, AwakeBody, ReorderBody, RescheduleBody, Fault, eventVars, poolVars, reqVars, callVars
<1>3. /\ LockedSection(t, "app")
      /\ \A v \in Tasks : /\ state[v] = "DORMANT" => state'[v] = "DORMANT"
                          /\ ~TickRace /\ delay[v] = INVALID_VALUE => delay'[v] = INVALID_VALUE
  <2>1. CASE RescheduleBody(t) BY <2>1 DEF RescheduleBody, delayVars
  <2>2. ASSUME ~RescheduleBody(t)
        PROVE  /\ LockedSection(t, "app")
               /\ \A v \in Tasks : /\ state[v] = "DORMANT" => state'[v] = "DORMANT"
                                   /\ ~TickRace /\ delay[v] = INVALID_VALUE => delay'[v] = INVALID_VALUE
    <3>1. PICK label \in {"reset", "awake", "reorder"} : At(t, label)
      BY <2>2 DEF ResetBody, AwakeBody, ReorderBody
    <3>2. PICK u \in Tasks : u = arg[t].on BY <3>1, ManagerAt DEF Managing
    <3>3. Tested(label, u) BY <3>1, <3>2, ManagerAt DEF Managing
    <3>4. CASE ResetBody(t)
      <4>1. label = "reset" BY <3>1, <3>4 DEF ResetBody, At
      <4>2. Contains(DlyList, u) BY <3>3, <4>1 DEF Tested
      <4>3. state[u] = "WAITING" /\ delay[u] # INVALID_VALUE
        BY <1>1, <4>2, ListsNow, TaskAlone DEF DelayInv
      <4>4. /\ LockedSection(t, "app")
            /\ \E d : delay' = [delay EXCEPT ![u] = d]
            /\ \E s : state' = [state EXCEPT ![u] = s]
        BY <3>2, <3>4, <4>2 DEF ResetBody, InsertToTCBRdyList, Block
      <4> QED BY <4>3, <4>4, ListsNow DEF DelayTypes
    <3>5. CASE AwakeBody(t)
      <4>1. label = "awake" BY <3>1, <3>5 DEF AwakeBody, At
      <4>2. state[u] = "WAITING" /\ ~Contains(DlyList, u)
        BY <1>1, <3>3, <4>1, ListsNow, TaskAlone DEF Tested, DelayInv
      <4>3. LockedSection(t, "app") /\ state' = [state EXCEPT ![u] = "READY"] /\ UNCHANGED delayVars
        BY <3>2, <3>5, <4>2 DEF AwakeBody, InsertToTCBRdyList
      <4> QED BY <4>2, <4>3, ListsNow DEF delayVars
    <3>6. CASE ReorderBody(t)
      <4>1. label = "reorder" BY <3>1, <3>6 DEF ReorderBody, At
      <4>2. state[u] = "READY" /\ Contains(TCBRdy, u) BY <3>3, <4>1, ListsNow DEF Tested, ReadyInv
      <4>3. LockedSection(t, "app") /\ state' = [state EXCEPT ![u] = "READY"] /\ UNCHANGED delayVars
        BY <3>2, <3>6, <4>2 DEF ReorderBody
      <4> QED BY <4>2, <4>3, ListsNow DEF delayVars
    <3> QED BY <2>2, <3>4, <3>5, <3>6
  <2> QED BY <2>1, <2>2
<1>4. \A v \in Tasks \ {t} : Rests(v) BY <1>2, <1>3 DEF Rests
<1>5. pc[t] \notin Sleeping \cup Asking BY <1>1 DEF Sleeping, Asking
<1>6. "app" \in ReturnLabels /\ "app" \notin Sleeping \cup Asking \cup SemLabels
  BY DEF ReturnLabels, Sleeping, Asking, SemLabels
<1> QED BY <1>1, <1>2, <1>3, <1>4, <1>5, <1>6, SectionAsks DEF Quiet
---------------------------------------------------------------------------
(* Calls that ask for a token or bring one *)

\* What such a call does with the counter and the box of its event.
Pends(e) ==
  \/ UNCHANGED <<eventCounter, eventPtr, credit>>
  \/ /\ eventCounter[e] > 0 /\ eventCounter' = [eventCounter EXCEPT ![e] = @ - 1]
     /\ credit' = [credit EXCEPT ![e] = @ - 1]
     /\ \/ ecb[e].eventType = "SEM" /\ UNCHANGED eventPtr
        \/ /\ ecb[e].eventType = "MBOX" /\ eventCounter'[e] = 0
           /\ eventPtr' = [eventPtr EXCEPT ![e] = NULL]

LEMMA PendSemAsks ==
  ASSUME KernelInv, TypedCalls, NEW t \in Tasks, NEW e \in Events, NEW timeout, CoPendSem(t, e, timeout)
  PROVE  (\E label : Asks(t, label) /\ label # "decrement") /\ Pends(e)
<1>1. Runs(t) /\ pc[t] = "app" /\ ecb[e].eventType = "SEM"
  BY RunsCalling DEF CoPendSem, Typed, TypedCalls
<1>2. PICK label \in {"app", "semblock"} : LockedSection(t, label) BY DEF CoPendSem
<1>3. UNCHANGED <<state, delay, pmail, eventID, ecb, ServiceReq, eventPtr>>
  BY DEF CoPendSem, listVars, delayVars, poolVars, reqVars
<1>4. arg'[t].on = e /\ \A v \in Tasks \ {t} : arg'[v] = arg[v] BY ControlNow DEF CoPendSem, WithArg
<1>5. \A v \in Tasks \ {t} : Rests(v) BY <1>3, <1>4, OthersRest
<1>6. label \in ReturnLabels /\ label \notin Sleeping \cup Asking
  BY DEF ReturnLabels, EventArgLabels, Sleeping, Asking
<1>7. Asks(t, label) BY <1>1, <1>2, <1>3, <1>4, <1>5, <1>6, SectionAsks DEF Sleeping, Asking
<1>8. Pends(e)
  BY <1>1, <1>3 DEF CoPendSem, Credited, Pends
<1> QED BY <1>7, <1>8

LEMMA AcceptSemAsks ==
  ASSUME KernelInv, TypedCalls, NEW t \in Tasks, NEW e \in Events, CoAcceptSem(t, e)
  PROVE  \E label : Quiet(t, label)
<1>1. Runs(t) /\ pc[t] = "app" /\ ecb[e].eventType = "SEM"
  BY RunsCalling DEF CoAcceptSem, Typed, TypedCalls
<1>2. PICK label \in {"app", "decrement"} : LockedSection(t, label) BY DEF CoAcceptSem
<1>3. UNCHANGED <<state, delay, pmail, eventID, ecb, ServiceReq, eventCounter, eventPtr, credit>>
  BY DEF CoAcceptSem, listVars, delayVars, eventVars, poolVars, reqVars
<1>4. arg'[t].on = e /\ \A v \in Tasks \ {t} : arg'[v] = arg[v] BY ControlNow DEF CoAcceptSem, WithArg
<1>5. \A v \in Tasks \ {t} : Rests(v) BY <1>3, <1>4, OthersRest
<1>6. label \in ReturnLabels /\ label \notin Sleeping \cup Asking
  BY DEF ReturnLabels, EventArgLabels, Sleeping, Asking
<1>7. Asks(t, label) BY <1>1, <1>2, <1>3, <1>4, <1>5, <1>6, SectionAsks DEF Sleeping, Asking
<1> QED BY <1>3, <1>7 DEF Quiet

LEMMA TakeMailAsks ==
  ASSUME KernelInv, TypedCalls, NEW t \in Tasks, NEW e \in Events,
         CoAcceptMail(t, e) \/ \E timeout : CoPendMail(t, e, timeout)
  PROVE  (\E label : Asks(t, label) /\ label # "decrement") /\ Pends(e)
<1>1. Runs(t) /\ pc[t] = "app" /\ ecb[e].eventType = "MBOX"
  BY RunsCalling DEF CoAcceptMail, CoPendMail, Typed, TypedCalls
<1>2. PICK label \in {"app", "mailblock"} : TakeMail(t, e, label) BY DEF CoAcceptMail, CoPendMail
<1>3. UNCHANGED <<state, delay, pmail, eventID, ecb, ServiceReq>>
  BY <1>2 DEF TakeMail, listVars, delayVars, poolVars, reqVars
<1>4. \A v \in Tasks \ {t} : arg'[v] = arg[v] BY ControlNow DEF CoAcceptMail, CoPendMail, WithArg
<1>5. \A v \in Tasks \ {t} : Rests(v) BY <1>3, <1>4, OthersRest
<1>6. \A l \in {"app", "mailblock"} : l \in ReturnLabels /\ l \notin Sleeping \cup Asking \cup SemLabels
  BY DEF ReturnLabels, EventArgLabels, Sleeping, Asking, SemLabels
<1>7. PICK next \in {"app", "mailblock"} : LockedSection(t, next) BY <1>2 DEF TakeMail
<1>8. Asks(t, next) BY <1>1, <1>3, <1>5, <1>6, <1>7, SectionAsks DEF Sleeping, Asking
<1>9. Pends(e)
  <2>1. CASE eventCounter[e] = 1
    <3>1. /\ eventCounter' = [eventCounter EXCEPT ![e] = 0] /\ eventPtr' = [eventPtr EXCEPT ![e] = NULL]
          /\ credit' = [credit EXCEPT ![e] = @ - 1]
      BY <1>2, <2>1, ControlNow DEF TakeMail, Credited
    <3> QED BY <1>1, <2>1, <3>1, ControlNow DEF Pends, EventTypes
  <2>2. CASE eventCounter[e] # 1 BY <1>2, <2>2 DEF TakeMail, Pends
  <2> QED BY <2>1, <2>2
<1> QED BY <1>8, <1>9

LEMMA PostAsks ==
  ASSUME KernelInv, TypedCalls, NEW t \in Tasks, NEW e \in Events,
         CoPostSem(t, e) \/ \E mail : CoPostMail(t, e, mail)
  PROVE  \E label : Quiet(t, label) /\ label # "decrement"
<1>1. Runs(t) /\ pc[t] = "app"
  <2>1. Calls(t, "CoPostSem") \/ Calls(t, "CoPostMail") BY DEF CoPostSem, CoPostMail
  <2> QED BY <2>1, RunsCalling DEF TypedCalls
<1>2. CASE CoPostSem(t, e)
  <2>1. ecb[e].eventType = "SEM" /\ Continue(t, "postsem", e, 0)
    BY <1>2 DEF CoPostSem, Accepts, TypedCalls
  <2>2. "postsem" \in Labels /\ "postsem" \notin UnlockLabels \cup {"clear"} \cup Sleeping \cup Asking
    BY DEF Labels, UnlockLabels, EventArgLabels, Sleeping, Asking
  <2>3. Quiet(t, "postsem") BY <1>1, <2>1, <2>2, ContinueAsks
  <2> QED BY <2>3
<1>3. CASE \E mail : CoPostMail(t, e, mail)
  <2>1. PICK mail : Continue(t, "postmail", e, mail) BY <1>3 DEF CoPostMail
  <2>2. "postmail" \in Labels
        /\ "postmail" \notin UnlockLabels \cup {"clear"} \cup Sleeping \cup Asking \cup SemLabels
    BY DEF Labels, UnlockLabels, EventArgLabels, Sleeping, Asking, SemLabels
  <2>3. Quiet(t, "postmail") BY <1>1, <2>1, <2>2, ContinueAsks
  <2> QED BY <2>3
<1> QED BY <1>2, <1>3

LEMMA DecrementAsks ==
  ASSUME KernelInv, NEW t \in Tasks, Decrement(t)
  PROVE  Asks(t, "app") /\ UNCHANGED eventPtr
<1>1. Runs(t) /\ pc[t] = "decrement" BY RunsInCall DEF Decrement, UnlockLabels
<1>2. UNCHANGED <<state, delay, pmail, eventID, ecb, ServiceReq, eventPtr, arg, OSSchedLock, ret>>
  BY DEF Decrement, listVars, delayVars, poolVars, reqVars
<1>3. \A v \in Tasks \ {t} : Rests(v) BY <1>2, OthersRest
<1>4. Goto(t, "app") BY DEF Decrement
<1>5. /\ "app" \in Labels \ (UnlockLabels \cup {"clear"}) /\ "app" \notin Sleeping \cup Asking \cup SemLabels
      /\ "decrement" \notin Sleeping \cup Asking
  BY DEF Labels, UnlockLabels, Sleeping, Asking, SemLabels
<1> QED BY <1>1, <1>2, <1>3, <1>4, <1>5, GotoAsks
---------------------------------------------------------------------------
(* The steps that take a task in or out of an event's list *)

LEMMA BlockFacts ==
  ASSUME KernelInv, NEW t \in Tasks, BlockBody(t)
  PROVE  /\ Runs(t) /\ pc[t] \in {"semblock", "mailblock"} /\ arg[t].on \in Events
         /\ \E label \in Sleeping : Moves(t, label) /\ (label = "semwoken" <=> pc[t] = "semblock")
         /\ eventID' = [eventID EXCEPT ![t] = arg[t].on]
         /\ UNCHANGED <<ecb, ServiceReq, eventCounter, eventPtr, pmail, arg, credit>>
         /\ \A v \in Tasks \ {t} : state'[v] = state[v] /\ delay'[v] = delay[v]
         /\ ~TickRace /\ arg[t].val = 0 => delay'[t] = INVALID_VALUE
<1>1. Runs(t) /\ pc[t] \in {"semblock", "mailblock"} BY RunsInCall DEF BlockBody, UnlockLabels
<1>2. arg[t].on \in Events
  <2>1. Fits(pc[t], arg[t]) BY <1>1, ArgAt DEF BlockBody, At, KernelInv, TypeOK, UnlockLabels
  <2> QED BY <1>1, <2>1 DEF Fits, EventArgLabels
<1>3. \E label \in Sleeping : Moves(t, label) /\ (label = "semwoken" <=> pc[t] = "semblock")
  <2>1. CASE pc[t] = "semblock"
    <3>1. LockedSection(t, "semwoken") /\ "semwoken" \in ReturnLabels
      BY <2>1 DEF BlockBody, ReturnLabels, EventArgLabels
    <3> QED BY <2>1, <3>1, SectionMoves, ControlNow DEF Sleeping
  <2>2. CASE pc[t] = "mailblock"
    <3>1. LockedSection(t, "mailwoken") /\ "mailwoken" \in ReturnLabels
      BY <2>2 DEF BlockBody, ReturnLabels, EventArgLabels
    <3> QED BY <2>2, <3>1, SectionMoves, ControlNow DEF Sleeping
  <2> QED BY <1>1, <2>1, <2>2
<1>4. eventID' = [eventID EXCEPT ![t] = arg[t].on] BY DEF BlockBody, LinkEvent
<1>5. UNCHANGED <<ecb, ServiceReq, eventCounter, eventPtr, pmail, arg, credit>>
  BY DEF BlockBody, poolVars, reqVars, callVars
<1>6. \A v \in Tasks \ {t} : state'[v] = state[v] /\ delay'[v] = delay[v]
  BY ListsNow DEF BlockBody, Block, LinkDelay, delayVars, DelayTypes
<1>7. ~TickRace /\ arg[t].val = 0 => delay'[t] = INVALID_VALUE
  <2>1. ~TickRace => delay[t] = INVALID_VALUE
    <3>1. state[t] = "RUNNING" BY <1>1, TaskFree
    <3> QED BY <3>1, ListsNow DEF DelayInv, Spoilt
  <2> QED BY <2>1 DEF BlockBody, delayVars
<1> QED BY <1>1, <1>2, <1>3, <1>4, <1>5, <1>6, <1>7

LEMMA WokenFacts ==
  ASSUME KernelInv, NEW t \in Tasks, Woken(t)
  PROVE  /\ Runs(t) /\ pc[t] \in Sleeping /\ Moves(t, "app") /\ arg[t].on \in Events
         /\ UNCHANGED <<ecb, ServiceReq, eventCounter, eventPtr, eventID, state, delay, arg>>
         /\ pmail' = [pmail EXCEPT ![t] = NULL]
<1>1. Runs(t) /\ pc[t] \in Sleeping BY RunsInCall DEF Woken, UnlockLabels, Sleeping
<1>2. arg[t].on \in Events
  <2>1. Fits(pc[t], arg[t]) BY <1>1, ArgAt DEF Woken, At, KernelInv, TypeOK, UnlockLabels, Sleeping
  <2> QED BY <1>1, <2>1 DEF Fits, EventArgLabels, Sleeping
<1>3. Moves(t, "app")
  <2>1. Goto(t, "app") /\ UNCHANGED <<OSSchedLock, ret>> BY DEF Woken
  <2>2. "app" \in Labels \ (UnlockLabels \cup {"clear"}) BY DEF Labels, UnlockLabels
  <2> QED BY <2>1, <2>2, GotoMoves, ControlNow
<1>4. UNCHANGED <<ecb, ServiceReq, eventCounter, eventPtr, eventID, state, delay, arg>>
  BY DEF Woken, listVars, delayVars, poolVars, reqVars
<1> QED BY <1>1, <1>2, <1>3, <1>4 DEF Woken

\* CoSetPriority of a task that waits in a list in priority order.
LEMMA AskFacts ==
  ASSUME KernelInv, Disciplined, NEW t \in Tasks, NEW u \in Ids, NEW p, CoSetPriority(t, u, p), Goto(t, "unwait")
  PROVE  /\ Runs(t) /\ pc[t] = "app" /\ u \in Tasks \ {t} /\ Moves(t, "unwait") /\ eventID[u] # NULL
         /\ arg'[t].on = u /\ arg'[t].val = eventID[u] /\ \A v \in Tasks \ {t} : arg'[v] = arg[v]
         /\ UNCHANGED <<state, delay, pmail, eventID, ecb, ServiceReq, eventCounter, eventPtr, credit>>
<1>1. Runs(t) /\ pc[t] = "app" /\ u \in Tasks BY RunsCalling, CallValues DEF CoSetPriority
<1>2. UNCHANGED <<state, delay, pmail, eventID, ecb, ServiceReq, eventCounter, eventPtr, credit, OSSchedLock, ret>>
  BY DEF CoSetPriority, listVars, delayVars, eventVars, reqVars
<1>3. arg'[t].on = u /\ arg'[t].val = eventID[u] /\ \A v \in Tasks \ {t} : arg'[v] = arg[v]
  BY ControlNow DEF CoSetPriority, WithArg
<1>4. "unwait" \in Labels \ (UnlockLabels \cup {"clear"}) BY DEF Labels, UnlockLabels, TaskArgLabels
<1>5. Moves(t, "unwait") BY <1>2, <1>4, GotoMoves, ControlNow
<1>6. eventID[u] # NULL
  <2>1. pc'[t] = "unwait" BY ControlNow DEF Goto, ControlTypes, Contexts
  <2>2. pc'[t] = IF state[u] = "READY" THEN "reorder"
             ELSE IF state[u] = "RUNNING" /\ p > prio[Head(TCBRdy)] THEN "resched"
             ELSE IF InPrioList(u) THEN "unwait" ELSE "app"
    BY ControlNow DEF CoSetPriority, Goto, ControlTypes, Contexts
  <2> QED BY <2>1, <2>2 DEF InPrioList
<1> QED BY <1>1, <1>2, <1>3, <1>5, <1>6, TaskFree

LEMMA UnwaitFacts ==
  ASSUME KernelInv, NEW t \in Tasks, UnwaitBody(t)
  PROVE  /\ Runs(t) /\ pc[t] = "unwait" /\ arg[t].on \in Tasks \ {t} /\ Moves(t, "rewait")
         /\ eventID[arg[t].on] # NULL /\ eventID' = [eventID EXCEPT ![arg[t].on] = NULL]
         /\ UNCHANGED <<state, delay, pmail, ecb, ServiceReq, eventCounter, eventPtr, arg, credit>>
<1>1. Runs(t) /\ pc[t] = "unwait" /\ arg[t].on \in Tasks /\ eventID[arg[t].on] # NULL
  BY ManagerAt DEF UnwaitBody, Managing, Tested
<1>2. /\ eventID' = [eventID EXCEPT ![arg[t].on] = NULL] /\ Goto(t, "rewait")
      /\ UNCHANGED <<state, delay, pmail, ecb, ServiceReq, eventCounter, eventPtr, arg, credit, OSSchedLock, ret>>
  BY <1>1, NotMisled DEF UnwaitBody, RemoveEventWaittingList, listVars, delayVars, poolVars, reqVars, callVars
<1>3. "rewait" \in Labels \ (UnlockLabels \cup {"clear"}) BY DEF Labels, UnlockLabels, TaskArgLabels
<1>4. Moves(t, "rewait") BY <1>2, <1>3, GotoMoves, ControlNow
<1> QED BY <1>1, <1>2, <1>4, TaskFree

LEMMA RewaitFacts ==
  ASSUME KernelInv, NEW t \in Tasks, RewaitBody(t)
  PROVE  /\ Runs(t) /\ pc[t] = "rewait" /\ arg[t].on \in Tasks \ {t} /\ Moves(t, "app")
         /\ arg[t].val \in Events /\ state[arg[t].on] = "WAITING"
         /\ eventID' = [eventID EXCEPT ![arg[t].on] = arg[t].val]
         /\ UNCHANGED <<state, delay, pmail, ecb, ServiceReq, eventCounter, eventPtr, arg, credit>>
<1>1. Runs(t) /\ pc[t] = "rewait" /\ arg[t].on \in Tasks /\ state[arg[t].on] = "WAITING"
  BY ManagerAt DEF RewaitBody, Managing, Tested
<1>2. arg[t].val \in Events
  <2>1. Fits("rewait", arg[t]) BY ArgAt DEF RewaitBody, KernelInv, TypeOK, UnlockLabels
  <2> QED BY <2>1 DEF Fits
<1>3. /\ LinkEvent(arg[t].val, arg[t].on) /\ Block(arg[t].on) /\ LockedSection(t, "app")
      /\ UNCHANGED <<delay, pmail, ecb, ServiceReq, eventCounter, eventPtr, arg, credit>>
  BY <1>1 DEF RewaitBody, delayVars, poolVars, reqVars, callVars
<1>4. eventID' = [eventID EXCEPT ![arg[t].on] = arg[t].val] BY <1>3 DEF LinkEvent
<1>5. state' = state BY <1>1, <1>3, ListsNow DEF Block
<1>6. "app" \in ReturnLabels BY DEF ReturnLabels
<1>7. Moves(t, "app") BY <1>3, <1>6, SectionMoves, ControlNow
<1> QED BY <1>1, <1>2, <1>3, <1>4, <1>5, <1>7, TaskFree

LEMMA DeleteFacts ==
  ASSUME KernelInv, NEW t \in Tasks, DeleteBody(t)
  PROVE  /\ Runs(t) /\ pc[t] = "delete" /\ arg[t].on \in Tasks /\ Moves(t, "app")
         /\ state' = [state EXCEPT ![arg[t].on] = "DORMANT"] /\ eventID' = [eventID EXCEPT ![arg[t].on] = NULL]
         /\ \A v \in Tasks \ {arg[t].on} : delay'[v] = delay[v]
         /\ UNCHANGED <<pmail, ecb, ServiceReq, eventCounter, eventPtr, arg, credit>>
<1>1. PICK u \in Tasks : u = arg[t].on BY ManagerAt DEF DeleteBody, Managing
<1>2. /\ Runs(t) /\ pc[t] = "delete"
      /\ \/ u = t
         \/ u # t /\ u # Idle /\ state[u] # "DORMANT" /\ pc[u] # "off"
  BY <1>1, ManagerAt DEF DeleteBody, Managing, Tested
<1>3. ~Contains(FreeTCB, u) /\ (state[u] = "READY" => Contains(TCBRdy, u))
  BY <1>2, ListsNow, TaskFree DEF PoolInv, ReadyInv
<1>4. /\ IF state[u] = "WAITING" /\ delay[u] # INVALID_VALUE THEN RemoveDelayList(u) ELSE UNCHANGED delayVars
      /\ IF state[u] = "WAITING" /\ eventID[u] # NULL
         THEN RemoveEventWaittingList(u) ELSE UNCHANGED <<eventID, eventTCBList>>
      /\ state' = [state EXCEPT ![u] = "DORMANT"] /\ LockedSection(t, "app")
      /\ UNCHANGED <<pmail, ecb, ServiceReq, eventCounter, eventPtr, arg, credit>>
  BY <1>1, <1>3, NotMisled DEF DeleteBody, reqVars, callVars
<1>5. eventID' = [eventID EXCEPT ![u] = NULL]
  BY <1>4, ListsNow DEF RemoveEventWaittingList, WaitInv, EventTypes
<1>6. \A v \in Tasks \ {u} : delay'[v] = delay[v]
  BY <1>4, ListsNow DEF RemoveDelayList, delayVars, DelayTypes
<1>7. "app" \in ReturnLabels BY DEF ReturnLabels
<1>8. Moves(t, "app") BY <1>4, <1>7, SectionMoves, ControlNow
<1> QED BY <1>1, <1>2, <1>4, <1>5, <1>6, <1>8

LEMMA InitTaskFacts ==
  ASSUME KernelInv, NEW t \in Tasks, InitTask(t)
  PROVE  /\ Runs(t) /\ pc[t] \in {"init", "initwait"} /\ arg[t].on \in Tasks \ {t}
         /\ After(t)' = "app" /\ After(arg[t].on)' = "app"
         /\ \A v \in Tasks \ {t, arg[t].on} : After(v)' = After(v)
         /\ pmail' = [pmail EXCEPT ![arg[t].on] = NULL] /\ eventID' = [eventID EXCEPT ![arg[t].on] = NULL]
         /\ \A v \in Tasks \ {arg[t].on} : state'[v] = state[v] /\ delay'[v] = delay[v]
         /\ UNCHANGED <<ecb, ServiceReq, eventCounter, eventPtr, arg, credit>>
<1>1. Runs(t) /\ pc[t] \in {"init", "initwait"} BY RunsInCall DEF InitTask, UnlockLabels
<1>2. Creating(t) /\ CallTypes BY <1>1 DEF Creating, After, UnlockLabels, KernelInv, TypeOK
<1>3. PICK u \in Tasks : u = arg[t].on BY <1>2, CreatesTask
<1>4. u # t BY <1>1, <1>2, <1>3, ListsNow, TaskFree DEF PoolInv, Newborn
<1>5. PICK next \in {"app", "respond"} :
        /\ pc' = [pc EXCEPT ![u] = "app", ![t] = next]
        /\ (ret' = ret /\ next = "app") \/ ret' = [ret EXCEPT ![t] = "app"]
  <2>1. CASE pc[t] = "init" /\ OSSchedLock = 0 BY <1>3, <2>1 DEF InitTask
  <2>2. CASE pc[t] = "init" /\ OSSchedLock # 0 BY <1>3, <2>2 DEF InitTask
  <2>3. CASE pc[t] = "initwait" BY <1>3, <2>3 DEF InitTask
  <2> QED BY <1>1, <2>1, <2>2, <2>3
<1>6. After(t)' = "app" /\ After(u)' = "app" /\ \A v \in Tasks \ {t, u} : After(v)' = After(v)
  <2>1. /\ DOMAIN pc = Contexts /\ DOMAIN ret = Contexts /\ t \in Contexts /\ u \in Contexts
        /\ Tasks \subseteq Contexts
    BY DEF KernelInv, LockInv, Contexts
  <2>2. /\ pc'[u] = "app" /\ pc'[t] = next /\ (next = "respond" => ret'[t] = "app")
        /\ \A v \in Tasks \ {t, u} : pc'[v] = pc[v] /\ ret'[v] = ret[v]
    BY <1>4, <1>5, <2>1
  <2> QED BY <2>2 DEF After, UnlockLabels
<1>7. \A v \in Tasks \ {u} : state'[v] = state[v] /\ delay'[v] = delay[v]
  BY <1>3, ListsNow DEF InitTask, DelayTypes
<1>8. /\ pmail' = [pmail EXCEPT ![u] = NULL] /\ eventID' = [eventID EXCEPT ![u] = NULL]
      /\ UNCHANGED <<ecb, ServiceReq, eventCounter, eventPtr, arg, credit>>
  BY <1>3 DEF InitTask, reqVars, callVars
<1> QED BY <1>1, <1>3, <1>4, <1>6, <1>7, <1>8
---------------------------------------------------------------------------
(* Steps of the unlock and of the exceptions *)

\* Every task is where it was in its call.
Stays == (\A v \in Tasks : After(v)' = After(v)) /\ UNCHANGED <<ecb, arg>>

LEMMA UnlockStays ==
  ASSUME KernelInv, NEW c \in Contexts, UnlockStep(c)
  PROVE  Stays
<1>1. UNCHANGED <<ecb, arg, ret>>
  BY DEF UnlockStep, BeginUnlock, DisposeHead, UnlinkHead, EndDispose, ClearTimeReq, RespondCell,
         EndCells, ClearIsrReq, UnlockSchedule, ClearLock, poolVars, callVars
<1>2. pc[c] \in UnlockLabels \cup {"clear"}
  BY DEF UnlockStep, BeginUnlock, DisposeHead, UnlinkHead, EndDispose, ClearTimeReq, RespondCell,
         EndCells, ClearIsrReq, UnlockSchedule, ClearLock, At, UnlockLabels
<1>3. PICK label \in UnlockLabels \cup {"clear", ret[c]} : pc' = pc \/ Goto(c, label)
  BY DEF UnlockStep, BeginUnlock, DisposeHead, UnlinkHead, EndDispose, ClearTimeReq, RespondCell,
         EndCells, ClearIsrReq, UnlockSchedule, ClearLock, UnlockLabels
<1>4. c \in Tasks => ret[c] \notin UnlockLabels \cup {"clear"}
  BY DEF KernelInv, LockInv, ReturnLabels, MutexLabels, TaskArgLabels, EventArgLabels, UnlockLabels
<1>5. DOMAIN pc = Contexts BY DEF KernelInv, LockInv
<1> QED BY <1>1, <1>2, <1>3, <1>4, <1>5 DEF Stays, After, Goto, Contexts

LEMMA ExceptionStays ==
  ASSUME KernelInv,
         \/ TickEnter \/ IsrExit \/ PendSV_Handler
         \/ \E e \in Events : isr_PostSem(e) \/ \E mail : isr_PostMail(e, mail)
  PROVE  Stays
<1>1. UNCHANGED <<ecb, arg>>
  BY DEF TickEnter, IsrExit, PendSV_Handler, isr_PostSem, isr_PostMail, IsrPost, poolVars, callVars
<1>2. PICK h \in {SysTick, Isr} : \A d \in Contexts \ {h} : pc'[d] = pc[d] /\ ret'[d] = ret[d]
  <2>1. \/ \E label : pc' = pc \/ Goto(SysTick, label) \/ Goto(Isr, label)
    BY DEF TickEnter, IsrExit, PendSV_Handler, isr_PostSem, isr_PostMail, IsrPost, LockedSection
  <2>2. ret' = ret \/ (ret' = [ret EXCEPT ![Isr] = "isrexit"] /\ \E label : Goto(Isr, label))
    BY DEF TickEnter, IsrExit, PendSV_Handler, isr_PostSem, isr_PostMail, IsrPost, LockedSection
  <2>3. DOMAIN pc = Contexts /\ DOMAIN ret = Contexts BY DEF KernelInv, LockInv
  <2> QED BY <2>1, <2>2, <2>3 DEF Goto
<1>3. Tasks \subseteq Contexts \ {h} BY ContextAssumption DEF Contexts
<1> QED BY <1>1, <1>2, <1>3 DEF Stays, After

\* Nothing happens to a token or to a sleeper.
Calm ==
  /\ Stays /\ UNCHANGED <<eventID, pmail, eventCounter, eventPtr, ServiceReq, credit>>
  /\ \A v \in Tasks : Rests(v)

LEMMA ScheduleCalm ==
  ASSUME KernelInv, NEW level, NEW nesting,
         IF TaskSchedReq THEN Schedule(level, nesting) ELSE UNCHANGED <<listVars, TCBNext, PendSV>>
  PROVE  \A v \in Tasks : state[v] = "DORMANT" => state'[v] = "DORMANT"
<1>1. TCBRdy # <<>> => Head(TCBRdy) \in Tasks /\ state[Head(TCBRdy)] = "READY"
  BY ListsNow, HeadTailItems, HeadTailType DEF ReadyInv
<1>2. \/ state' = state
      \/ TCBRdy # <<>> /\ state' = [state EXCEPT ![Head(TCBRdy)] = "RUNNING"]
      \/ /\ TCBRdy # <<>> /\ state[TCBRunning] = "RUNNING"
         /\ state' = [state EXCEPT ![TCBRunning] = "READY", ![Head(TCBRdy)] = "RUNNING"]
  BY DEF Schedule, listVars
<1> QED BY <1>1, <1>2, ListsNow

LEMMA UnlockIsCalm ==
  ASSUME KernelInv, NEW c \in Contexts, UnlockStep(c), ~DisposeHead(c), ~RespondCell(c)
  PROVE  Calm
<1>1. Stays BY UnlockStays
<1>2. UNCHANGED <<eventID, pmail, eventCounter, eventPtr, ServiceReq, credit, delay>>
  BY DEF UnlockStep, BeginUnlock, UnlinkHead, EndDispose, ClearTimeReq, EndCells, ClearIsrReq,
         UnlockSchedule, ClearLock, eventVars, delayVars, reqVars, callVars
<1>3. \A v \in Tasks : state[v] = "DORMANT" => state'[v] = "DORMANT"
  <2>1. CASE UnlinkHead(c)
    <3>1. Disposing BY <2>1 DEF UnlinkHead, At, Disposing
    <3>2. DlyList # <<>> BY <3>1 DEF KernelInv, HeadThere
    <3>3. Head(DlyList) \in Tasks /\ state[Head(DlyList)] = "WAITING"
      BY <3>2, ListsNow, HeadTailItems, HeadTailType DEF DelayInv, DelayTypes
    <3> QED BY <2>1, <3>3, ListsNow DEF UnlinkHead, InsertToTCBRdyList
  <2>2. CASE UnlockSchedule(c) BY <2>2, ScheduleCalm DEF UnlockSchedule
  <2>3. CASE ~UnlinkHead(c) /\ ~UnlockSchedule(c)
    BY <2>3 DEF UnlockStep, BeginUnlock, EndDispose, ClearTimeReq, EndCells, ClearIsrReq, ClearLock, listVars
  <2> QED BY <2>1, <2>2, <2>3
<1> QED BY <1>1, <1>2, <1>3 DEF Calm, Rests, Stays

LEMMA ExceptionIsCalm ==
  ASSUME KernelInv, Disciplined, TickEnter \/ IsrExit \/ PendSV_Handler
  PROVE  Calm
<1>1. Stays BY ExceptionStays
<1>2. UNCHANGED <<eventID, pmail, eventCounter, eventPtr, ServiceReq, credit>>
  BY DEF TickEnter, IsrExit, PendSV_Handler, eventVars, reqVars, callVars
<1>3. \A v \in Tasks : state[v] = "DORMANT" => state'[v] = "DORMANT"
  BY ScheduleCalm DEF TickEnter, IsrExit, PendSV_Handler, listVars
<1>4. ~TickRace => \A v \in Tasks : delay[v] = INVALID_VALUE => delay'[v] = INVALID_VALUE
  <2>1. CASE TickEnter /\ ~TickRace
    <3>1. ~Disposing BY <2>1 DEF TickEnter
    <3>2. DlyList = <<>> => delay' = delay BY <2>1 DEF TickEnter
    <3>3. DlyList # <<>> =>
            delay' = [t \in Tasks |-> IF Contains(DlyList, t) /\ delay[Head(DlyList)] > 0
                                      THEN delay[t] - 1 ELSE delay[t]]
      BY <2>1, <3>1 DEF TickEnter
    <3>4. \A v \in Tasks : Contains(DlyList, v) => delay[v] # INVALID_VALUE
      BY <3>1, ListsNow DEF DelayInv
    <3> QED BY <3>2, <3>3, <3>4
  <2>2. CASE IsrExit \/ PendSV_Handler BY <2>2 DEF IsrExit, PendSV_Handler, delayVars
  <2> QED BY <2>1, <2>2
<1> QED BY <1>1, <1>2, <1>3, <1>4 DEF Calm, Rests, Stays
---------------------------------------------------------------------------
(* Posts, by tasks, by the interrupt and from the queue of requests *)

\* A post that found an event of its type.
Posts(e, n, mail) ==
  /\ PostBody(e, n, mail)
  /\ \/ ecb[e].eventType = "SEM" /\ n = (eventCounter[e] + 1) % 65536 /\ mail = eventPtr[e]
     \/ ecb[e].eventType = "MBOX" /\ n = 1 /\ mail \in Mails

SameTokens == UNCHANGED <<eventID, pmail, eventCounter, eventPtr, state, delay>>

LEMMA TaskPosts ==
  ASSUME KernelInv, MailInv, NEW t \in Tasks, PostSem(t) \/ PostMail(t)
  PROVE  /\ Runs(t) /\ pc[t] \in {"postsem", "postmail"} /\ Moves(t, "app") /\ arg[t].on \in Events
         /\ \E n, mail : Posts(arg[t].on, n, mail)
         /\ credit' = [credit EXCEPT ![arg[t].on] = @ + 1]
         /\ UNCHANGED <<arg, ecb, ServiceReq>>
<1>1. Runs(t) /\ pc[t] \in {"postsem", "postmail"} BY RunsInCall DEF PostSem, PostMail, UnlockLabels
<1>2. arg[t].on \in Events /\ (pc[t] = "postmail" => arg[t].val \in Mails)
  <2>1. Fits(pc[t], arg[t]) BY <1>1, ArgAt, ControlNow DEF PostSem, PostMail, At, UnlockLabels
  <2> QED BY <1>1, <2>1 DEF Fits, EventArgLabels
<1>3. "app" \in ReturnLabels BY DEF ReturnLabels
<1>4. CASE PostSem(t)
  <2>1. After(t) = "postsem" BY <1>1, <1>4, AfterRuns DEF PostSem, At
  <2>2. ecb[arg[t].on].eventType = "SEM" BY <2>1 DEF MailInv, CallsTyped, SemLabels
  <2>3. Posts(arg[t].on, (eventCounter[arg[t].on] + 1) % 65536, eventPtr[arg[t].on])
    BY <1>4, <2>2 DEF PostSem, PostSemBody, Posts
  <2>4. Moves(t, "app") BY <1>3, <1>4, SectionMoves, ControlNow DEF PostSem
  <2>5. credit' = [credit EXCEPT ![arg[t].on] = @ + 1] /\ UNCHANGED <<arg, ecb, ServiceReq>>
    BY <1>4 DEF PostSem, Credited, poolVars, reqVars
  <2> QED BY <1>1, <1>2, <2>3, <2>4, <2>5
<1>5. CASE PostMail(t)
  <2>1. pc[t] = "postmail" BY <1>5 DEF PostMail, At
  <2>2. ecb[arg[t].on].eventType = "MBOX" /\ ~Contains(FreeEventList, arg[t].on)
    BY <1>2, <2>1, ListsNow DEF BoxInv
  <2>3. PostMailBody(arg[t].on, arg[t].val) /\ Credited(arg[t].on, 1) /\ LockedSection(t, "app")
        /\ UNCHANGED <<arg, ecb, ServiceReq>>
    BY <1>5, <2>2 DEF PostMail, poolVars, reqVars
  <2>4. Posts(arg[t].on, 1, arg[t].val) BY <1>2, <2>1, <2>2, <2>3 DEF PostMailBody, Posts
  <2>5. Moves(t, "app") BY <1>3, <2>3, SectionMoves, ControlNow
  <2> QED BY <1>1, <1>2, <2>3, <2>4, <2>5 DEF Credited
<1> QED BY <1>4, <1>5

LEMMA CellPosts ==
  ASSUME KernelInv, MailInv, TypedCalls, NEW c \in Contexts, RespondCell(c)
  PROVE  /\ ServiceReq # <<>> /\ Head(ServiceReq).id \in Events /\ ServiceReq' = Tail(ServiceReq)
         /\ Stays /\ UNCHANGED credit /\ OnCPU(c) /\ pc[c] \in UnlockLabels
         /\ SameTokens \/ \E n, mail : Posts(Head(ServiceReq).id, n, mail)
<1>1. ServiceReq # <<>> /\ ServiceReq' = Tail(ServiceReq) /\ UNCHANGED credit /\ OnCPU(c) /\ pc[c] \in UnlockLabels
  BY DEF RespondCell, callVars, At, UnlockLabels
<1>2. PICK cell \in Requests : cell = Head(ServiceReq)
  BY <1>1, HeadTailType, ControlNow DEF ReqTypes
<1>3. cell.id \in Events /\ (cell.type = "MBOX" => cell.arg \in Mails)
  <2>1. 1 \in DOMAIN ServiceReq /\ ServiceReq[1] = cell BY <1>1, <1>2, ControlNow DEF ReqTypes
  <2> QED BY <1>2, <2>1 DEF MailInv, MailCells, Requests
<1>4. \/ cell.type = "SEM" /\ Accepts(cell.id, "SEM") /\ PostSemBody(cell.id)
      \/ cell.type = "MBOX" /\ Accepts(cell.id, "MBOX") /\ PostMailBody(cell.id, cell.arg)
      \/ NothingPosted
  BY <1>2 DEF RespondCell
<1>5. CASE cell.type = "SEM" /\ Accepts(cell.id, "SEM") /\ PostSemBody(cell.id)
  <2>1. Posts(cell.id, (eventCounter[cell.id] + 1) % 65536, eventPtr[cell.id])
    BY <1>5 DEF Posts, PostSemBody, Accepts, TypedCalls
  <2> QED BY <1>1, <1>2, <1>3, <2>1, UnlockStays DEF UnlockStep
<1>6. CASE cell.type = "MBOX" /\ Accepts(cell.id, "MBOX") /\ PostMailBody(cell.id, cell.arg)
  <2>1. Posts(cell.id, 1, cell.arg) BY <1>3, <1>6 DEF Posts, PostMailBody, Accepts, TypedCalls
  <2> QED BY <1>1, <1>2, <1>3, <2>1, UnlockStays DEF UnlockStep
<1>7. CASE NothingPosted
  <2>1. SameTokens BY <1>7 DEF NothingPosted, SameTokens, eventVars, delayVars, listVars
  <2> QED BY <1>1, <1>2, <1>3, <2>1, UnlockStays DEF UnlockStep
<1> QED BY <1>4, <1>5, <1>6, <1>7

\* What the interrupt posts is posted, waits in the queue or is refused.
Enqueues(e) ==
  /\ SameTokens /\ \E cell \in Requests :
       /\ cell.id = e /\ (cell.type = "MBOX" => cell.arg \in Mails)
       /\ ServiceReq' = Append(ServiceReq, cell)
  /\ credit' = [credit EXCEPT ![e] = @ + 1]

LEMMA InterruptPosts ==
  ASSUME KernelInv, TypedCalls, Interrupt
  PROVE  /\ Stays
         /\ \/ SameTokens /\ UNCHANGED <<ServiceReq, credit>>
            \/ \E e \in Events : Enqueues(e)
            \/ \E e \in Events :
                 /\ \E n, mail : Posts(e, n, mail)
                 /\ OSSchedLock = 0 /\ UNCHANGED ServiceReq /\ credit' = [credit EXCEPT ![e] = @ + 1]
<1>1. PICK e \in Events : \/ ecb[e].eventType = "SEM" /\ isr_PostSem(e)
                          \/ ecb[e].eventType = "MBOX" /\ \E mail \in Mails : isr_PostMail(e, mail)
  BY DEF Interrupt
<1>2. Stays BY <1>1, ExceptionStays
<1>3. PICK type \in {"SEM", "MBOX"}, m \in Mails \cup {NULL} :
        /\ \/ type = "SEM" /\ m = NULL /\ ecb[e].eventType = "SEM" /\ IsrPost(type, e, m, PostSemBody(e))
           \/ type = "MBOX" /\ m \in Mails /\ ecb[e].eventType = "MBOX" /\ IsrPost(type, e, m, PostMailBody(e, m))
  BY <1>1 DEF isr_PostSem, isr_PostMail
<1>4. \/ NothingPosted /\ UNCHANGED <<ServiceReq, credit>>
      \/ /\ NothingPosted /\ ServiceReq' = Append(ServiceReq, [type |-> type, id |-> e, arg |-> m])
         /\ credit' = [credit EXCEPT ![e] = @ + 1]
      \/ /\ OSSchedLock = 0 /\ UNCHANGED ServiceReq /\ credit' = [credit EXCEPT ![e] = @ + 1]
         /\ \/ type = "SEM" /\ PostSemBody(e)
            \/ type = "MBOX" /\ PostMailBody(e, m)
  <2>1. OSSchedLock \in Nat BY ControlNow
  <2> QED BY <1>3, <2>1 DEF IsrPost
<1>5. NothingPosted => SameTokens BY DEF NothingPosted, SameTokens, eventVars, delayVars, listVars
<1>6. CASE NothingPosted /\ ServiceReq' = Append(ServiceReq, [type |-> type, id |-> e, arg |-> m])
           /\ credit' = [credit EXCEPT ![e] = @ + 1]
  <2>1. [type |-> type, id |-> e, arg |-> m] \in Requests BY <1>3 DEF Requests
  <2>2. type = "MBOX" => m \in Mails BY <1>3
  <2>3. Enqueues(e) BY <1>5, <1>6, <2>1, <2>2 DEF Enqueues
  <2> QED BY <1>2, <2>3
<1>7. CASE /\ OSSchedLock = 0 /\ UNCHANGED ServiceReq /\ credit' = [credit EXCEPT ![e] = @ + 1]
           /\ \/ type = "SEM" /\ PostSemBody(e)
              \/ type = "MBOX" /\ PostMailBody(e, m)
  <2>1. \E n, mail : Posts(e, n, mail) BY <1>3, <1>7 DEF Posts, PostSemBody, PostMailBody
  <2> QED BY <1>2, <1>7, <2>1
<1> QED BY <1>2, <1>4, <1>5, <1>6, <1>7
---------------------------------------------------------------------------
(* Mailboxes *)

\* A mailbox changes from empty to full and back.
BoxMoves ==
  \A e \in Events : ecb[e].eventType = "MBOX" =>
    \/ eventCounter'[e] = eventCounter[e] /\ eventPtr'[e] = eventPtr[e]
    \/ eventCounter'[e] = 0 /\ eventPtr'[e] = NULL
    \/ eventCounter'[e] = 1 /\ eventPtr'[e] \in Mails
TypedStill ==
  \A v \in Tasks : After(v)' \in SemLabels =>
    \/ After(v) \in SemLabels /\ arg'[v].on = arg[v].on
    \/ ecb[arg'[v].on].eventType = "SEM"
MailMoves == UNCHANGED ecb /\ TypedStill /\ BoxMoves /\ (UNCHANGED ServiceReq \/ MailCells')

LEMMA MailStays ==
  ASSUME MailInv, MailMoves
  PROVE  MailInv'
<1>1. CallsTyped' BY DEF MailInv, MailMoves, CallsTyped, TypedStill
<1>2. MailCells' BY DEF MailInv, MailMoves, MailCells
<1>3. BoxState' BY DEF MailInv, MailMoves, BoxState, BoxMoves
<1> QED BY <1>1, <1>2, <1>3 DEF MailInv

LEMMA PostsToBox ==
  ASSUME KernelInv, NEW e \in Events, NEW n, NEW mail, Posts(e, n, mail)
  PROVE  BoxMoves
<1>1. /\ eventCounter \in [Events -> U16] /\ eventPtr \in [Events -> Mails \cup {NULL}]
      /\ (1 - 1) % 65536 = 0
  BY ControlNow, SMT DEF EventTypes
<1>2. ASSUME NEW f \in Events \ {e}
      PROVE  eventCounter'[f] = eventCounter[f] /\ eventPtr'[f] = eventPtr[f]
  BY <1>1 DEF Posts, PostBody
<1>3. ASSUME ecb[e].eventType = "MBOX"
      PROVE  \/ eventCounter'[e] = 0 /\ eventPtr'[e] = NULL
             \/ eventCounter'[e] = 1 /\ eventPtr'[e] \in Mails
  <2>1. n = 1 /\ mail \in Mails BY <1>3 DEF Posts
  <2>2. CASE eventTCBList[e] = <<>> BY <1>1, <2>1, <2>2 DEF Posts, PostBody
  <2>3. CASE eventTCBList[e] # <<>> BY <1>1, <1>3, <2>1, <2>3 DEF Posts, PostBody, Consumes
  <2> QED BY <2>2, <2>3
<1> QED BY <1>2, <1>3 DEF BoxMoves

LEMMA StaysTyped ==
  ASSUME Stays
  PROVE  UNCHANGED ecb /\ TypedStill
BY DEF Stays, TypedStill

LEMMA MovesTyped ==
  ASSUME NEW t \in Tasks, NEW label, Moves(t, label), UNCHANGED ecb,
         \A v \in Tasks \ {t} : arg'[v] = arg[v],
         label \in SemLabels =>
           (After(t) \in SemLabels /\ arg'[t].on = arg[t].on) \/ ecb[arg'[t].on].eventType = "SEM"
  PROVE  TypedStill
BY DEF Moves, TypedStill

LEMMA AsksTyped ==
  ASSUME NEW t \in Tasks, NEW label, Asks(t, label)
  PROVE  UNCHANGED <<ecb, ServiceReq>> /\ TypedStill
BY MovesTyped DEF Asks, Rests

LEMMA TailCells ==
  ASSUME KernelInv, MailInv, ServiceReq # <<>>, ServiceReq' = Tail(ServiceReq)
  PROVE  MailCells'
<1>1. ServiceReq \in Seq(Requests) BY ControlNow DEF ReqTypes
<1>2. \A i \in DOMAIN Tail(ServiceReq) : i + 1 \in DOMAIN ServiceReq /\ Tail(ServiceReq)[i] = ServiceReq[i + 1]
  BY <1>1
<1> QED BY <1>2 DEF MailInv, MailCells

LEMMA AppendCells ==
  ASSUME KernelInv, MailInv, NEW cell \in Requests, cell.type = "MBOX" => cell.arg \in Mails,
         ServiceReq' = Append(ServiceReq, cell)
  PROVE  MailCells'
<1>1. ServiceReq \in Seq(Requests) BY ControlNow DEF ReqTypes
<1>2. \A i \in DOMAIN Append(ServiceReq, cell) :
        \/ i \in DOMAIN ServiceReq /\ Append(ServiceReq, cell)[i] = ServiceReq[i]
        \/ Append(ServiceReq, cell)[i] = cell
  BY <1>1
<1> QED BY <1>2 DEF MailInv, MailCells

LEMMA PendsFromBox ==
  ASSUME KernelInv, MailInv, NEW e \in Events, Pends(e)
  PROVE  BoxMoves
BY ControlNow DEF EventTypes, Pends, BoxMoves

---------------------------------------------------------------------------
(* The steps of such an application *)

AsksOnly(t) == \E label : Quiet(t, label) /\ (TokenRules => label # "decrement")
Takes(t, e) == (\E label : Asks(t, label) /\ label # "decrement") /\ Pends(e)
AsksToMove(t) == \E u \in Ids : \E p : CoSetPriority(t, u, p) /\ Goto(t, "unwait")
MovesWaiter(t) == AsksToMove(t) \/ UnwaitBody(t) \/ RewaitBody(t) \/ DeleteBody(t) \/ InitTask(t)
Sleeps(t) == BlockBody(t) \/ Woken(t)

LEMMA CallKinds ==
  ASSUME KernelInv, TypedCalls, NEW t \in Tasks, Call(t)
  PROVE  AsksOnly(t) \/ (\E e \in Events : Takes(t, e)) \/ AsksToMove(t)
<1>1. Disciplined BY DEF TypedCalls
<1>2. CASE TaskCall(t)
  <2>1. ASSUME NEW u \in Ids, CoSuspendTask(t, u) PROVE FALSE
    BY <1>1, <2>1, RunsCalling DEF CoSuspendTask, Forbidden
  <2>2. CASE \E u \in Ids, p \in Priorities : CoSetPriority(t, u, p)
    <3>1. PICK u \in Ids, p \in Priorities : CoSetPriority(t, u, p) BY <2>2
    <3>2. CASE Goto(t, "unwait") BY <3>1, <3>2 DEF AsksToMove
    <3>3. CASE ~Goto(t, "unwait") BY <1>1, <3>1, <3>3, SetPriorityQuiet DEF AsksOnly
    <3> QED BY <3>2, <3>3
  <2>3. CASE CoSchedLock(t) \/ CoSchedUnlock(t) \/ \E ticks \in Delays : CoTickDelay(t, ticks)
    <3>1. Quiet(t, "app") BY <1>1, <2>3, LockCallQuiet, TickDelayQuiet
    <3> QED BY <3>1 DEF AsksOnly
  <2>4. CASE \/ \E u \in Ids, ticks \in Delays : CoResetTaskDelayTick(t, u, ticks)
             \/ \E p \in Priorities, waiting \in BOOLEAN : CreateTask(t, p, waiting)
             \/ \E u \in Ids : CoDelTask(t, u) \/ CoAwakeTask(t, u)
    <3>1. \E label : Quiet(t, label) /\ label # "decrement"
      BY <1>1, <2>4, CreateTaskQuiet, ManageQuiet
    <3> QED BY <3>1 DEF AsksOnly
  <2> QED BY <1>2, <2>1, <2>2, <2>3, <2>4 DEF TaskCall
<1>3. CASE EventCall(t)
  <2>1. PICK call \in {"CoCreateSem", "CoCreateMbox", "CoDelSem", "CoDelMbox"} : Calls(t, call)
    BY <1>3 DEF EventCall, CoCreateEvent, DeleteUnused, DeleteAnyway
  <2> QED BY <1>1, <2>1, RunsCalling DEF Forbidden
<1>4. CASE SemCall(t) \/ MboxCall(t)
  <2>1. PICK e \in Events :
          \/ \E timeout : CoPendSem(t, e, timeout)
          \/ CoAcceptMail(t, e) \/ \E timeout : CoPendMail(t, e, timeout)
          \/ CoAcceptSem(t, e)
          \/ CoPostSem(t, e) \/ \E mail : CoPostMail(t, e, mail)
    BY <1>4 DEF SemCall, MboxCall
  <2>2. CASE CoAcceptSem(t, e)
    <3>1. ~TokenRules BY <2>2 DEF TokenRules, CoAcceptSem, Calls
    <3> QED BY <2>2, <3>1, AcceptSemAsks DEF AsksOnly
  <2>3. CASE CoPostSem(t, e) \/ \E mail : CoPostMail(t, e, mail) BY <2>3, PostAsks DEF AsksOnly
  <2>4. CASE \E timeout : CoPendSem(t, e, timeout) BY <2>4, PendSemAsks DEF Takes
  <2>5. CASE CoAcceptMail(t, e) \/ \E timeout : CoPendMail(t, e, timeout)
    BY <2>5, TakeMailAsks DEF Takes
  <2> QED BY <2>1, <2>2, <2>3, <2>4, <2>5
<1> QED BY <1>2, <1>3, <1>4 DEF Call

StepKind ==
  \/ Calm
  \/ \E t \in Tasks :
       \/ AsksOnly(t) \/ Decrement(t) \/ (\E e \in Events : Takes(t, e))
       \/ MovesWaiter(t) \/ Sleeps(t) \/ PostSem(t) \/ PostMail(t)
  \/ \E c \in Contexts : DisposeHead(c) \/ RespondCell(c)
  \/ Interrupt

LEMMA NextKinds ==
  ASSUME KernelInv, TypedCalls, [Next]_vars
  PROVE  StepKind
<1>1. Disciplined BY DEF TypedCalls
<1>2. ASSUME NEW t \in Tasks, Call(t) PROVE StepKind
  BY <1>2, CallKinds DEF StepKind, MovesWaiter
<1>3. ASSUME NEW c \in Contexts, UnlockStep(c) PROVE StepKind
  BY <1>3, UnlockIsCalm DEF StepKind
<1>4. ASSUME NEW t \in Tasks, Step(t) PROVE StepKind
  <2>1. pc[t] \notin NeverAt BY DEF KernelInv, OrderInv, ControlInv
  <2>2. CASE TaskStep(t)
    <3>1. ~SuspendBody(t) BY <2>1 DEF SuspendBody, At, NeverAt
    <3>2. ResetBody(t) \/ AwakeBody(t) \/ ReorderBody(t) \/ RescheduleBody(t) => AsksOnly(t)
      BY <1>1, ManageStepQuiet DEF AsksOnly
    <3> QED BY <2>2, <3>1, <3>2 DEF TaskStep, StepKind, MovesWaiter
  <2>3. CASE EventStep(t)
    <3>1. ~(InitEvent(t) \/ DeleteWaiter(t) \/ RetireECB(t) \/ ReleaseECB(t))
      BY <2>1 DEF InitEvent, DeleteWaiter, RetireECB, ReleaseECB, At, NeverAt
    <3> QED BY <2>3, <3>1 DEF EventStep, StepKind, Sleeps
  <2>4. CASE SemStep(t) \/ MboxStep(t) BY <2>4 DEF SemStep, MboxStep, StepKind
  <2>5. CASE UnlockStep(t) BY <1>3, <2>5 DEF Contexts
  <2> QED BY <1>4, <2>2, <2>3, <2>4, <2>5 DEF Step
<1>5. ASSUME TickEnter \/ IsrExit \/ PendSV_Handler PROVE StepKind
  BY <1>1, <1>5, ExceptionIsCalm DEF StepKind
<1>6. ASSUME UNCHANGED vars PROVE StepKind
  BY <1>6 DEF StepKind, vars, Calm, Stays, Rests, After
<1>7. SysTick \in Contexts /\ Isr \in Contexts BY DEF Contexts
<1>8. Interrupt => StepKind BY DEF StepKind
<1> QED BY <1>2, <1>3, <1>4, <1>5, <1>6, <1>7, <1>8 DEF Next

\* What follows from a kind of step for the mails.
LEMMA NextMails ==
  ASSUME KernelInv, MailInv, TypedCalls, [Next]_vars
  PROVE  MailInv'
<1>1. StepKind BY NextKinds
<1>2. CASE Calm BY <1>2, MailStays, StaysTyped DEF Calm, MailMoves, BoxMoves
<1>3. ASSUME NEW t \in Tasks, AsksOnly(t) PROVE MailInv'
  <2>1. PICK label : Quiet(t, label) BY <1>3 DEF AsksOnly
  <2> QED BY <2>1, AsksTyped, MailStays DEF Quiet, MailMoves, BoxMoves
<1>4. ASSUME NEW t \in Tasks, Decrement(t) PROVE MailInv'
  <2>1. Asks(t, "app") /\ UNCHANGED eventPtr BY <1>4, DecrementAsks
  <2>2. After(t) = "decrement"
    BY <1>4, RunsInCall, AfterRuns DEF Decrement, UnlockLabels
  <2>3. ecb[arg[t].on].eventType = "SEM" BY <2>2 DEF MailInv, CallsTyped, SemLabels
  <2>4. BoxMoves BY <1>4, <2>1, <2>3, ControlNow DEF Decrement, BoxMoves, EventTypes
  <2> QED BY <2>1, <2>4, AsksTyped, MailStays DEF MailMoves
<1>5. ASSUME NEW t \in Tasks, NEW e \in Events, Takes(t, e) PROVE MailInv'
  BY <1>5, AsksTyped, PendsFromBox, MailStays DEF Takes, MailMoves
<1>6. ASSUME NEW t \in Tasks, MovesWaiter(t) PROVE MailInv'
  <2>1. UNCHANGED <<ecb, ServiceReq, eventCounter, eventPtr>> /\ TypedStill
    <3>1. CASE AsksToMove(t)
      <4>1. PICK u \in Ids : \E p : CoSetPriority(t, u, p) /\ Goto(t, "unwait") BY <3>1 DEF AsksToMove
      <4>2. /\ Moves(t, "unwait") /\ \A v \in Tasks \ {t} : arg'[v] = arg[v]
            /\ UNCHANGED <<ecb, ServiceReq, eventCounter, eventPtr>>
        BY <4>1, AskFacts DEF TypedCalls
      <4> QED BY <4>2, MovesTyped DEF SemLabels
    <3>2. CASE UnwaitBody(t) BY <3>2, UnwaitFacts, MovesTyped DEF SemLabels
    <3>3. CASE RewaitBody(t) BY <3>3, RewaitFacts, MovesTyped DEF SemLabels
    <3>4. CASE DeleteBody(t) BY <3>4, DeleteFacts, MovesTyped DEF SemLabels
    <3>5. CASE InitTask(t) BY <3>5, InitTaskFacts DEF TypedStill, SemLabels
    <3> QED BY <1>6, <3>1, <3>2, <3>3, <3>4, <3>5 DEF MovesWaiter
  <2> QED BY <2>1, MailStays DEF MailMoves, BoxMoves
<1>7. ASSUME NEW t \in Tasks, Sleeps(t) PROVE MailInv'
  <2>1. UNCHANGED <<ecb, ServiceReq, eventCounter, eventPtr>> /\ TypedStill
    <3>1. CASE BlockBody(t)
      <4>1. PICK label \in Sleeping : Moves(t, label) /\ (label = "semwoken" <=> pc[t] = "semblock")
        BY <3>1, BlockFacts
      <4>2. label \in SemLabels => After(t) \in SemLabels
        BY <3>1, <4>1, BlockFacts, AfterRuns DEF Sleeping, SemLabels
      <4> QED BY <3>1, <4>1, <4>2, BlockFacts, MovesTyped
    <3>2. CASE Woken(t) BY <3>2, WokenFacts, MovesTyped DEF SemLabels
    <3> QED BY <1>7, <3>1, <3>2 DEF Sleeps
  <2> QED BY <2>1, MailStays DEF MailMoves, BoxMoves
<1>8. ASSUME NEW t \in Tasks, PostSem(t) \/ PostMail(t) PROVE MailInv'
  <2>1. BoxMoves BY <1>8, TaskPosts, PostsToBox
  <2>2. TypedStill BY <1>8, TaskPosts, MovesTyped DEF SemLabels
  <2> QED BY <1>8, <2>1, <2>2, TaskPosts, MailStays DEF MailMoves
<1>9. ASSUME NEW c \in Contexts, DisposeHead(c) PROVE MailInv'
  <2>1. UNCHANGED <<eventCounter, eventPtr, ServiceReq>> BY <1>9 DEF DisposeHead, reqVars
  <2> QED BY <1>9, <2>1, UnlockStays, StaysTyped, MailStays DEF UnlockStep, MailMoves, BoxMoves
<1>10. ASSUME NEW c \in Contexts, RespondCell(c) PROVE MailInv'
  <2>1. BoxMoves BY <1>10, CellPosts, PostsToBox DEF SameTokens, BoxMoves
  <2>2. MailCells' BY <1>10, CellPosts, TailCells
  <2> QED BY <1>10, <2>1, <2>2, CellPosts, StaysTyped, MailStays DEF MailMoves
<1>11. ASSUME Interrupt PROVE MailInv'
  <2>1. Stays BY <1>11, InterruptPosts
  <2>2. BoxMoves BY <1>11, InterruptPosts, PostsToBox DEF SameTokens, Enqueues, BoxMoves
  <2>3. UNCHANGED ServiceReq \/ MailCells' BY <1>11, InterruptPosts, AppendCells DEF Enqueues
  <2> QED BY <2>1, <2>2, <2>3, StaysTyped, MailStays DEF MailMoves
<1> QED BY <1>1, <1>2, <1>3, <1>4, <1>5, <1>6, <1>7, <1>8, <1>9, <1>10, <1>11 DEF StepKind

LEMMA InitMails ==
  ASSUME Init
  PROVE  MailInv
<1>1. \A t \in Tasks : After(t) \in {"app", "off"}
  BY ContextAssumption DEF Init, KernelInit, After, Contexts, UnlockLabels
<1>2. CallsTyped BY <1>1 DEF CallsTyped, SemLabels
<1>3. MailCells BY DEF Init, KernelInit, MailCells
<1>4. BoxState BY BootAssumption DEF Init, KernelInit, BoxState
<1> QED BY <1>2, <1>3, <1>4 DEF MailInv

\* In every application of typed calls, with any tasks, mailboxes and requests,
\* a mailbox holds a mail exactly when its counter is 1: no interleaving of
\* posts, takes, deferred posts and time-outs leaves a mail behind an empty
\* counter or a full counter without a mail (CoPostMail, CoPendMail,
\* CoAcceptMail in mbox.c, EventTaskToRdy in event.c, RespondSRQ).
THEOREM MailboxStaysHonest == TypedCalls => (Spec => []MailboxHonest)
<1> SUFFICES ASSUME TypedCalls PROVE Spec => []MailboxHonest
  OBVIOUS
<1>1. Disciplined BY DEF TypedCalls
<1>2. Init => ExactInv /\ MailInv
  BY <1>1, InitExact, InitMails DEF ExactInv
<1>3. ExactInv /\ MailInv /\ [Next]_vars => (ExactInv /\ MailInv)'
  BY <1>1, NextExact, NextMails DEF ExactInv
<1>4. MailInv => MailboxHonest
  BY ContextAssumption DEF MailInv, BoxState, MailboxHonest
<1> QED BY <1>2, <1>3, <1>4, PTL DEF Spec
---------------------------------------------------------------------------
(* Who sleeps, and who has been woken with a token *)

LEMMA RestStays ==
  ASSUME NEW v \in Tasks, WokenFor(v), After(v)' = After(v), Rests(v), BetweenLists(v) => BetweenLists(v)'
  PROVE  WokenFor(v)'
BY DEF WokenFor, Rests

LEMMA CalmWakes ==
  ASSUME WakeInv, Stays, \A v \in Tasks : WokenFor(v)', \A v \in Tasks : After(v) \in Asking => UNCHANGED pmail,
         \A v \in Tasks : After(v) \in Asking => arg[v].on \in Tasks
  PROVE  WakeInv'
BY DEF WakeInv, Stays, StaysAsked

\* Task t takes a step of its own and goes on at label.
LEMMA TaskWakes ==
  ASSUME KernelInv, WakeInv, NEW t \in Tasks, Runs(t), NEW label, Moves(t, label), label # "decrement",
         WokenFor(t)', StaysAsked(t)', \A v \in Tasks \ {t} : WokenFor(v)'
  PROVE  WakeInv'
<1>1. \A v \in Tasks \ {t} : After(v)' = After(v) /\ After(v) \notin Asking BY OnlyAsker DEF Moves
<1>2. \A v \in Tasks \ {t} : StaysAsked(v)' BY <1>1 DEF StaysAsked
<1>3. \A v \in Tasks : After(v)' # "decrement" BY <1>1 DEF Moves, WakeInv
<1> QED BY <1>2, <1>3 DEF WakeInv

\* Before a step that is not at "rewait" no task is between two lists.
LEMMA OthersStay ==
  ASSUME KernelInv, WakeInv, NEW t \in Tasks, Runs(t), pc[t] # "rewait", NEW v \in Tasks \ {t},
         Rests(v), After(v)' = After(v)
  PROVE  WokenFor(v)'
<1>1. ~BetweenLists(v) BY OnlyAsker, AfterRuns DEF BetweenLists, Asking
<1> QED BY <1>1, RestStays DEF WakeInv

\* A running task that is not asleep has no token and is in no event's list.
LEMMA AwakeNow ==
  ASSUME WakeInv, NEW t \in Tasks, Runs(t), pc[t] \notin Sleeping
  PROVE  pmail[t] = NULL /\ eventID[t] = NULL
BY AfterRuns DEF WakeInv, WokenFor

LEMMA AsksWake ==
  ASSUME KernelInv, WakeInv, NEW t \in Tasks, NEW label, Asks(t, label), label # "decrement"
  PROVE  WakeInv'
<1>1. /\ Runs(t) /\ pc[t] \notin Sleeping \cup Asking /\ Moves(t, label) /\ label \notin Sleeping \cup Asking
      /\ UNCHANGED <<pmail, eventID>> /\ \A v \in Tasks \ {t} : Rests(v)
  BY DEF Asks
<1>2. pmail[t] = NULL /\ eventID[t] = NULL BY <1>1, AwakeNow
<1>3. After(t)' = label BY <1>1 DEF Moves
<1>4. WokenFor(t)' BY <1>1, <1>2, <1>3 DEF WokenFor, Sleeping
<1>5. StaysAsked(t)' BY <1>1, <1>3 DEF StaysAsked
<1>6. \A v \in Tasks \ {t} : WokenFor(v)' BY <1>1, OthersStay DEF Asking, Moves
<1> QED BY <1>1, <1>4, <1>5, <1>6, TaskWakes

LEMMA AskToMoveWakes ==
  ASSUME KernelInv, Disciplined, WakeInv, NEW t \in Tasks, AsksToMove(t)
  PROVE  WakeInv'
<1>1. PICK u \in Ids : \E p : CoSetPriority(t, u, p) /\ Goto(t, "unwait") BY DEF AsksToMove
<1>2. /\ Runs(t) /\ pc[t] = "app" /\ u \in Tasks \ {t} /\ Moves(t, "unwait") /\ eventID[u] # NULL
      /\ arg'[t].on = u /\ arg'[t].val = eventID[u] /\ \A v \in Tasks \ {t} : arg'[v] = arg[v]
      /\ UNCHANGED <<state, delay, pmail, eventID>>
  BY <1>1, AskFacts
<1>3. After(t)' = "unwait" /\ \A v \in Tasks \ {t} : After(v)' = After(v) BY <1>2 DEF Moves
<1>4. WokenFor(t)' BY <1>2, <1>3, AwakeNow DEF WokenFor, Sleeping
<1>5. After(u) \in Sleeping /\ arg[u].on = eventID[u] /\ pmail[u] = NULL BY <1>2 DEF WakeInv, WokenFor
<1>6. StaysAsked(t)' BY <1>2, <1>3, <1>5 DEF StaysAsked
<1>7. \A v \in Tasks \ {t} : WokenFor(v)' BY <1>2, <1>3, OthersRest, OthersStay
<1> QED BY <1>2, <1>4, <1>6, <1>7, TaskWakes

LEMMA UnwaitWakes ==
  ASSUME KernelInv, WakeInv, NEW t \in Tasks, UnwaitBody(t)
  PROVE  WakeInv'
<1>1. PICK u \in Tasks : u = arg[t].on /\ u # t BY UnwaitFacts
<1>2. /\ Runs(t) /\ pc[t] = "unwait" /\ Moves(t, "rewait") /\ eventID[u] # NULL
      /\ eventID' = [eventID EXCEPT ![u] = NULL] /\ UNCHANGED <<state, delay, pmail, arg>>
  BY <1>1, UnwaitFacts
<1>3. After(t)' = "rewait" /\ \A v \in Tasks \ {t} : After(v)' = After(v) BY <1>2 DEF Moves
<1>4. WokenFor(t)' BY <1>1, <1>2, <1>3, AwakeNow, ControlNow DEF WokenFor, Sleeping, EventTypes
<1>5. StaysAsked(t)'
  <2>1. After(u) \in Sleeping /\ arg[u].on = arg[t].val /\ pmail[u] = NULL
    BY <1>1, <1>2, AfterRuns DEF WakeInv, StaysAsked, Asking
  <2> QED BY <1>1, <1>2, <1>3, <2>1 DEF StaysAsked
<1>6. WokenFor(u)'
  <2>1. WokenFor(u) /\ pmail[u] = NULL BY <1>2 DEF WakeInv, WokenFor
  <2>2. BetweenLists(u)' BY <1>1, <1>2, <1>3 DEF BetweenLists
  <2>3. eventID'[u] = NULL BY <1>2, ControlNow DEF EventTypes
  <2> QED BY <1>1, <1>2, <1>3, <2>1, <2>2, <2>3 DEF WokenFor
<1>7. ASSUME NEW v \in Tasks \ {t, u} PROVE WokenFor(v)'
  <2>1. Rests(v) BY <1>2, ControlNow DEF Rests, EventTypes
  <2> QED BY <1>2, <1>3, <2>1, OthersStay
<1> QED BY <1>2, <1>4, <1>5, <1>6, <1>7, TaskWakes

LEMMA RewaitWakes ==
  ASSUME KernelInv, WakeInv, NEW t \in Tasks, RewaitBody(t)
  PROVE  WakeInv'
<1>1. PICK u \in Tasks : u = arg[t].on /\ u # t BY RewaitFacts
<1>2. /\ Runs(t) /\ pc[t] = "rewait" /\ Moves(t, "app") /\ arg[t].val \in Events /\ state[u] = "WAITING"
      /\ eventID' = [eventID EXCEPT ![u] = arg[t].val] /\ UNCHANGED <<state, delay, pmail, arg>>
  BY <1>1, RewaitFacts
<1>3. After(t)' = "app" /\ \A v \in Tasks \ {t} : After(v)' = After(v) BY <1>2 DEF Moves
<1>4. WokenFor(t)' BY <1>1, <1>2, <1>3, AwakeNow, ControlNow DEF WokenFor, Sleeping, EventTypes
<1>5. StaysAsked(t)' BY <1>3 DEF StaysAsked, Asking
<1>6. WokenFor(u)'
  <2>1. After(u) \in Sleeping /\ arg[u].on = arg[t].val /\ pmail[u] = NULL
    BY <1>1, <1>2, AfterRuns DEF WakeInv, StaysAsked, Asking
  <2>2. eventID'[u] = arg[t].val /\ arg[t].val # NULL
    BY <1>2, ControlNow, ContextAssumption DEF EventTypes
  <2>3. WokenFor(u) BY DEF WakeInv
  <2> QED BY <1>1, <1>2, <1>3, <2>1, <2>2, <2>3 DEF WokenFor
<1>7. ASSUME NEW v \in Tasks \ {t, u} PROVE WokenFor(v)'
  <2>1. Rests(v) BY <1>2, ControlNow DEF Rests, EventTypes
  <2>2. ~BetweenLists(v) BY <1>1, <1>2, OnlyAsker DEF BetweenLists, Asking
  <2> QED BY <1>3, <2>1, <2>2, RestStays DEF WakeInv
<1> QED BY <1>2, <1>4, <1>5, <1>6, <1>7, TaskWakes

LEMMA DeleteWakes ==
  ASSUME KernelInv, WakeInv, NEW t \in Tasks, DeleteBody(t)
  PROVE  WakeInv'
<1>1. PICK u \in Tasks : u = arg[t].on BY DeleteFacts
<1>2. /\ Runs(t) /\ pc[t] = "delete" /\ Moves(t, "app")
      /\ state' = [state EXCEPT ![u] = "DORMANT"] /\ eventID' = [eventID EXCEPT ![u] = NULL]
      /\ (\A v \in Tasks \ {u} : delay'[v] = delay[v]) /\ UNCHANGED <<pmail, arg>>
  BY <1>1, DeleteFacts
<1>3. After(t)' = "app" /\ \A v \in Tasks \ {t} : After(v)' = After(v) BY <1>2 DEF Moves
<1>4. WokenFor(t)' BY <1>2, <1>3, AwakeNow, ControlNow DEF WokenFor, Sleeping, EventTypes
<1>5. StaysAsked(t)' BY <1>3 DEF StaysAsked, Asking
<1>6. ASSUME NEW v \in Tasks \ {t} PROVE WokenFor(v)'
  <2>1. CASE v = u
    <3>1. eventID'[u] = NULL /\ state'[u] = "DORMANT" BY <1>2, ListsNow DEF EventTypes
    <3> QED BY <1>2, <1>3, <1>6, <2>1, <3>1 DEF WakeInv, WokenFor
  <2>2. CASE v # u
    <3>1. Rests(v) BY <1>2, <2>2, ListsNow DEF Rests, EventTypes
    <3> QED BY <1>2, <1>3, <3>1, OthersStay
  <2> QED BY <2>1, <2>2
<1> QED BY <1>2, <1>4, <1>5, <1>6, TaskWakes

LEMMA InitTaskWakes ==
  ASSUME KernelInv, WakeInv, NEW t \in Tasks, InitTask(t)
  PROVE  WakeInv'
<1>1. PICK u \in Tasks : u = arg[t].on /\ u # t BY InitTaskFacts
<1>2. /\ Runs(t) /\ pc[t] \in {"init", "initwait"} /\ After(t)' = "app" /\ After(u)' = "app"
      /\ \A v \in Tasks \ {t, u} : After(v)' = After(v)
      /\ pmail' = [pmail EXCEPT ![u] = NULL] /\ eventID' = [eventID EXCEPT ![u] = NULL]
      /\ (\A v \in Tasks \ {u} : state'[v] = state[v] /\ delay'[v] = delay[v]) /\ UNCHANGED arg
  BY <1>1, InitTaskFacts
<1>3. pmail'[u] = NULL /\ eventID'[u] = NULL /\ \A v \in Tasks \ {u} : Rests(v)
  BY <1>2, ControlNow DEF Rests, EventTypes
<1>4. WokenFor(t)' BY <1>1, <1>2, <1>3, AwakeNow, ControlNow DEF WokenFor, Sleeping, EventTypes
<1>5. WokenFor(u)' BY <1>2, <1>3 DEF WokenFor, Sleeping
<1>6. \A v \in Tasks \ {t, u} : WokenFor(v)' BY <1>2, <1>3, OthersStay
<1>7. \A v \in Tasks : After(v)' \notin Asking \cup {"decrement"}
  BY <1>2, OnlyAsker DEF Asking, WakeInv
<1> QED BY <1>4, <1>5, <1>6, <1>7 DEF WakeInv, StaysAsked

LEMMA SleepsWakes ==
  ASSUME KernelInv, WakeInv, NEW t \in Tasks, Sleeps(t)
  PROVE  WakeInv'
<1>1. CASE BlockBody(t)
  <2>1. PICK label \in Sleeping : Moves(t, label) BY <1>1, BlockFacts
  <2>2. /\ Runs(t) /\ pc[t] \in {"semblock", "mailblock"} /\ arg[t].on \in Events
        /\ eventID' = [eventID EXCEPT ![t] = arg[t].on] /\ UNCHANGED <<pmail, arg>>
        /\ \A v \in Tasks \ {t} : state'[v] = state[v] /\ delay'[v] = delay[v]
        /\ ~TickRace /\ arg[t].val = 0 => delay'[t] = INVALID_VALUE
    BY <1>1, BlockFacts
  <2>3. eventID'[t] = arg[t].on /\ eventID'[t] # NULL /\ \A v \in Tasks \ {t} : eventID'[v] = eventID[v]
    BY <2>2, ControlNow, ContextAssumption DEF EventTypes
  <2>4. pmail[t] = NULL BY <2>2, AwakeNow DEF Sleeping
  <2>5. After(t)' = label /\ \A v \in Tasks \ {t} : After(v)' = After(v) BY <2>1 DEF Moves
  <2>6. WokenFor(t)' BY <2>2, <2>3, <2>4, <2>5 DEF WokenFor
  <2>7. StaysAsked(t)' BY <2>5 DEF StaysAsked, Asking, Sleeping
  <2>8. \A v \in Tasks \ {t} : WokenFor(v)' BY <2>2, <2>3, <2>5, OthersStay DEF Rests
  <2> QED BY <2>1, <2>2, <2>6, <2>7, <2>8, TaskWakes DEF Sleeping
<1>2. CASE Woken(t)
  <2>1. /\ Runs(t) /\ pc[t] \in Sleeping /\ Moves(t, "app")
        /\ UNCHANGED <<eventID, state, delay, arg>> /\ pmail' = [pmail EXCEPT ![t] = NULL]
    BY <1>2, WokenFacts
  <2>2. pmail'[t] = NULL /\ eventID'[t] = NULL /\ \A v \in Tasks \ {t} : Rests(v)
    BY <2>1, TaskFree, ControlNow DEF Rests, EventTypes
  <2>3. After(t)' = "app" /\ \A v \in Tasks \ {t} : After(v)' = After(v) BY <2>1 DEF Moves
  <2>4. WokenFor(t)' BY <2>2, <2>3 DEF WokenFor, Sleeping
  <2>5. StaysAsked(t)' BY <2>3 DEF StaysAsked, Asking
  <2>6. \A v \in Tasks \ {t} : WokenFor(v)' BY <2>1, <2>2, <2>3, OthersStay DEF Sleeping
  <2> QED BY <2>1, <2>4, <2>5, <2>6, TaskWakes
<1> QED BY <1>1, <1>2 DEF Sleeps

\* A post puts a token into the counter, or gives it to the waiter it wakes.
Kept(e) ==
  /\ UNCHANGED <<pmail, eventID, state, delay>> /\ eventCounter'[e] <= eventCounter[e] + 1
  /\ \A f \in Events \ {e} : eventCounter'[f] = eventCounter[f]
GivenTo(h, e) ==
  /\ eventID[h] = e /\ eventID' = [eventID EXCEPT ![h] = NULL]
  /\ pmail'[h] # NULL /\ eventCounter'[e] <= eventCounter[e]
  /\ \A v \in Tasks \ {h} : pmail'[v] = pmail[v] /\ state'[v] = state[v] /\ delay'[v] = delay[v]
  /\ \A f \in Events \ {e} : eventCounter'[f] = eventCounter[f]

LEMMA CountUp ==
  ASSUME NEW c \in U16
  PROVE  (c + 1) % 65536 <= c + 1 /\ (((c + 1) % 65536) - 1) % 65536 <= c
<1>1. c \in Int /\ 0 <= c /\ c <= 65535 BY Words
<1>2. CASE c = 65535 BY <1>2, SMTT(30)
<1>3. CASE c < 65535 BY <1>1, <1>3, SMTT(30)
<1> QED BY <1>1, <1>2, <1>3, SMTT(30)

LEMMA PostEffect ==
  ASSUME KernelInv, MailInv, TokenRules, NEW e \in Events, NEW n, NEW mail, Posts(e, n, mail)
  PROVE  Kept(e) \/ \E h \in Tasks : GivenTo(h, e)
<1>1. /\ eventCounter \in [Events -> U16] /\ pmail \in [Tasks -> Mails \cup {NULL, EVENT}]
      /\ eventTCBList[e] \in Seq(Tasks) /\ eventCounter[e] \in U16
      /\ \A c \in U16 : c \in Int /\ c >= 0
  <2>1. \A c \in U16 : c \in Int /\ c >= 0 BY Words
  <2> QED BY <2>1, ControlNow DEF EventTypes
<1>2. \/ ecb[e].eventType = "SEM" /\ n = (eventCounter[e] + 1) % 65536
      \/ ecb[e].eventType = "MBOX" /\ n = 1 /\ mail \in Mails
  BY DEF Posts
<1>3. n <= eventCounter[e] + 1 /\ (n - 1) % 65536 <= eventCounter[e]
  <2>1. CASE ecb[e].eventType = "SEM" /\ n = (eventCounter[e] + 1) % 65536
    <3>1. PICK c \in U16 : c = eventCounter[e] BY <1>1
    <3> QED BY <2>1, <3>1, CountUp
  <2>2. CASE n = 1
    <3>1. PICK c \in Int : c = eventCounter[e] /\ c >= 0 BY <1>1
    <3>2. (1 - 1) % 65536 = 0 /\ 1 <= c + 1 BY <3>1, SMT
    <3> QED BY <2>2, <3>1, <3>2
  <2> QED BY <1>2, <2>1, <2>2
<1>4. CASE eventTCBList[e] = <<>>
  <2>1. eventCounter' = [eventCounter EXCEPT ![e] = n] /\ UNCHANGED <<pmail, eventID, state, delay>>
    BY <1>4 DEF Posts, PostBody, delayVars, listVars
  <2> QED BY <1>1, <1>3, <2>1 DEF Kept
<1>5. CASE eventTCBList[e] # <<>>
  <2>1. PICK h \in Tasks : h = Head(eventTCBList[e]) BY <1>1, <1>5, HeadTailType
  <2>2. eventID[h] = e
    <3>1. Contains(eventTCBList[e], h) BY <1>1, <1>5, <2>1, ListsNow, HeadTailItems DEF WaitInv
    <3> QED BY <3>1, ListsNow DEF WaitInv
  <2>3. Consumes(e) BY <1>2 DEF Consumes, TokenRules
  <2>4. /\ eventID' = [eventID EXCEPT ![h] = NULL]
        /\ eventCounter' = [eventCounter EXCEPT ![e] = (n - 1) % 65536]
        /\ pmail' = [pmail EXCEPT ![h] = IF ecb[e].eventType = "MBOX" THEN mail ELSE EVENT]
        /\ IF delay[h] # INVALID_VALUE THEN RemoveDelayList(h) ELSE UNCHANGED delayVars
    BY <1>5, <2>1, <2>3 DEF Posts, PostBody
  <2>8. state' = [state EXCEPT ![h] = "RUNNING"] \/ state' = [state EXCEPT ![h] = "READY"]
    BY <1>5, <2>1 DEF Posts, PostBody, InsertToTCBRdyList
  <2>5. \A v \in Tasks \ {h} : pmail'[v] = pmail[v] /\ state'[v] = state[v] /\ delay'[v] = delay[v]
    <3>1. delay' = delay \/ delay' = [delay EXCEPT ![h] = INVALID_VALUE]
      BY <2>4 DEF RemoveDelayList, delayVars
    <3>2. delay \in [Tasks -> Int] /\ state \in [Tasks -> States] BY ListsNow DEF DelayTypes
    <3>3. ASSUME NEW v \in Tasks \ {h} PROVE pmail'[v] = pmail[v] BY <1>1, <2>4, <3>3
    <3>4. ASSUME NEW v \in Tasks \ {h} PROVE state'[v] = state[v] BY <2>8, <3>2, <3>4
    <3>5. ASSUME NEW v \in Tasks \ {h} PROVE delay'[v] = delay[v] BY <3>1, <3>2, <3>5
    <3> QED BY <3>3, <3>4, <3>5
  <2>6. pmail'[h] # NULL BY <1>1, <1>2, <2>4, ContextAssumption
  <2>7. eventCounter'[e] <= eventCounter[e] /\ \A f \in Events \ {e} : eventCounter'[f] = eventCounter[f]
    BY <1>1, <1>3, <2>4
  <2>9. eventID[h] = e /\ eventID' = [eventID EXCEPT ![h] = NULL] BY <2>2, <2>4
  <2>10. GivenTo(h, e) BY <2>5, <2>6, <2>7, <2>9 DEF GivenTo
  <2> QED BY <2>10
<1> QED BY <1>4, <1>5

\* Whoever posts, sleepers stay asleep or are woken with their token.
LEMMA PostsWoken ==
  ASSUME KernelInv, WakeInv, NEW e \in Events, Kept(e) \/ \E h \in Tasks : GivenTo(h, e),
         NEW v \in Tasks, After(v)' = After(v), arg'[v] = arg[v],
         \A r \in Tasks : After(r) \notin Asking
  PROVE  WokenFor(v)'
<1>1. WokenFor(v) /\ ~BetweenLists(v) BY DEF WakeInv, BetweenLists, Asking
<1>2. CASE Kept(e) BY <1>1, <1>2, RestStays DEF Kept, Rests
<1>3. CASE \E h \in Tasks : GivenTo(h, e)
  <2>1. PICK h \in Tasks : GivenTo(h, e) BY <1>3
  <2>2. CASE v = h
    <3>1. eventID[h] # NULL /\ eventID'[h] = NULL /\ pmail'[h] # NULL
      BY <2>1, ControlNow, ContextAssumption DEF GivenTo, EventTypes
    <3> QED BY <1>1, <2>2, <3>1 DEF WokenFor
  <2>3. CASE v # h
    <3>1. Rests(v) BY <2>1, <2>3, ControlNow DEF GivenTo, Rests, EventTypes
    <3> QED BY <1>1, <3>1, RestStays
  <2> QED BY <2>2, <2>3
<1> QED BY <1>2, <1>3

LEMMA TaskPostWakes ==
  ASSUME KernelInv, MailInv, WakeInv, TokenRules, NEW t \in Tasks, PostSem(t) \/ PostMail(t)
  PROVE  WakeInv'
<1>1. PICK e \in Events :
        /\ Runs(t) /\ pc[t] \in {"postsem", "postmail"} /\ Moves(t, "app") /\ UNCHANGED arg
        /\ \E n, mail : Posts(e, n, mail)
  BY TaskPosts
<1>2. Kept(e) \/ \E h \in Tasks : GivenTo(h, e) BY <1>1, PostEffect
<1>3. \A r \in Tasks : After(r) \notin Asking BY <1>1, OnlyAsker, AfterRuns DEF Asking
<1>4. After(t)' = "app" /\ \A v \in Tasks \ {t} : After(v)' = After(v) BY <1>1 DEF Moves
<1>5. \A v \in Tasks \ {t} : WokenFor(v)' BY <1>1, <1>2, <1>3, <1>4, PostsWoken
<1>6. pmail[t] = NULL /\ eventID[t] = NULL BY <1>1, AwakeNow DEF Sleeping
<1>7. pmail'[t] = NULL /\ eventID'[t] = NULL
  <2>1. \A h \in Tasks : GivenTo(h, e) => h # t BY <1>6, ContextAssumption DEF GivenTo
  <2> QED BY <1>2, <1>6, <2>1, ControlNow DEF Kept, GivenTo, EventTypes
<1>8. WokenFor(t)' BY <1>4, <1>7 DEF WokenFor, Sleeping
<1>9. StaysAsked(t)' BY <1>4 DEF StaysAsked, Asking
<1> QED BY <1>1, <1>5, <1>8, <1>9, TaskWakes

LEMMA HandlerPostWakes ==
  ASSUME KernelInv, MailInv, WakeInv, TokenRules, Stays, NEW e \in Events,
         \E n, mail : Posts(e, n, mail), \A r \in Tasks : After(r) \notin Asking
  PROVE  WakeInv'
<1>1. Kept(e) \/ \E h \in Tasks : GivenTo(h, e) BY PostEffect
<1>2. \A v \in Tasks : WokenFor(v)' BY <1>1, PostsWoken DEF Stays
<1> QED BY <1>2, CalmWakes

LEMMA DisposeWakes ==
  ASSUME KernelInv, WakeInv, NEW c \in Contexts, DisposeHead(c)
  PROVE  WakeInv'
<1>1. OnCPU(c) /\ pc[c] \in UnlockLabels /\ Stays /\ UNCHANGED <<pmail, state>>
  BY UnlockStays DEF DisposeHead, At, UnlockLabels, UnlockStep, listVars
<1>2. \A r \in Tasks : After(r) \notin Asking BY <1>1, NoAskerInUnlock
<1>3. DlyList # <<>> /\ delay[Head(DlyList)] = 0 BY DEF DisposeHead, Expired
<1>4. PICK h \in Tasks : h = Head(DlyList) BY <1>3, ListsNow, HeadTailType DEF DelayTypes
<1>5. /\ delay' = [delay EXCEPT ![h] = INVALID_VALUE]
      /\ eventID' = eventID \/ eventID' = [eventID EXCEPT ![h] = NULL]
      /\ eventID[h] # NULL => eventID' = [eventID EXCEPT ![h] = NULL]
  BY <1>4 DEF DisposeHead, RemoveEventWaittingList
<1>6. ASSUME NEW v \in Tasks PROVE WokenFor(v)'
  <2>1. WokenFor(v) /\ ~BetweenLists(v) BY <1>2 DEF WakeInv, BetweenLists, Asking
  <2>2. CASE v = h
    <3>1. eventID'[h] = NULL BY <1>5, ControlNow DEF EventTypes
    <3>2. delay[h] # INVALID_VALUE BY <1>3, <1>4, ConfigAssumption
    <3> QED BY <1>1, <2>1, <2>2, <3>1, <3>2 DEF WokenFor, Stays
  <2>3. CASE v # h
    <3>1. Rests(v) BY <1>1, <1>5, <2>3, ListsNow DEF Rests, Stays, EventTypes, DelayTypes
    <3> QED BY <1>1, <2>1, <3>1, RestStays DEF Stays
  <2> QED BY <2>2, <2>3
<1> QED BY <1>1, <1>2, <1>6, CalmWakes

LEMMA NextWakes ==
  ASSUME KernelInv, MailInv, WakeInv, TokenRules, [Next]_vars
  PROVE  WakeInv'
<1>1. StepKind BY NextKinds DEF TokenRules
<1>2. ASSUME Stays, UNCHANGED <<eventID, pmail>>, \A v \in Tasks : Rests(v) PROVE WakeInv'
  <2>1. \A v \in Tasks : BetweenLists(v) => BetweenLists(v)' BY <1>2 DEF BetweenLists, Stays
  <2>2. \A v \in Tasks : WokenFor(v)' BY <1>2, <2>1, RestStays DEF Stays, WakeInv
  <2> QED BY <1>2, <2>2, CalmWakes, AskerRuns
<1>3. CASE Calm BY <1>2, <1>3 DEF Calm
<1>4. ASSUME NEW t \in Tasks, AsksOnly(t) PROVE WakeInv'
  BY <1>4, AsksWake DEF AsksOnly, Quiet
<1>5. ASSUME NEW t \in Tasks, Decrement(t) PROVE FALSE
  <2>1. After(t) = "decrement" BY <1>5, RunsInCall, AfterRuns DEF Decrement, UnlockLabels
  <2> QED BY <2>1 DEF WakeInv
<1>6. ASSUME NEW t \in Tasks, NEW e \in Events, Takes(t, e) PROVE WakeInv'
  BY <1>6, AsksWake DEF Takes
<1>7. ASSUME NEW t \in Tasks, MovesWaiter(t) PROVE WakeInv'
  <2>1. Disciplined BY DEF TokenRules, TypedCalls
  <2> QED BY <1>7, <2>1, AskToMoveWakes, UnwaitWakes, RewaitWakes, DeleteWakes, InitTaskWakes DEF MovesWaiter
<1>8. ASSUME NEW t \in Tasks, Sleeps(t) PROVE WakeInv' BY <1>8, SleepsWakes
<1>9. ASSUME NEW t \in Tasks, PostSem(t) \/ PostMail(t) PROVE WakeInv' BY <1>9, TaskPostWakes
<1>10. ASSUME NEW c \in Contexts, DisposeHead(c) PROVE WakeInv' BY <1>10, DisposeWakes
<1>11. ASSUME SameTokens, Stays PROVE WakeInv'
  BY <1>2, <1>11 DEF SameTokens, Stays, Rests
<1>12. ASSUME NEW c \in Contexts, RespondCell(c) PROVE WakeInv'
  <2>1. /\ Head(ServiceReq).id \in Events /\ Stays /\ OnCPU(c) /\ pc[c] \in UnlockLabels
        /\ SameTokens \/ \E n, mail : Posts(Head(ServiceReq).id, n, mail)
    BY <1>12, CellPosts DEF TokenRules
  <2>2. \A r \in Tasks : After(r) \notin Asking BY <2>1, NoAskerInUnlock
  <2> QED BY <1>11, <2>1, <2>2, HandlerPostWakes
<1>13. ASSUME Interrupt PROVE WakeInv'
  <2>1. Stays /\ (SameTokens \/ \E e \in Events : OSSchedLock = 0 /\ \E n, mail : Posts(e, n, mail))
    BY <1>13, InterruptPosts DEF TokenRules, Enqueues
  <2> QED BY <1>11, <2>1, NoAskerUnlocked, HandlerPostWakes
<1> QED BY <1>1, <1>3, <1>4, <1>5, <1>6, <1>7, <1>8, <1>9, <1>10, <1>12, <1>13 DEF StepKind
---------------------------------------------------------------------------
(* The tokens that are held are covered *)

Counted ==
  \A e \in Events :
    /\ IsFiniteSet(Granted(e)) /\ Cardinality(Granted(e)) \in Nat
    /\ IsFiniteSet(Requested(e)) /\ Cardinality(Requested(e)) \in Nat
    /\ eventCounter[e] \in Nat /\ credit[e] \in Int

LEMMA Countable == KernelInv => Counted
<1> SUFFICES ASSUME KernelInv, NEW e \in Events
             PROVE  /\ IsFiniteSet(Granted(e)) /\ Cardinality(Granted(e)) \in Nat
                    /\ IsFiniteSet(Requested(e)) /\ Cardinality(Requested(e)) \in Nat
                    /\ eventCounter[e] \in Nat /\ credit[e] \in Int
  BY DEF Counted
<1>1. IsFiniteSet(Granted(e))
  <2>1. Granted(e) \in SUBSET Tasks BY DEF Granted
  <2> QED BY <2>1, FiniteAssumption, FS_Subset
<1>2. IsFiniteSet(Requested(e))
  <2>1. ServiceReq \in Seq(Requests) BY ControlNow DEF ReqTypes
  <2>2. Requested(e) \in SUBSET (1 .. Len(ServiceReq)) BY <2>1 DEF Requested
  <2>3. Len(ServiceReq) \in Int /\ 1 \in Int BY <2>1
  <2>4. IsFiniteSet(1 .. Len(ServiceReq)) BY <2>3, FS_Interval
  <2> QED BY <2>2, <2>4, FS_Subset
<1>3. eventCounter[e] \in U16 /\ credit[e] \in Int BY ControlNow, SMTT(30) DEF EventTypes
<1>4. \A c \in U16 : c \in Nat BY Words
<1> QED BY <1>1, <1>2, <1>3, <1>4, FS_CardinalityType

LEMMA CountableThen == KernelInv' => Counted'
BY Countable, PTL

LEMMA Counts ==
  ASSUME KernelInv, NEW e \in Events
  PROVE  /\ IsFiniteSet(Granted(e)) /\ Cardinality(Granted(e)) \in Nat
         /\ IsFiniteSet(Requested(e)) /\ Cardinality(Requested(e)) \in Nat
         /\ eventCounter[e] \in Nat /\ credit[e] \in Int
BY Countable DEF Counted

LEMMA CountsThen ==
  ASSUME KernelInv', NEW e \in Events
  PROVE  /\ Cardinality(Granted(e)') \in Nat /\ Cardinality(Requested(e)') \in Nat
         /\ eventCounter'[e] \in Nat /\ credit'[e] \in Int
BY CountableThen DEF Counted

CoveredAt(e) == Held(e) <= credit[e]

\* At most g tokens more are with woken tasks, q in requests and n in the
\* counter, and the credit grows by as many.
Changes(e, g, q, n) ==
  /\ Cardinality(Granted(e)') <= Cardinality(Granted(e)) + g
  /\ Cardinality(Requested(e)') <= Cardinality(Requested(e)) + q
  /\ eventCounter'[e] <= eventCounter[e] + n
  /\ credit[e] + g + q + n <= credit'[e]

LEMMA Balance ==
  ASSUME KernelInv, KernelInv', NEW e \in Events, CoveredAt(e),
         NEW g \in Int, NEW q \in Int, NEW n \in Int, Changes(e, g, q, n)
  PROVE  CoveredAt(e)'
<1>1. /\ Cardinality(Granted(e)) \in Int /\ Cardinality(Requested(e)) \in Int
      /\ eventCounter[e] \in Int /\ credit[e] \in Int
  BY Counts
<1>2. /\ Cardinality(Granted(e)') \in Int /\ Cardinality(Requested(e)') \in Int
      /\ eventCounter'[e] \in Int /\ credit'[e] \in Int
  BY CountsThen
<1>3. eventCounter[e] + Cardinality(Granted(e)) + Cardinality(Requested(e)) <= credit[e]
  BY DEF CoveredAt, Held
<1>4. eventCounter'[e] + Cardinality(Granted(e)') + Cardinality(Requested(e)') <= credit'[e]
  BY <1>1, <1>2, <1>3 DEF Changes
<1> QED BY <1>4 DEF CoveredAt, Held

\* No task is given a token and none is taken from a request.
NoneGiven == \A v \in Tasks : pmail'[v] = NULL \/ (pmail'[v] = pmail[v] /\ arg'[v].on = arg[v].on)

LEMMA NoMoreGranted ==
  ASSUME KernelInv, NEW e \in Events,
         \A v \in Tasks : pmail'[v] # NULL /\ arg'[v].on = e => pmail[v] # NULL /\ arg[v].on = e
  PROVE  Cardinality(Granted(e)') <= Cardinality(Granted(e)) + 0
<1>1. Granted(e)' \in SUBSET Granted(e) BY DEF Granted
<1>2. IsFiniteSet(Granted(e)) /\ Cardinality(Granted(e)) \in Nat BY Counts
<1>3. Cardinality(Granted(e)') <= Cardinality(Granted(e)) BY <1>1, <1>2, FS_Subset
<1> QED BY <1>2, <1>3

LEMMA RequestsSame ==
  ASSUME KernelInv, NEW e \in Events, UNCHANGED ServiceReq
  PROVE  Cardinality(Requested(e)') <= Cardinality(Requested(e)) + 0
<1>1. Requested(e)' = Requested(e) BY DEF Requested
<1>2. Cardinality(Requested(e)) \in Nat BY Counts
<1> QED BY <1>1, <1>2

LEMMA StaysCovered ==
  ASSUME KernelInv, KernelInv', Covered, NoneGiven, UNCHANGED <<ServiceReq, eventCounter, credit>>
  PROVE  Covered'
<1>1. ASSUME NEW e \in Events PROVE CoveredAt(e)'
  <2>1. Cardinality(Granted(e)') <= Cardinality(Granted(e)) + 0 BY NoMoreGranted DEF NoneGiven
  <2>2. Cardinality(Requested(e)') <= Cardinality(Requested(e)) + 0 BY RequestsSame
  <2>3. eventCounter'[e] <= eventCounter[e] + 0 /\ credit[e] + 0 + 0 + 0 <= credit'[e] BY Counts
  <2>4. CoveredAt(e) BY DEF Covered, CoveredAt
  <2> QED BY <2>1, <2>2, <2>3, <2>4, Balance DEF Changes
<1> QED BY <1>1 DEF Covered, CoveredAt

\* A take from the counter.
LEMMA TakeCovered ==
  ASSUME KernelInv, KernelInv', Covered, NoneGiven, UNCHANGED ServiceReq, NEW e \in Events,
         eventCounter[e] > 0, eventCounter' = [eventCounter EXCEPT ![e] = @ - 1],
         credit' = [credit EXCEPT ![e] = @ - 1]
  PROVE  Covered' /\ Tokens!Take(e)
<1>1. ASSUME NEW f \in Events PROVE CoveredAt(f)'
  <2>1. Cardinality(Granted(f)') <= Cardinality(Granted(f)) + 0 BY NoMoreGranted DEF NoneGiven
  <2>2. Cardinality(Requested(f)') <= Cardinality(Requested(f)) + 0 BY RequestsSame
  <2>3. DOMAIN credit = Events /\ DOMAIN eventCounter = Events BY ControlNow DEF EventTypes
  <2>4. eventCounter[f] \in Nat /\ credit[f] \in Int BY Counts
  <2>5. CoveredAt(f) BY DEF Covered, CoveredAt
  <2>6. CASE f = e
    <3>1. eventCounter'[f] = eventCounter[f] - 1 /\ credit'[f] = credit[f] - 1 BY <2>3, <2>6
    <3>2. eventCounter'[f] <= eventCounter[f] + (-1) /\ credit[f] + 0 + 0 + (-1) <= credit'[f]
      BY <2>4, <3>1
    <3> QED BY <2>1, <2>2, <2>5, <3>2, Balance DEF Changes
  <2>7. CASE f # e
    <3>1. eventCounter'[f] = eventCounter[f] /\ credit'[f] = credit[f] BY <2>3, <2>7
    <3>2. eventCounter'[f] <= eventCounter[f] + 0 /\ credit[f] + 0 + 0 + 0 <= credit'[f]
      BY <2>4, <3>1
    <3> QED BY <2>1, <2>2, <2>5, <3>2, Balance DEF Changes
  <2> QED BY <2>6, <2>7
<1>2. credit[e] > 0
  <2>1. /\ Cardinality(Granted(e)) \in Nat /\ Cardinality(Requested(e)) \in Nat
        /\ eventCounter[e] \in Nat /\ credit[e] \in Int
    BY Counts
  <2>2. eventCounter[e] + Cardinality(Granted(e)) + Cardinality(Requested(e)) <= credit[e]
    BY DEF Covered, Held
  <2> QED BY <2>1, <2>2
<1> QED BY <1>1, <1>2 DEF Covered, CoveredAt, Tokens!Take

\* One token comes in for e, into the counter or to a waiter.
OneMore(e) ==
  /\ \A f \in Events \ {e} :
       /\ Cardinality(Granted(f)') <= Cardinality(Granted(f)) + 0
       /\ eventCounter'[f] <= eventCounter[f] + 0
  /\ \/ /\ Cardinality(Granted(e)') <= Cardinality(Granted(e)) + 0
        /\ eventCounter'[e] <= eventCounter[e] + 1
     \/ /\ Cardinality(Granted(e)') <= Cardinality(Granted(e)) + 1
        /\ eventCounter'[e] <= eventCounter[e] + 0

LEMMA PostBrings ==
  ASSUME KernelInv, WakeInv, UNCHANGED arg, NEW e \in Events, Kept(e) \/ \E h \in Tasks : GivenTo(h, e)
  PROVE  OneMore(e)
<1>1. \A f \in Events : eventCounter[f] \in Nat BY Counts
<1>2. CASE Kept(e)
  <2>1. \A f \in Events : Cardinality(Granted(f)') <= Cardinality(Granted(f)) + 0
    BY <1>2, NoMoreGranted DEF Kept
  <2>2. \A f \in Events \ {e} : eventCounter'[f] <= eventCounter[f] + 0 BY <1>1, <1>2 DEF Kept
  <2>3. eventCounter'[e] <= eventCounter[e] + 1 BY <1>2 DEF Kept
  <2> QED BY <2>1, <2>2, <2>3 DEF OneMore
<1>3. CASE \E h \in Tasks : GivenTo(h, e)
  <2>1. PICK h \in Tasks : GivenTo(h, e) BY <1>3
  <2>2. arg[h].on = e BY <2>1, ContextAssumption DEF GivenTo, WakeInv, WokenFor
  <2>3. ASSUME NEW f \in Events \ {e} PROVE Cardinality(Granted(f)') <= Cardinality(Granted(f)) + 0
    <3>1. \A v \in Tasks : pmail'[v] # NULL /\ arg'[v].on = f => pmail[v] # NULL /\ arg[v].on = f
      BY <2>1, <2>2, <2>3 DEF GivenTo
    <3> QED BY <3>1, NoMoreGranted
  <2>4. \A f \in Events \ {e} : eventCounter'[f] <= eventCounter[f] + 0 BY <1>1, <2>1 DEF GivenTo
  <2>5. Cardinality(Granted(e)') <= Cardinality(Granted(e)) + 1
    <3>1. Granted(e)' \in SUBSET (Granted(e) \cup {h}) BY <2>1 DEF GivenTo, Granted
    <3>2. IsFiniteSet(Granted(e)) /\ Cardinality(Granted(e)) \in Nat BY Counts
    <3>3. /\ IsFiniteSet(Granted(e) \cup {h})
          /\ Cardinality(Granted(e) \cup {h}) \in {Cardinality(Granted(e)), Cardinality(Granted(e)) + 1}
      BY <3>2, FS_AddElement
    <3>4. IsFiniteSet(Granted(e)') BY <3>1, <3>3, FS_Subset
    <3>5. Cardinality(Granted(e)') <= Cardinality(Granted(e) \cup {h}) BY <3>1, <3>3, FS_Subset
    <3>6. Cardinality(Granted(e)') \in Nat BY <3>4, FS_CardinalityType
    <3> QED BY <3>2, <3>3, <3>5, <3>6
  <2>6. eventCounter'[e] <= eventCounter[e] + 0 BY <1>1, <2>1 DEF GivenTo
  <2> QED BY <2>3, <2>4, <2>5, <2>6 DEF OneMore
<1> QED BY <1>2, <1>3

\* The request at the head of the queue is taken out.
LEMMA RequestServed ==
  ASSUME KernelInv, ServiceReq # <<>>, ServiceReq' = Tail(ServiceReq), NEW f \in Events
  PROVE  /\ Cardinality(Requested(f)') <= Cardinality(Requested(f)) + 0
         /\ f = Head(ServiceReq).id => Cardinality(Requested(f)') <= Cardinality(Requested(f)) + (-1)
<1>1. ServiceReq \in Seq(Requests) BY ControlNow DEF ReqTypes
<1>2. IsFiniteSet(Requested(f)) /\ Cardinality(Requested(f)) \in Nat BY Counts
<1>3. DEFINE Rest == Requested(f) \ {1}
<1>4. /\ IsFiniteSet(Rest)
      /\ Cardinality(Rest) = IF 1 \in Requested(f) THEN Cardinality(Requested(f)) - 1 ELSE Cardinality(Requested(f))
  BY <1>2, FS_RemoveElement
<1>5. Cardinality(Requested(f)') <= Cardinality(Rest)
  <2>1. \A i \in Requested(f)' : i \in Int /\ i + 1 \in Rest
    <3>1. \A i \in DOMAIN Tail(ServiceReq) :
            i \in Int /\ i >= 1 /\ i + 1 \in DOMAIN ServiceReq /\ Tail(ServiceReq)[i] = ServiceReq[i + 1]
      BY <1>1
    <3> QED BY <3>1 DEF Requested
  <2>2. [i \in Requested(f)' |-> i + 1] \in Injection(Requested(f)', Rest)
    BY <2>1 DEF Injection, IsInjective
  <2> QED BY <1>4, <2>2, FS_Injection
<1>6. f = Head(ServiceReq).id => 1 \in Requested(f) BY <1>1 DEF Requested
<1>7. Cardinality(Rest) \in Nat BY <1>4, FS_CardinalityType
<1>8. IsFiniteSet(Requested(f)') /\ Cardinality(Requested(f)') \in Nat
  <2>1. Requested(f)' \in SUBSET (1 .. Len(Tail(ServiceReq))) BY <1>1 DEF Requested
  <2>2. Len(Tail(ServiceReq)) \in Int /\ 1 \in Int BY <1>1
  <2>3. IsFiniteSet(1 .. Len(Tail(ServiceReq))) BY <2>2, FS_Interval
  <2> QED BY <2>1, <2>3, FS_Subset, FS_CardinalityType
<1> QED BY <1>2, <1>4, <1>5, <1>6, <1>7, <1>8

LEMMA RequestQueued ==
  ASSUME KernelInv, NEW cell \in Requests, ServiceReq' = Append(ServiceReq, cell), NEW f \in Events
  PROVE  /\ Cardinality(Requested(f)') <= Cardinality(Requested(f)) + 1
         /\ f # cell.id => Cardinality(Requested(f)') <= Cardinality(Requested(f)) + 0
<1>1. ServiceReq \in Seq(Requests) BY ControlNow DEF ReqTypes
<1>2. IsFiniteSet(Requested(f)) /\ Cardinality(Requested(f)) \in Nat BY Counts
<1>3. PICK n \in Nat : n = Len(ServiceReq) + 1 BY <1>1
<1>4. \A i \in DOMAIN Append(ServiceReq, cell) :
        \/ i \in DOMAIN ServiceReq /\ Append(ServiceReq, cell)[i] = ServiceReq[i]
        \/ i = n /\ Append(ServiceReq, cell)[i] = cell
  BY <1>1, <1>3
<1>5. Requested(f)' \in SUBSET (Requested(f) \cup {n}) BY <1>4 DEF Requested
<1>6. f # cell.id => Requested(f)' \in SUBSET Requested(f) BY <1>4 DEF Requested
<1>7. /\ IsFiniteSet(Requested(f) \cup {n})
      /\ Cardinality(Requested(f) \cup {n}) \in {Cardinality(Requested(f)), Cardinality(Requested(f)) + 1}
  BY <1>2, FS_AddElement
<1>8. IsFiniteSet(Requested(f)') BY <1>5, <1>7, FS_Subset
<1>9. Cardinality(Requested(f)') \in Nat BY <1>8, FS_CardinalityType
<1>10. Cardinality(Requested(f)') <= Cardinality(Requested(f) \cup {n}) BY <1>5, <1>7, FS_Subset
<1>11. f # cell.id => Cardinality(Requested(f)') <= Cardinality(Requested(f))
  BY <1>2, <1>6, FS_Subset
<1> QED BY <1>2, <1>7, <1>9, <1>10, <1>11

\* A post is credited, and its token kept or given; or the token of a request
\* that was credited when it was queued.
LEMMA CreditedPost ==
  ASSUME KernelInv, KernelInv', Covered, NEW e \in Events, OneMore(e), UNCHANGED ServiceReq,
         credit' = [credit EXCEPT ![e] = @ + 1]
  PROVE  Covered' /\ Tokens!Post(e)
<1>1. ASSUME NEW f \in Events PROVE CoveredAt(f)'
  <2>1. Cardinality(Requested(f)') <= Cardinality(Requested(f)) + 0 BY RequestsSame
  <2>2. credit \in [Events -> Int] /\ CoveredAt(f) BY ControlNow DEF Covered, CoveredAt
  <2>3. CASE f = e
    <3>1. credit'[f] = credit[f] + 1 BY <2>2, <2>3
    <3>2. credit[f] + 1 + 0 + 0 <= credit'[f] /\ credit[f] + 0 + 0 + 1 <= credit'[f] BY <2>2, <3>1
    <3> QED BY <2>1, <2>2, <2>3, <3>2, Balance DEF Changes, OneMore
  <2>4. CASE f # e
    <3>1. credit'[f] = credit[f] BY <2>2, <2>4
    <3>2. credit[f] + 0 + 0 + 0 <= credit'[f] BY <2>2, <3>1
    <3> QED BY <2>1, <2>2, <2>4, <3>2, Balance DEF Changes, OneMore
  <2> QED BY <2>3, <2>4
<1> QED BY <1>1 DEF Covered, CoveredAt, Tokens!Post

LEMMA RequestedPost ==
  ASSUME KernelInv, KernelInv', Covered, NEW e \in Events, OneMore(e), UNCHANGED credit,
         ServiceReq # <<>>, e = Head(ServiceReq).id, ServiceReq' = Tail(ServiceReq)
  PROVE  Covered'
<1>1. ASSUME NEW f \in Events PROVE CoveredAt(f)'
  <2>1. credit \in [Events -> Int] /\ CoveredAt(f) BY ControlNow DEF Covered, CoveredAt
  <2>2. CASE f = e
    <3>1. Cardinality(Requested(f)') <= Cardinality(Requested(f)) + (-1) BY <2>2, RequestServed
    <3>2. credit[f] + 1 + (-1) + 0 <= credit'[f] /\ credit[f] + 0 + (-1) + 1 <= credit'[f] BY <2>1
    <3>3. CASE Cardinality(Granted(f)') <= Cardinality(Granted(f)) + 0 /\ eventCounter'[f] <= eventCounter[f] + 1
      <4>1. Changes(f, 0, -1, 1) BY <3>1, <3>2, <3>3 DEF Changes
      <4> QED BY <2>1, <4>1, Balance
    <3>4. CASE Cardinality(Granted(f)') <= Cardinality(Granted(f)) + 1 /\ eventCounter'[f] <= eventCounter[f] + 0
      <4>1. Changes(f, 1, -1, 0) BY <3>1, <3>2, <3>4 DEF Changes
      <4> QED BY <2>1, <4>1, Balance
    <3> QED BY <2>2, <3>3, <3>4 DEF OneMore
  <2>3. CASE f # e
    <3>1. Cardinality(Requested(f)') <= Cardinality(Requested(f)) + 0 BY RequestServed
    <3>2. credit[f] + 0 + 0 + 0 <= credit'[f] BY <2>1
    <3>3. Cardinality(Granted(f)') <= Cardinality(Granted(f)) + 0 /\ eventCounter'[f] <= eventCounter[f] + 0
      BY <2>3 DEF OneMore
    <3>4. Changes(f, 0, 0, 0) BY <3>1, <3>2, <3>3 DEF Changes
    <3> QED BY <2>1, <3>4, Balance
  <2> QED BY <2>2, <2>3
<1> QED BY <1>1 DEF Covered, CoveredAt

LEMMA QueuedCovers ==
  ASSUME KernelInv, KernelInv', Covered, NEW e \in Events, Enqueues(e), UNCHANGED arg
  PROVE  Covered' /\ Tokens!Post(e)
<1>1. PICK cell \in Requests : cell.id = e /\ ServiceReq' = Append(ServiceReq, cell) BY DEF Enqueues
<1>2. UNCHANGED <<pmail, eventCounter>> /\ credit' = [credit EXCEPT ![e] = @ + 1]
  BY DEF Enqueues, SameTokens
<1>3. ASSUME NEW f \in Events PROVE CoveredAt(f)'
  <2>1. Cardinality(Granted(f)') <= Cardinality(Granted(f)) + 0 BY <1>2, NoMoreGranted
  <2>2. credit \in [Events -> Int] /\ CoveredAt(f) BY ControlNow DEF Covered, CoveredAt
  <2>3. eventCounter'[f] <= eventCounter[f] + 0 BY <1>2, Counts
  <2>4. CASE f = e
    <3>1. credit'[f] = credit[f] + 1 BY <1>2, <2>2, <2>4
    <3>2. credit[f] + 0 + 1 + 0 <= credit'[f] BY <2>2, <3>1
    <3>3. Cardinality(Requested(f)') <= Cardinality(Requested(f)) + 1 BY <1>1, RequestQueued
    <3> QED BY <2>1, <2>2, <2>3, <3>2, <3>3, Balance DEF Changes
  <2>5. CASE f # e
    <3>1. credit'[f] = credit[f] BY <1>2, <2>2, <2>5
    <3>2. credit[f] + 0 + 0 + 0 <= credit'[f] BY <2>2, <3>1
    <3>3. Cardinality(Requested(f)') <= Cardinality(Requested(f)) + 0 BY <1>1, <2>5, RequestQueued
    <3>4. Changes(f, 0, 0, 0) BY <2>1, <2>3, <3>2, <3>3 DEF Changes
    <3> QED BY <2>2, <3>4, Balance
  <2> QED BY <2>4, <2>5
<1> QED BY <1>2, <1>3 DEF Covered, CoveredAt, Tokens!Post

\* A pend call comes back: the token its task was given is taken.
LEMMA WokenCovers ==
  ASSUME KernelInv, KernelInv', WakeInv, Covered, Disciplined, NEW t \in Tasks, Woken(t)
  PROVE  Covered' /\ (UNCHANGED credit \/ \E e \in Events : Tokens!Take(e))
<1>1. /\ Runs(t) /\ pc[t] \in Sleeping /\ arg[t].on \in Events
      /\ UNCHANGED <<ServiceReq, eventCounter, arg>> /\ pmail' = [pmail EXCEPT ![t] = NULL]
  BY WokenFacts
<1>2. pmail'[t] = NULL /\ \A v \in Tasks \ {t} : pmail'[v] = pmail[v] BY <1>1, ControlNow DEF EventTypes
<1>3. CASE pmail[t] = NULL
  <2>1. ~(pc[t] = "semwoken" /\ arg[t].val = 0)
    <3>1. After(t) = pc[t] /\ state[t] = "RUNNING" /\ eventID[t] = NULL BY <1>1, AfterRuns, TaskFree
    <3>2. ~BetweenLists(t)
      <4>1. \A r \in Tasks \ {t} : After(r) \notin Asking BY <1>1, OnlyAsker
      <4> QED BY <1>1, <3>1, <4>1 DEF BetweenLists, Asking, Sleeping
    <3>3. ASSUME TickRace, pc[t] = "semwoken" PROVE arg[t].val # 0
      <4>1. Fits("semwoken", arg[t])
        BY <3>3, ArgAt DEF Woken, At, KernelInv, TypeOK, UnlockLabels
      <4> QED BY <3>3, <4>1 DEF Fits, Disciplined, TimedWaits
    <3> QED BY <1>3, <3>1, <3>2, <3>3 DEF WakeInv, WokenFor
  <2>2. UNCHANGED credit BY <1>3, <2>1 DEF Woken
  <2>3. NoneGiven BY <1>1, <1>2 DEF NoneGiven
  <2> QED BY <1>1, <2>2, <2>3, StaysCovered
<1>4. CASE pmail[t] # NULL
  <2>1. PICK e \in Events : e = arg[t].on BY <1>1
  <2>2. credit' = [credit EXCEPT ![e] = @ - 1] BY <1>4, <2>1 DEF Woken, Credited
  <2>3. /\ IsFiniteSet(Granted(e)) /\ Cardinality(Granted(e)) \in Nat /\ Cardinality(Requested(e)) \in Nat
        /\ eventCounter[e] \in Nat /\ credit[e] \in Int
    BY Counts
  <2>4. t \in Granted(e) BY <1>4, <2>1 DEF Granted
  <2>5. Granted(e)' = Granted(e) \ {t} BY <1>1, <1>2, <2>1 DEF Granted
  <2>6. Cardinality(Granted(e)') = Cardinality(Granted(e)) - 1 BY <2>3, <2>4, <2>5, FS_RemoveElement
  <2>7. credit[e] > 0
    <3>1. eventCounter[e] + Cardinality(Granted(e)) + Cardinality(Requested(e)) <= credit[e]
      BY DEF Covered, Held
    <3>2. Cardinality(Granted(e)') \in Nat BY CountsThen
    <3> QED BY <2>3, <2>6, <3>1, <3>2
  <2>8. ASSUME NEW f \in Events PROVE CoveredAt(f)'
    <3>1. Cardinality(Requested(f)') <= Cardinality(Requested(f)) + 0 BY <1>1, RequestsSame
    <3>2. credit \in [Events -> Int] /\ CoveredAt(f) BY ControlNow DEF Covered, CoveredAt
    <3>3. eventCounter'[f] <= eventCounter[f] + 0 BY <1>1, Counts
    <3>4. CASE f = e
      <4>1. credit'[f] = credit[f] - 1 BY <2>2, <3>2, <3>4
      <4>2. credit[f] + (-1) + 0 + 0 <= credit'[f] BY <3>2, <4>1
      <4>3. Cardinality(Granted(f)') <= Cardinality(Granted(f)) + (-1) BY <2>3, <2>6, <3>4
      <4> QED BY <3>1, <3>2, <3>3, <4>2, <4>3, Balance DEF Changes
    <3>5. CASE f # e
      <4>1. credit'[f] = credit[f] BY <2>2, <3>2, <3>5
      <4>2. credit[f] + 0 + 0 + 0 <= credit'[f] BY <3>2, <4>1
      <4>3. Cardinality(Granted(f)') <= Cardinality(Granted(f)) + 0 BY <1>1, <1>2, NoMoreGranted
      <4> QED BY <3>1, <3>2, <3>3, <4>2, <4>3, Balance DEF Changes
    <3> QED BY <3>4, <3>5
  <2> QED BY <2>2, <2>7, <2>8 DEF Covered, CoveredAt, Tokens!Take
<1> QED BY <1>3, <1>4

\* What a request or a pend call takes is taken from the counter.
LEMMA AsksCovers ==
  ASSUME KernelInv, KernelInv', WakeInv, Covered, NEW t \in Tasks, NEW label, Asks(t, label),
         UNCHANGED <<eventCounter, credit>> \/ \E e \in Events : Pends(e)
  PROVE  Covered' /\ (UNCHANGED credit \/ \E e \in Events : Tokens!Take(e))
<1>1. Runs(t) /\ pc[t] \notin Sleeping /\ UNCHANGED <<ServiceReq, pmail>> /\ \A v \in Tasks \ {t} : Rests(v)
  BY DEF Asks
<1>2. pmail[t] = NULL BY <1>1, AwakeNow
<1>3. NoneGiven BY <1>1, <1>2 DEF NoneGiven, Rests
<1>4. CASE UNCHANGED <<eventCounter, credit>> BY <1>1, <1>3, <1>4, StaysCovered
<1>5. CASE \E e \in Events : Pends(e)
  <2>1. PICK e \in Events : Pends(e) BY <1>5
  <2>2. CASE UNCHANGED <<eventCounter, eventPtr, credit>> BY <1>4, <2>2
  <2>3. CASE ~UNCHANGED <<eventCounter, eventPtr, credit>>
    <3>1. /\ eventCounter[e] > 0 /\ eventCounter' = [eventCounter EXCEPT ![e] = @ - 1]
          /\ credit' = [credit EXCEPT ![e] = @ - 1]
      BY <2>1, <2>3 DEF Pends
    <3> QED BY <1>1, <1>3, <3>1, TakeCovered
  <2> QED BY <2>2, <2>3
<1> QED BY <1>4, <1>5

\* The steps around a sleeping task give it nothing.
LEMMA MoverCovers ==
  ASSUME KernelInv, KernelInv', WakeInv, Covered, Disciplined, NEW t \in Tasks, MovesWaiter(t)
  PROVE  Covered' /\ UNCHANGED credit
<1>1. /\ UNCHANGED <<ServiceReq, eventCounter, credit>>
      /\ \A v \in Tasks : pmail'[v] = NULL \/ pmail'[v] = pmail[v]
      /\ UNCHANGED arg \/ (UNCHANGED pmail /\ pmail[t] = NULL /\ \A v \in Tasks \ {t} : arg'[v] = arg[v])
  <2>1. CASE AsksToMove(t)
    <3>1. PICK u \in Ids : \E p : CoSetPriority(t, u, p) /\ Goto(t, "unwait") BY <2>1 DEF AsksToMove
    <3>2. /\ Runs(t) /\ pc[t] = "app" /\ UNCHANGED <<ServiceReq, eventCounter, credit, pmail>>
          /\ \A v \in Tasks \ {t} : arg'[v] = arg[v]
      BY <3>1, AskFacts
    <3>3. pmail[t] = NULL BY <3>2, AwakeNow DEF Sleeping
    <3> QED BY <3>2, <3>3
  <2>2. CASE UnwaitBody(t) BY <2>2, UnwaitFacts
  <2>3. CASE RewaitBody(t) BY <2>3, RewaitFacts
  <2>4. CASE DeleteBody(t) BY <2>4, DeleteFacts
  <2>5. CASE InitTask(t)
    <3>1. PICK u \in Tasks : u = arg[t].on BY <2>5, InitTaskFacts
    <3>2. pmail' = [pmail EXCEPT ![u] = NULL] /\ UNCHANGED <<ServiceReq, eventCounter, arg, credit>>
      BY <2>5, <3>1, InitTaskFacts
    <3> QED BY <3>2, ControlNow DEF EventTypes
  <2> QED BY <2>1, <2>2, <2>3, <2>4, <2>5 DEF MovesWaiter
<1>2. NoneGiven BY <1>1 DEF NoneGiven
<1> QED BY <1>1, <1>2, StaysCovered

\* Every step keeps what is held covered, and is a post, a take or neither.
LEMMA NextCovers ==
  ASSUME KernelInv, KernelInv', MailInv, WakeInv, Covered, TokenRules, [Next]_vars
  PROVE  Covered' /\ [Tokens!Next]_credit
<1>1. StepKind BY NextKinds DEF TokenRules
<1>2. TypedCalls /\ Disciplined BY DEF TokenRules, TypedCalls
<1>3. CASE Calm
  <2>1. NoneGiven /\ UNCHANGED <<ServiceReq, eventCounter, credit>> BY <1>3 DEF Calm, Stays, NoneGiven
  <2> QED BY <2>1, StaysCovered
<1>4. ASSUME NEW t \in Tasks, AsksOnly(t) PROVE Covered' /\ [Tokens!Next]_credit
  <2>1. PICK label : Quiet(t, label) BY <1>4 DEF AsksOnly
  <2>2. Asks(t, label) /\ UNCHANGED <<eventCounter, credit>> BY <2>1 DEF Quiet
  <2> QED BY <2>2, AsksCovers DEF Tokens!Next
<1>5. ASSUME NEW t \in Tasks, Decrement(t) PROVE FALSE
  <2>1. After(t) = "decrement" BY <1>5, RunsInCall, AfterRuns DEF Decrement, UnlockLabels
  <2> QED BY <2>1 DEF WakeInv
<1>6. ASSUME NEW t \in Tasks, NEW e \in Events, Takes(t, e) PROVE Covered' /\ [Tokens!Next]_credit
  <2>1. PICK label : Asks(t, label) BY <1>6 DEF Takes
  <2> QED BY <1>6, <2>1, AsksCovers DEF Takes, Tokens!Next
<1>7. ASSUME NEW t \in Tasks, MovesWaiter(t) PROVE Covered' /\ [Tokens!Next]_credit
  BY <1>2, <1>7, MoverCovers
<1>8. ASSUME NEW t \in Tasks, Sleeps(t) PROVE Covered' /\ [Tokens!Next]_credit
  <2>1. CASE BlockBody(t)
    <3>1. UNCHANGED <<ServiceReq, eventCounter, pmail, arg, credit>> BY <2>1, BlockFacts
    <3> QED BY <3>1, StaysCovered DEF NoneGiven
  <2>2. CASE Woken(t) BY <2>2, WokenCovers DEF Tokens!Next, TokenRules, TypedCalls
  <2> QED BY <1>8, <2>1, <2>2 DEF Sleeps
<1>9. ASSUME NEW t \in Tasks, PostSem(t) \/ PostMail(t) PROVE Covered' /\ [Tokens!Next]_credit
  <2>1. PICK e \in Events :
          /\ \E n, mail : Posts(e, n, mail)
          /\ credit' = [credit EXCEPT ![e] = @ + 1] /\ UNCHANGED <<arg, ServiceReq>>
    BY <1>9, TaskPosts
  <2>2. OneMore(e) BY <2>1, PostEffect, PostBrings
  <2> QED BY <2>1, <2>2, CreditedPost DEF Tokens!Next
<1>10. ASSUME NEW c \in Contexts, DisposeHead(c) PROVE Covered' /\ [Tokens!Next]_credit
  <2>1. UNCHANGED <<ServiceReq, eventCounter, pmail, arg, credit>>
    BY <1>10 DEF DisposeHead, reqVars, callVars
  <2> QED BY <2>1, StaysCovered DEF NoneGiven
<1>11. ASSUME NEW c \in Contexts, RespondCell(c) PROVE Covered' /\ [Tokens!Next]_credit
  <2>1. PICK e \in Events :
          /\ ServiceReq # <<>> /\ e = Head(ServiceReq).id /\ ServiceReq' = Tail(ServiceReq)
          /\ UNCHANGED <<arg, credit>>
          /\ SameTokens \/ \E n, mail : Posts(e, n, mail)
    BY <1>2, <1>11, CellPosts DEF Stays
  <2>2. Kept(e) \/ \E h \in Tasks : GivenTo(h, e)
    <3>1. eventCounter[e] \in Nat BY Counts
    <3>2. CASE SameTokens BY <3>1, <3>2 DEF SameTokens, Kept
    <3> QED BY <2>1, <3>2, PostEffect
  <2>3. OneMore(e) BY <2>1, <2>2, PostBrings
  <2> QED BY <2>1, <2>3, RequestedPost
<1>12. ASSUME Interrupt PROVE Covered' /\ [Tokens!Next]_credit
  <2>1. UNCHANGED arg BY <1>2, <1>12, InterruptPosts DEF Stays
  <2>2. CASE SameTokens /\ UNCHANGED <<ServiceReq, credit>>
    BY <2>1, <2>2, StaysCovered DEF SameTokens, NoneGiven
  <2>3. ASSUME NEW e \in Events, Enqueues(e) PROVE Covered' /\ [Tokens!Next]_credit
    BY <2>1, <2>3, QueuedCovers DEF Tokens!Next
  <2>4. ASSUME NEW e \in Events, \E n, mail : Posts(e, n, mail),
               UNCHANGED ServiceReq /\ credit' = [credit EXCEPT ![e] = @ + 1]
        PROVE  Covered' /\ [Tokens!Next]_credit
    <3>1. OneMore(e) BY <2>1, <2>4, PostEffect, PostBrings
    <3> QED BY <2>4, <3>1, CreditedPost DEF Tokens!Next
  <2> QED BY <1>2, <1>12, <2>2, <2>3, <2>4, InterruptPosts
<1> QED BY <1>1, <1>3, <1>4, <1>5, <1>6, <1>7, <1>8, <1>9, <1>10, <1>11, <1>12 DEF StepKind

LEMMA InitCovers ==
  ASSUME Init, TokenRules
  PROVE  WakeInv /\ Covered /\ Tokens!Init
<1>1. \A t \in Tasks : After(t) \in {"app", "off"} /\ pmail[t] = NULL /\ eventID[t] = NULL
  BY ContextAssumption DEF Init, KernelInit, After, Contexts, UnlockLabels
<1>2. WakeInv BY <1>1 DEF WakeInv, WokenFor, StaysAsked, Sleeping, Asking
<1>3. credit = eventCounter /\ eventCounter = [e \in Events |-> BootEvents[e].eventCounter] /\ ServiceReq = <<>>
  BY DEF Init, KernelInit
<1>4. ASSUME NEW e \in Events PROVE Held(e) <= credit[e]
  <2>1. Granted(e) = {} BY <1>1 DEF Granted
  <2>2. Requested(e) = {} BY <1>3 DEF Requested
  <2>3. Cardinality({}) = 0 BY FS_EmptySet
  <2>4. eventCounter[e] \in U16 BY <1>3, BootAssumption, SMTT(30)
  <2>5. \A c \in U16 : c \in Int BY Words
  <2> QED BY <1>3, <2>1, <2>2, <2>3, <2>4, <2>5 DEF Held
<1> QED BY <1>2, <1>3, <1>4 DEF Covered, Tokens!Init

LEMMA TokenInvStays ==
  ASSUME TokenRules
  PROVE  /\ Init => TokenInv /\ Tokens!Init
         /\ TokenInv /\ [Next]_vars => TokenInv' /\ [Tokens!Next]_credit
<1>1. Disciplined /\ TypedCalls BY DEF TokenRules, TypedCalls
<1>2. Init => TokenInv /\ Tokens!Init
  BY <1>1, InitExact, InitMails, InitCovers DEF ExactInv, TokenInv
<1>3. TokenInv /\ [Next]_vars => TokenInv' /\ [Tokens!Next]_credit
  BY <1>1, NextExact, NextMails, NextWakes, NextCovers DEF TokenInv, ExactInv
<1> QED BY <1>2, <1>3

\* In every application that keeps to TokenRules, with any tasks, semaphores,
\* mailboxes and deferred posts, a post that was told E_OK adds one token and
\* a pend or accept that is told E_OK takes one that is there, whatever
\* time-outs, interrupts, deletions and changes of priority come between the
\* test of the counter and the waking of the waiter (CoPendSem, CoPostSem,
\* isr_PostSem, EventTaskToRdy, RespondSRQ).
THEOREM TokensKeepPromise == TokenRules => (Spec => TokenPromise)
<1> SUFFICES ASSUME TokenRules PROVE Spec => TokenPromise
  OBVIOUS
<1>1. Init => TokenInv /\ Tokens!Init BY TokenInvStays
<1>2. TokenInv /\ [Next]_vars => TokenInv' /\ [Tokens!Next]_credit BY TokenInvStays
<1> QED BY <1>1, <1>2, PTL DEF Spec, TokenPromise, Tokens!Spec

\* In such an application no more takes are told E_OK than tokens were there
\* and posted: no task comes back from CoPendSem, CoPendMail or CoAcceptMail
\* with a token that another one has.  CoAcceptSem is what breaks this
\* (sem.c:140): it is outside TokenRules.
THEOREM NoneOverdrawn == TokenRules => (Spec => []NeverOverdrawn)
<1> SUFFICES ASSUME TokenRules PROVE Spec => []NeverOverdrawn
  OBVIOUS
<1>1. Init => TokenInv BY TokenInvStays
<1>2. TokenInv /\ [Next]_vars => TokenInv' BY TokenInvStays
<1>3. TokenInv => NeverOverdrawn
  <2> SUFFICES ASSUME TokenInv, NEW e \in Events PROVE credit[e] >= 0
    BY DEF NeverOverdrawn
  <2>1. /\ eventCounter[e] \in Nat /\ Cardinality(Granted(e)) \in Nat
        /\ Cardinality(Requested(e)) \in Nat /\ credit[e] \in Int
    BY Counts DEF TokenInv, ExactInv
  <2>2. eventCounter[e] + Cardinality(Granted(e)) + Cardinality(Requested(e)) <= credit[e]
    BY DEF TokenInv, Covered, Held
  <2> QED BY <2>1, <2>2
<1> QED BY <1>1, <1>2, <1>3, PTL DEF Spec
=============================================================================
