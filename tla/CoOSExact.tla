----------------------------- MODULE CoOSExact ------------------------------
(***************************************************************************)
(* TLAPS proofs about the lists of CoOS in every application that keeps to *)
(* the rules of Disciplined, for any number of tasks and events, any       *)
(* priorities and any delays.  First that they stay exact (ListsExact):    *)
(* each TCB is in the lists its state, delay and eventID say and in no     *)
(* other.  On top of that, that the ready list and the PRIO waiting lists  *)
(* stay in priority order (PriorityOrder), and that the task with the      *)
(* highest priority runs (HighestRuns).                                    *)
(***************************************************************************)
EXTENDS CoOSProofs

---------------------------------------------------------------------------
(* The inductive invariant *)

USE DEF MutexLabels

\* Where tasks can be in such an application, and that an unlock runs at lock 1.
Returns ==
  {"app", "init", "initwait", "semblock", "semwoken", "mailblock", "mailwoken", "decrement", "delete"}
  \cup MutexLabels
NeverAt == {"suspend", "initevent", "release", "free", "delwaiter", "fault"}
ControlInv ==
  /\ \A t \in Tasks : ret[t] \in Returns /\ pc[t] \notin NeverAt
  /\ \A c \in Contexts : Locking(c) => OSSchedLock = 1
  /\ pc[Idle] \in UnlockLabels \cup {"clear", "app"} /\ ret[Idle] = "app"

\* The RUNNING task has the CPU or is about to get it; a task that is not RUNNING
\* any more is in the unlock that gives the CPU away.
HandlerLocks == Locking(SysTick) \/ Locking(Isr)
CpuInv ==
  /\ ~PendSV => TCBRunning = TCBNext
  /\ PendSV => state[TCBNext] = "RUNNING"
  /\ \A t \in Tasks : state[t] = "RUNNING" => t = TCBNext
  /\ ~PendSV /\ state[TCBRunning] # "RUNNING" =>
       pc[TCBRunning] \in UnlockLabels /\ OSSchedLock = 1 /\ TaskSchedReq
  /\ PendSV /\ state[TCBRunning] \notin {"RUNNING", "READY"} =>
       pc[TCBRunning] = "clear" /\ OSSchedLock = 1 /\ ~HandlerLocks
  /\ state[Idle] \in {"READY", "RUNNING"}

\* The ready list.
ReadyInv ==
  /\ IsInjective(TCBRdy)
  /\ \A t \in Tasks : Contains(TCBRdy, t) <=> state[t] = "READY" /\ pc[t] # "off"

\* The delay list: in order, and while TimeDispose is between its two steps the
\* head is marked already.
DelayInv ==
  /\ IsInjective(DlyList)
  /\ ~Disposing => InOrder(DlyList, delay)
  /\ Disposing => /\ DlyList # <<>> /\ InOrder(Tail(DlyList), delay)
                  /\ delay[Head(DlyList)] = INVALID_VALUE \/ TickRace
                  /\ eventID[Head(DlyList)] = NULL
  /\ \A t \in Tasks : Contains(DlyList, t) => state[t] = "WAITING"
  /\ \A t \in Tasks : Contains(DlyList, t) /\ (Disposing => t # Head(DlyList)) => delay[t] # INVALID_VALUE
  /\ \A t \in Tasks : delay[t] # INVALID_VALUE => Contains(DlyList, t) \/ Spoilt(t)
  /\ \A t \in Tasks : delay[t] \in 0 .. INVALID_VALUE

\* The lists of the events.
WaitInv ==
  /\ \A e \in Events : IsInjective(eventTCBList[e])
  /\ \A t \in Tasks, e \in Events : Contains(eventTCBList[e], t) <=> eventID[t] = e
  /\ \A t \in Tasks : eventID[t] # NULL => state[t] = "WAITING"

\* The free TCBs, and those CreateTask has taken and not yet filled in.
Creating(t) == After(t) \in {"init", "initwait"}
Newborn(u) == ~Contains(FreeTCB, u) /\ (state[u] = "DORMANT" \/ pc[u] = "off")
PoolInv ==
  /\ IsInjective(FreeTCB)
  /\ \A t \in Tasks : Contains(FreeTCB, t) => state[t] = "DORMANT" \/ pc[t] = "off"
  /\ \A t \in Tasks : pc[t] = "off" =>
       state[t] \in {"DORMANT", "READY"} /\ (t \in Ids => state[t] = "DORMANT")
  /\ \A t \in Tasks : Creating(t) => Newborn(arg[t].on)
  /\ \A t, u \in Tasks : Creating(t) /\ Creating(u) /\ arg[t].on = arg[u].on => t = u

\* The ECBs not in use, and that a mail goes to a mailbox.
BoxInv ==
  /\ \A e \in Events : Contains(FreeEventList, e) => ecb[e].eventType = "INVALID"
  /\ \A t \in Tasks : pc[t] = "postmail" => ecb[arg[t].on].eventType = "MBOX"

\* What a call has tested still holds when it acts: another task is managed with
\* the lock held, and what puts the caller itself to sleep runs without it.
Managing == {"reset", "delete", "awake", "reorder", "unwait", "rewait"}
Undisturbed == ~PendSV /\ ~HandlerLocks
Tested(label, u) ==
  /\ label = "reset" => Contains(DlyList, u)
  /\ label = "delete" => u # Idle /\ state[u] # "DORMANT" /\ pc[u] # "off"
  /\ label = "awake" => state[u] = "WAITING" /\ delay[u] = INVALID_VALUE /\ eventID[u] = NULL
  /\ label = "reorder" => state[u] = "READY" /\ pc[u] # "off"
  /\ label = "unwait" => eventID[u] # NULL
  /\ label = "rewait" => /\ state[u] = "WAITING" /\ eventID[u] = NULL
                         /\ delay[u] # INVALID_VALUE => Contains(DlyList, u)
SleepsAt(t) == pc[t] \in {"semblock", "mailblock"} \/ (pc[t] = "delete" /\ arg[t].on = t)
Managed(t) ==
  /\ pc[t] \in Managing /\ ~SleepsAt(t) =>
       t = TCBRunning /\ OSSchedLock > 0 /\ Undisturbed /\ Tested(pc[t], arg[t].on)
  /\ t = TCBRunning /\ SleepsAt(t) => OSSchedLock = 0 \/ ~Undisturbed
  /\ pc[t] = "reset" => arg[t].val # 0
ManageInv == \A t \in Tasks : Managed(t)

\* A task that is deleted once an unlock is done (DelMutexTask) is the caller.
ExitInv == \A t \in Tasks : After(t) = "delete" /\ pc[t] # "delete" => arg[t].on = t

\* No link of an event's list is stale: no event is deleted.
NoneStale == stalePrev = {}

\* No task comes from CoEnterMutexSection, where no mutex is used; and a task that is
\* deleted while it is WAITING does not wait for a mutex.
NoneEnters == \A t \in Tasks : ret[t] # "entered"
Deletable ==
  \A t \in Tasks : At(t, "delete") /\ state[arg[t].on] = "WAITING" => ret[arg[t].on] # "entered"

ListInv == ReadyInv /\ DelayInv /\ WaitInv
OrderInv == ControlInv /\ CpuInv /\ ListInv /\ PoolInv /\ BoxInv /\ ManageInv
KernelInv == TypeOK /\ HeadThere /\ LockInv /\ OrderInv /\ ExitInv /\ NoneStale
ExactInv == KernelInv /\ NoneEnters

---------------------------------------------------------------------------
(* The ready list *)

Ready(t) == state[t] = "READY" /\ pc[t] # "off"

LEMMA ReadyStays ==
  ASSUME ReadyInv, TCBRdy' = TCBRdy, \A u \in Tasks : Ready(u)' <=> Ready(u)
  PROVE  ReadyInv'
BY DEF ReadyInv, Ready

LEMMA ReadyJoins ==
  ASSUME ReadyInv, TCBRdy \in Seq(Tasks), NEW t \in Tasks, NEW key, ~Contains(TCBRdy, t),
         TCBRdy' = InsertBy(TCBRdy, key, t), Ready(t)', \A u \in Tasks \ {t} : Ready(u)' <=> Ready(u)
  PROVE  ReadyInv'
<1>1. IsInjective(TCBRdy') BY InsertByItems DEF ReadyInv
<1>2. ASSUME NEW u \in Tasks PROVE Contains(TCBRdy', u) <=> Ready(u)'
  <2>1. Contains(TCBRdy', u) <=> Contains(TCBRdy, u) \/ u = t BY InsertByItems
  <2> QED BY <2>1 DEF ReadyInv, Ready
<1> QED BY <1>1, <1>2 DEF ReadyInv, Ready

LEMMA ReadyLeaves ==
  ASSUME ReadyInv, TCBRdy \in Seq(Tasks), NEW t \in Tasks, Contains(TCBRdy, t),
         \/ TCBRdy' = Unlink(TCBRdy, t)
         \/ t = Head(TCBRdy) /\ TCBRdy' = Tail(TCBRdy),
         ~Ready(t)', \A u \in Tasks \ {t} : Ready(u)' <=> Ready(u)
  PROVE  ReadyInv'
<1>0. TCBRdy # <<>> BY EmptyList
<1>1. IsInjective(TCBRdy) BY DEF ReadyInv
<1>2. CASE TCBRdy' = Unlink(TCBRdy, t)
  <2>1. /\ \A x : Contains(TCBRdy', x) <=> Contains(TCBRdy, x) /\ x # t
        /\ IsInjective(TCBRdy')
    BY <1>1, <1>2, UnlinkItems
  <2> QED BY <2>1 DEF ReadyInv, Ready
<1>3. CASE t = Head(TCBRdy) /\ TCBRdy' = Tail(TCBRdy)
  <2>1. /\ \A x : Contains(TCBRdy', x) <=> Contains(TCBRdy, x) /\ x # t
        /\ IsInjective(TCBRdy')
    BY <1>0, <1>1, <1>3, HeadTailItems
  <2> QED BY <2>1 DEF ReadyInv, Ready
<1> QED BY <1>2, <1>3

\* A task that is moved to where its priority belongs.
LEMMA ReadyMoves ==
  ASSUME ReadyInv, TCBRdy \in Seq(Tasks), NEW t \in Tasks, NEW key, Contains(TCBRdy, t),
         TCBRdy' = InsertBy(Unlink(TCBRdy, t), key, t), \A u \in Tasks : Ready(u)' <=> Ready(u)
  PROVE  ReadyInv'
<1>1. /\ \A x : Contains(Unlink(TCBRdy, t), x) <=> Contains(TCBRdy, x) /\ x # t
      /\ IsInjective(Unlink(TCBRdy, t)) /\ Unlink(TCBRdy, t) \in Seq(Tasks)
  BY UnlinkItems, UnlinkType DEF ReadyInv
<1>2. /\ \A x : Contains(TCBRdy', x) <=> Contains(Unlink(TCBRdy, t), x) \/ x = t
      /\ IsInjective(TCBRdy')
  BY <1>1, InsertByItems
<1> QED BY <1>1, <1>2 DEF ReadyInv, Ready

---------------------------------------------------------------------------
(* The waiting lists of the events *)

LEMMA WaitKept ==
  ASSUME WaitInv, UNCHANGED <<eventID, eventTCBList>>,
         \A u \in Tasks : eventID[u] # NULL => state'[u] = "WAITING"
  PROVE  WaitInv'
BY DEF WaitInv

\* A list of which exactly one task is taken out.
LEMMA WaitLeaves ==
  ASSUME WaitInv, EventTypes, NEW t \in Tasks, NEW e \in Events, eventID[t] = e,
         \/ eventTCBList' = [eventTCBList EXCEPT ![e] = Unlink(@, t)]
         \/ t = Head(eventTCBList[e]) /\ eventTCBList' = [eventTCBList EXCEPT ![e] = Tail(@)],
         eventID' = [eventID EXCEPT ![t] = NULL],
         \A u \in Tasks \ {t} : eventID[u] # NULL => state'[u] = "WAITING"
  PROVE  WaitInv'
<1>1. /\ eventTCBList[e] \in Seq(Tasks) /\ Contains(eventTCBList[e], t)
      /\ eventTCBList[e] # <<>> /\ IsInjective(eventTCBList[e]) /\ NULL \notin Events
  BY EmptyList, ContextAssumption DEF EventTypes, WaitInv
<1>2. /\ \A x : Contains(eventTCBList'[e], x) <=> Contains(eventTCBList[e], x) /\ x # t
      /\ IsInjective(eventTCBList'[e])
      /\ \A f \in Events \ {e} : eventTCBList'[f] = eventTCBList[f]
  <2>1. CASE eventTCBList' = [eventTCBList EXCEPT ![e] = Unlink(@, t)]
    <3>1. eventTCBList'[e] = Unlink(eventTCBList[e], t) BY <2>1 DEF EventTypes
    <3>2. \A f \in Events \ {e} : eventTCBList'[f] = eventTCBList[f] BY <2>1 DEF EventTypes
    <3> QED BY <1>1, <3>1, <3>2, UnlinkItems
  <2>2. CASE t = Head(eventTCBList[e]) /\ eventTCBList' = [eventTCBList EXCEPT ![e] = Tail(@)]
    <3>1. eventTCBList'[e] = Tail(eventTCBList[e]) BY <2>2 DEF EventTypes
    <3>2. \A f \in Events \ {e} : eventTCBList'[f] = eventTCBList[f] BY <2>2 DEF EventTypes
    <3> QED BY <1>1, <2>2, <3>1, <3>2, HeadTailItems
  <2> QED BY <2>1, <2>2
<1>3. eventID'[t] = NULL /\ \A u \in Tasks \ {t} : eventID'[u] = eventID[u] BY DEF EventTypes
<1>4. \A f \in Events : IsInjective(eventTCBList'[f]) BY <1>2 DEF WaitInv
<1>5. ASSUME NEW u \in Tasks, NEW f \in Events PROVE Contains(eventTCBList'[f], u) <=> eventID'[u] = f
  <2>1. CASE f = e BY <1>1, <1>2, <1>3, <2>1 DEF WaitInv
  <2>2. CASE f # e BY <1>1, <1>2, <1>3, <2>2 DEF WaitInv
  <2> QED BY <2>1, <2>2
<1>6. \A u \in Tasks : eventID'[u] # NULL => state'[u] = "WAITING" BY <1>3 DEF WaitInv
<1> QED BY <1>4, <1>5, <1>6 DEF WaitInv

LEMMA WaitJoins ==
  ASSUME WaitInv, EventTypes, NEW t \in Tasks, NEW e \in Events, eventID[t] = NULL, LinkEvent(e, t),
         state'[t] = "WAITING", \A u \in Tasks \ {t} : eventID[u] # NULL => state'[u] = "WAITING"
  PROVE  WaitInv'
<1>1. /\ eventTCBList[e] \in Seq(Tasks) /\ ~Contains(eventTCBList[e], t)
      /\ IsInjective(eventTCBList[e]) /\ NULL \notin Events
  BY ContextAssumption DEF EventTypes, WaitInv
<1>2. /\ \A x : Contains(eventTCBList'[e], x) <=> Contains(eventTCBList[e], x) \/ x = t
      /\ IsInjective(eventTCBList'[e])
      /\ \A f \in Events \ {e} : eventTCBList'[f] = eventTCBList[f]
  <2>1. /\ \/ eventTCBList'[e] = Append(eventTCBList[e], t)
           \/ eventTCBList'[e] = InsertBy(eventTCBList[e], prio, t)
        /\ \A f \in Events \ {e} : eventTCBList'[f] = eventTCBList[f]
    BY DEF LinkEvent, EventTypes
  <2>2. CASE eventTCBList'[e] = Append(eventTCBList[e], t)
    BY <1>1, <2>1, <2>2, AppendItems
  <2>3. CASE eventTCBList'[e] = InsertBy(eventTCBList[e], prio, t)
    <3> DEFINE list == eventTCBList[e]
    <3>1. list \in Seq(Tasks) /\ IsInjective(list) /\ ~Contains(list, t) BY <1>1
    <3>2. eventTCBList'[e] = InsertBy(list, prio, t) BY <2>3
    <3> HIDE DEF list
    <3>3. /\ \A x : Contains(eventTCBList'[e], x) <=> Contains(list, x) \/ x = t
          /\ IsInjective(eventTCBList'[e])
      BY <3>1, <3>2, InsertByItems
    <3> QED BY <2>1, <3>3 DEF list
  <2> QED BY <2>1, <2>2, <2>3
<1>3. eventID'[t] = e /\ \A u \in Tasks \ {t} : eventID'[u] = eventID[u] BY DEF LinkEvent, EventTypes
<1>4. \A f \in Events : IsInjective(eventTCBList'[f]) BY <1>2 DEF WaitInv
<1>5. ASSUME NEW u \in Tasks, NEW f \in Events PROVE Contains(eventTCBList'[f], u) <=> eventID'[u] = f
  <2>1. CASE f = e BY <1>1, <1>2, <1>3, <2>1 DEF WaitInv
  <2>2. CASE f # e BY <1>1, <1>2, <1>3, <2>2 DEF WaitInv
  <2> QED BY <2>1, <2>2
<1>6. \A u \in Tasks : eventID'[u] # NULL => state'[u] = "WAITING" BY <1>3
<1> QED BY <1>4, <1>5, <1>6 DEF WaitInv

---------------------------------------------------------------------------
(* The delay list *)

\* Where the delay of a task of S does not matter, it goes on not to matter.
StaySpoilt(S) == \A u \in S : Spoilt(u) => Spoilt(u)'

LEMMA SpoiltStays ==
  ASSUME NEW S, \A u \in S : \/ state'[u] # "WAITING"
                             \/ /\ state'[u] = state[u] /\ ret'[u] = ret[u]
                                /\ eventID'[u] = eventID[u] \/ eventID'[u] = NULL
  PROVE  StaySpoilt(S)
BY DEF StaySpoilt, Spoilt

LEMMA DelayKept ==
  ASSUME DelayInv, UNCHANGED <<delay, DlyList>>, Disposing' <=> Disposing,
         Disposing => eventID' = eventID \/ eventID'[Head(DlyList)] = NULL,
         \A u \in Tasks : Contains(DlyList, u) => state'[u] = "WAITING",
         StaySpoilt(Tasks)
  PROVE  DelayInv'
BY DEF DelayInv, StaySpoilt

\* In a list of tasks all keys are numbers.
LEMMA DelaysKeyed ==
  ASSUME NEW list \in Seq(Tasks), NEW key \in [Tasks -> Int]
  PROVE  Keyed(list, key)
<1>1. \A i \in 1 .. Len(list) : list[i] \in Tasks BY LenProperties
<1> QED BY <1>1 DEF Keyed

\* The order of a list does not depend on the key of a task that is not in it.
LEMMA OrderWithout ==
  ASSUME NEW list \in Seq(Tasks), NEW key \in [Tasks -> Int], NEW t \in Tasks, NEW n,
         ~Contains(list, t), InOrder(list, key)
  PROVE  InOrder(list, [key EXCEPT ![t] = n])
<1>1. \A i \in 1 .. Len(list) : list[i] \in Tasks /\ list[i] # t BY LenProperties DEF Contains
<1>2. \A i \in 1 .. Len(list) : [key EXCEPT ![t] = n][list[i]] = key[list[i]] BY <1>1
<1> QED BY <1>2 DEF InOrder

LEMMA DelayLeaves ==
  ASSUME DelayInv, DelayTypes, ~Disposing, ~Disposing', NEW t \in Tasks, Contains(DlyList, t),
         StaySpoilt(Tasks \ {t}), RemoveDelayList(t),
         \A u \in Tasks \ {t} : Contains(DlyList, u) => state'[u] = "WAITING"
  PROVE  DelayInv'
<1>1. Contains(DlyList, t) /\ IsInjective(DlyList) /\ DlyList \in Seq(Tasks) /\ InOrder(DlyList, delay)
  BY DEF DelayInv, DelayTypes
<1>2. /\ DlyList' = Unlink(DlyList, t) /\ delay' = [delay EXCEPT ![t] = INVALID_VALUE]
      /\ DlyList' \in Seq(Tasks)
  BY <1>1, UnlinkType DEF RemoveDelayList
<1>3. IsInjective(DlyList') /\ \A x : Contains(DlyList', x) <=> Contains(DlyList, x) /\ x # t
  BY <1>1, <1>2, UnlinkItems
<1>4. InOrder(DlyList', delay')
  <2>1. InOrder(DlyList', delay) BY <1>1, <1>2, UnlinkOrder
  <2> QED BY <1>2, <1>3, <2>1, OrderWithout DEF DelayTypes
<1>5. delay'[t] = INVALID_VALUE /\ \A u \in Tasks \ {t} : delay'[u] = delay[u] BY <1>2 DEF DelayTypes
<1>6. INVALID_VALUE \in 0 .. INVALID_VALUE BY ConfigAssumption
<1> QED BY <1>3, <1>4, <1>5, <1>6 DEF DelayInv, StaySpoilt

\* The delay of a task that is in no list is marked invalid.
LEMMA DelayReset ==
  ASSUME DelayInv, DelayTypes, ~Disposing, ~Disposing', NEW t \in Tasks, ~Contains(DlyList, t),
         StaySpoilt(Tasks \ {t}), DlyList' = DlyList, delay' = [delay EXCEPT ![t] = INVALID_VALUE],
         \A u \in Tasks \ {t} : Contains(DlyList, u) => state'[u] = "WAITING"
  PROVE  DelayInv'
<1>1. InOrder(DlyList, delay') BY OrderWithout DEF DelayInv, DelayTypes
<1>2. delay'[t] = INVALID_VALUE /\ \A u \in Tasks \ {t} : delay'[u] = delay[u] BY DEF DelayTypes
<1>3. INVALID_VALUE \in 0 .. INVALID_VALUE BY ConfigAssumption
<1> QED BY <1>1, <1>2, <1>3 DEF DelayInv, StaySpoilt

LEMMA DelayJoins ==
  ASSUME DelayInv, DelayTypes, ~Disposing, ~Disposing', NEW t \in Tasks, ~Contains(DlyList, t),
         NEW ticks \in 0 .. INVALID_VALUE - 1, LinkDelay(t, ticks), state'[t] = "WAITING",
         StaySpoilt(Tasks \ {t}),
         \A u \in Tasks \ {t} : Contains(DlyList, u) => state'[u] = "WAITING"
  PROVE  DelayInv'
<1>1. ~Contains(DlyList, t) /\ IsInjective(DlyList) /\ DlyList \in Seq(Tasks) /\ InOrder(DlyList, delay)
  BY DEF DelayInv, DelayTypes
<1>2. ticks \in 0 .. INVALID_VALUE /\ ticks \in Int /\ ticks # INVALID_VALUE BY ConfigAssumption
<1>3. /\ delay' = [delay EXCEPT ![t] = ticks] /\ DlyList' = InsertBy(DlyList, delay', t)
      /\ delay' \in [Tasks -> Int]
  BY <1>2 DEF LinkDelay, DelayTypes
<1>4. IsInjective(DlyList') /\ \A x : Contains(DlyList', x) <=> Contains(DlyList, x) \/ x = t
  BY <1>1, <1>3, InsertByItems
<1>5. delay'[t] = ticks /\ \A u \in Tasks \ {t} : delay'[u] = delay[u] BY <1>3 DEF DelayTypes
<1>6. InOrder(DlyList', delay')
  <2>1. InOrder(DlyList, delay') BY <1>1, <1>3, OrderWithout DEF DelayTypes
  <2>2. Keyed(DlyList, delay') /\ delay'[t] \in Int BY <1>1, <1>3, DelaysKeyed
  <2> QED BY <1>1, <1>3, <2>1, <2>2, InsertByOrder
<1> QED BY <1>2, <1>4, <1>5, <1>6 DEF DelayInv, StaySpoilt

\* CoResetTaskDelayTick: out of the list and back into it.
LEMMA DelayMoves ==
  ASSUME DelayInv, DelayTypes, ~Disposing, ~Disposing', NEW t \in Tasks, Contains(DlyList, t),
         NEW ticks \in 0 .. INVALID_VALUE - 1, delay' = [delay EXCEPT ![t] = ticks],
         DlyList' = InsertBy(Unlink(DlyList, t), delay', t), StaySpoilt(Tasks \ {t}),
         \A u \in Tasks : Contains(DlyList, u) => state'[u] = "WAITING"
  PROVE  DelayInv'
<1> DEFINE rest == Unlink(DlyList, t)
<1>1. /\ IsInjective(DlyList) /\ DlyList \in Seq(Tasks) /\ InOrder(DlyList, delay) /\ rest \in Seq(Tasks)
      /\ delay \in [Tasks -> Int]
  BY UnlinkType DEF DelayInv, DelayTypes
<1>2. ticks \in 0 .. INVALID_VALUE /\ ticks \in Int /\ ticks # INVALID_VALUE BY ConfigAssumption
<1>3. IsInjective(rest) /\ \A x : Contains(rest, x) <=> Contains(DlyList, x) /\ x # t
  BY <1>1, UnlinkItems
<1>4. InOrder(rest, delay) BY <1>1, UnlinkOrder
<1> HIDE DEF rest
<1>5. DlyList' = InsertBy(rest, delay', t) BY DEF rest
<1>6. IsInjective(DlyList') /\ \A x : Contains(DlyList', x) <=> Contains(rest, x) \/ x = t
  <2>1. ~Contains(rest, t) /\ rest \in Seq(Tasks) /\ IsInjective(rest) BY <1>1, <1>3
  <2>2. IsInjective(InsertBy(rest, delay', t)) BY <2>1, InsertByItems
  <2>3. \A x : Contains(InsertBy(rest, delay', t), x) <=> Contains(rest, x) \/ x = t
    BY <2>1, InsertByItems
  <2> QED BY <1>5, <2>2, <2>3
<1>7. delay' \in [Tasks -> Int] /\ delay'[t] = ticks /\ \A u \in Tasks \ {t} : delay'[u] = delay[u]
  BY <1>1, <1>2
<1>8. InOrder(DlyList', delay')
  <2>1. InOrder(rest, delay') BY <1>1, <1>3, <1>4, OrderWithout
  <2>2. Keyed(rest, delay') /\ delay'[t] \in Int BY <1>1, <1>7, DelaysKeyed
  <2> QED BY <1>1, <1>5, <2>1, <2>2, InsertByOrder, ZenonT(30)
<1> QED BY <1>2, <1>3, <1>6, <1>7, <1>8 DEF DelayInv, StaySpoilt

---------------------------------------------------------------------------
(* The task on the CPU *)

\* Task t takes a step of its own code or of a call, outside OsSchedUnlock.
Runs(t) == OnCPU(t) /\ t # Idle /\ pc[t] \notin UnlockLabels \cup {"clear"}

LEMMA TaskAlone ==
  ASSUME KernelInv, NEW t \in Tasks, Runs(t)
  PROVE  /\ ~PendSV /\ t = TCBRunning /\ t = TCBNext
         /\ pc[SysTick] = "off" /\ pc[Isr] = "off"
         /\ \A c \in Contexts : ~Locking(c)
         /\ ~HandlerLocks /\ Undisturbed /\ ~Disposing
<1>1. LockInv /\ OnCPU(t) /\ CpuInv /\ ControlInv BY DEF KernelInv, OrderInv, Runs
<1>2. /\ ~PendSV /\ t = TCBRunning /\ pc[SysTick] = "off" /\ pc[Isr] = "off"
      /\ \A c \in Contexts \ {t} : ~Locking(c)
  BY <1>1, CpuAlone
<1>3. ~Locking(t)
  BY <1>1, ContextAssumption DEF Runs, Locking, LockLabels, ControlInv, NeverAt
<1>4. ~HandlerLocks BY <1>2, ContextAssumption DEF HandlerLocks, Contexts, Locking, LockLabels, UnlockLabels
<1>5. ~Disposing BY <1>2, <1>3 DEF Disposing, Locking, LockLabels, UnlockLabels
<1> QED BY <1>1, <1>2, <1>3, <1>4, <1>5 DEF CpuInv, Undisturbed

\* The task on the CPU is RUNNING, alone, and in no list.
LEMMA TaskFree ==
  ASSUME KernelInv, NEW t \in Tasks, Runs(t)
  PROVE  /\ state[t] = "RUNNING" /\ \A u \in Tasks \ {t} : state[u] # "RUNNING"
         /\ state[Idle] = "READY" /\ pc[Idle] # "off"
         /\ ~Contains(TCBRdy, t) /\ ~Contains(DlyList, t) /\ ~Contains(FreeTCB, t)
         /\ eventID[t] = NULL /\ pc[t] \notin {"off", "fault"}
<1>1. CpuInv /\ ReadyInv /\ DelayInv /\ WaitInv /\ PoolInv /\ ControlInv BY DEF KernelInv, OrderInv, ListInv
<1>2. ~PendSV /\ t = TCBRunning /\ t = TCBNext /\ ~Disposing BY TaskAlone
<1>3. state[t] = "RUNNING" BY <1>1, <1>2 DEF CpuInv, Runs
<1>4. pc[t] # "off" BY <1>1, <1>3 DEF PoolInv
<1> QED BY <1>1, <1>2, <1>3, <1>4, ContextAssumption
        DEF CpuInv, ReadyInv, DelayInv, WaitInv, PoolInv, ControlInv, Runs, UnlockLabels, NeverAt

---------------------------------------------------------------------------
(* What a step of the task on the CPU leaves as it was *)

\* Where t goes on, the other contexts staying where they are.
OnlyMoves(t, next) ==
  /\ ControlInv' /\ ~Disposing' /\ After(t)' = next /\ pc'[t] # "off"
  /\ \A u \in Tasks \ {t} : pc'[u] = pc[u] /\ ret'[u] = ret[u]
  /\ pc'[SysTick] = "off" /\ pc'[Isr] = "off"

LEMMA SectionControl ==
  ASSUME KernelInv, NEW t \in Tasks, Runs(t), NEW next \in Returns, LockedSection(t, next)
  PROVE  /\ OnlyMoves(t, next)
         /\ OSSchedLock = 0 => pc'[t] = "respond" /\ OSSchedLock' = 1
         /\ OSSchedLock # 0 => pc'[t] = next /\ OSSchedLock' = OSSchedLock
<1>1. /\ ControlInv /\ DOMAIN pc = Contexts /\ DOMAIN ret = Contexts /\ t \in Contexts /\ t # Idle
      /\ t # SysTick /\ t # Isr
  BY ContextAssumption DEF KernelInv, OrderInv, LockInv, Contexts, Runs
<1>2. /\ pc[SysTick] = "off" /\ pc[Isr] = "off"
      /\ \A c \in Contexts : ~Locking(c)
  BY TaskAlone
<1>3. /\ OSSchedLock = 0 => /\ pc'[t] = "respond" /\ OSSchedLock' = 1 /\ ret'[t] = next
      /\ OSSchedLock # 0 => pc'[t] = next /\ OSSchedLock' = OSSchedLock /\ ret'[t] = ret[t]
      /\ \A c \in Contexts \ {t} : pc'[c] = pc[c] /\ ret'[c] = ret[c]
  BY <1>1 DEF LockedSection, Goto
<1>4. \A c \in Contexts \ {t} : ~Locking(c)'
  BY <1>2, <1>3 DEF Locking
<1>5. Locking(t)' => OSSchedLock' = 1
  BY <1>1, <1>3 DEF Locking, LockLabels, UnlockLabels, Returns
<1>6. ControlInv'
  <2>1. \A u \in Tasks : ret'[u] \in Returns /\ pc'[u] \notin NeverAt
    BY <1>1, <1>3 DEF ControlInv, Contexts, Returns, NeverAt
  <2>2. pc'[Idle] \in UnlockLabels \cup {"clear", "app"} /\ ret'[Idle] = "app"
    BY <1>1, <1>3, ContextAssumption DEF ControlInv, Contexts
  <2> QED BY <1>4, <1>5, <2>1, <2>2 DEF ControlInv
<1>7. ~Disposing'
  <2>1. pc'[t] \notin {"unlink", "tickunlink"} BY <1>3 DEF Returns
  <2> QED BY <1>4, <2>1 DEF Disposing, Locking, LockLabels, UnlockLabels
<1>8. After(t)' = next /\ pc'[t] # "off"
  BY <1>3 DEF After, UnlockLabels, Returns
<1> QED BY <1>1, <1>2, <1>3, <1>6, <1>7, <1>8, ContextAssumption DEF OnlyMoves, Contexts

LEMMA GotoControl ==
  ASSUME KernelInv, NEW t \in Tasks, Runs(t), NEW label \in Labels, OSSchedLock' \in Nat,
         label \notin UnlockLabels \cup NeverAt \cup {"clear", "off"}, Goto(t, label), UNCHANGED ret
  PROVE  OnlyMoves(t, label) /\ pc'[t] = label
<1>1. /\ ControlInv /\ DOMAIN pc = Contexts /\ t \in Contexts /\ t # Idle /\ t # SysTick /\ t # Isr
  BY ContextAssumption DEF KernelInv, OrderInv, LockInv, Contexts, Runs
<1>2. /\ pc[SysTick] = "off" /\ pc[Isr] = "off"
      /\ \A c \in Contexts : ~Locking(c)
  BY TaskAlone
<1>3. pc'[t] = label /\ \A c \in Contexts \ {t} : pc'[c] = pc[c]
  BY <1>1 DEF Goto
<1>4. \A c \in Contexts : ~Locking(c)'
  BY <1>1, <1>2, <1>3 DEF Locking, LockLabels, NeverAt
<1>5. ControlInv'
  <2>1. \A u \in Tasks : ret'[u] \in Returns /\ pc'[u] \notin NeverAt
    BY <1>1, <1>3 DEF ControlInv, Contexts
  <2>2. pc'[Idle] \in UnlockLabels \cup {"clear", "app"} /\ ret'[Idle] = "app"
    BY <1>1, <1>3, ContextAssumption DEF ControlInv, Contexts
  <2> QED BY <1>4, <2>1, <2>2 DEF ControlInv
<1>6. ~Disposing' BY <1>4 DEF Disposing, Locking, LockLabels, UnlockLabels
<1>7. After(t)' = label BY <1>3 DEF After
<1> QED BY <1>1, <1>2, <1>3, <1>5, <1>6, <1>7, ContextAssumption DEF OnlyMoves, Contexts

\* The other tasks do not have the CPU: nothing they have tested is at stake.
LEMMA ManageElsewhere ==
  ASSUME KernelInv, NEW t \in Tasks, Runs(t), UNCHANGED runVars, Managed(t)',
         \A u \in Tasks \ {t} : (pc'[u] = pc[u] /\ arg'[u] = arg[u]) \/ pc'[u] = "app"
  PROVE  ManageInv'
<1>1. TCBRunning = t /\ TCBRunning' = t /\ ManageInv
  BY TaskAlone DEF runVars, KernelInv, OrderInv
<1>2. ASSUME NEW u \in Tasks \ {t} PROVE Managed(u)'
  <2>1. CASE pc'[u] = "app" BY <2>1 DEF Managed, Managing, SleepsAt
  <2>2. CASE pc'[u] = pc[u] /\ arg'[u] = arg[u]
    <3>1. SleepsAt(u)' <=> SleepsAt(u) BY <2>2 DEF SleepsAt
    <3> QED BY <1>1, <2>2, <3>1 DEF ManageInv, Managed
  <2> QED BY <1>2, <2>1, <2>2
<1> QED BY <1>2 DEF ManageInv

\* A step that leaves the CPU with a RUNNING task, or with one in its unlock.
LEMMA CpuTask ==
  ASSUME KernelInv, NEW t \in Tasks, Runs(t), UNCHANGED runVars,
         \A u \in Tasks \ {t} : state'[u] # "RUNNING", state'[Idle] \in {"READY", "RUNNING"},
         \/ state'[t] = "RUNNING"
         \/ pc'[t] \in UnlockLabels /\ OSSchedLock' = 1 /\ TaskSchedReq'
  PROVE  CpuInv'
BY TaskAlone DEF CpuInv, runVars

LEMMA PoolKept ==
  ASSUME PoolInv, UNCHANGED FreeTCB,
         \A u \in Tasks : /\ state[u] = "DORMANT" \/ pc[u] = "off" => state'[u] = state[u]
                          /\ pc'[u] = "off" <=> pc[u] = "off"
                          /\ Creating(u)' => Creating(u) /\ arg'[u] = arg[u],
         \A u \in Tasks : Creating(u) => arg[u].on \in Tasks
  PROVE  PoolInv'
BY DEF PoolInv, Newborn

LEMMA CreatesTask ==
  ASSUME CallTypes, NEW t \in Tasks, Creating(t)
  PROVE  arg[t].on \in Tasks
BY DEF CallTypes, ArgOK, Fits, Creating, TaskArgLabels

LEMMA BoxKept ==
  ASSUME BoxInv, UNCHANGED <<ecb, FreeEventList>>,
         \A u \in Tasks : pc'[u] = "postmail" =>
           \/ pc[u] = "postmail" /\ arg'[u] = arg[u]
           \/ ecb[arg'[u].on].eventType = "MBOX"
  PROVE  BoxInv'
BY DEF BoxInv

\* A step that is a locked section, and one that is none, for what they do apart
\* from the lists.
LEMMA SectionKeeps ==
  ASSUME KernelInv, NEW t \in Tasks, Runs(t),
         NEW next \in Returns \ {"init", "initwait"}, LockedSection(t, next),
         next \in {"semblock", "mailblock", "delete"} => OSSchedLock = 0,
         UNCHANGED <<runVars, FreeTCB, ecb, FreeEventList>>,
         \A u \in Tasks \ {t} : arg'[u] = arg[u],
         \A u \in Tasks : state[u] = "DORMANT" \/ pc[u] = "off" => state'[u] = state[u],
         \A u \in Tasks \ {t} : state'[u] # "RUNNING", state'[Idle] \in {"READY", "RUNNING"},
         state'[t] = "RUNNING" \/ (OSSchedLock = 0 /\ TaskSchedReq'),
         ListInv'
  PROVE  OrderInv'

<1>1. /\ OnlyMoves(t, next)
      /\ OSSchedLock = 0 => pc'[t] = "respond" /\ OSSchedLock' = 1
      /\ OSSchedLock # 0 => pc'[t] = next /\ OSSchedLock' = OSSchedLock
  BY SectionControl
<1>2. PoolInv /\ BoxInv /\ CallTypes BY DEF KernelInv, OrderInv, TypeOK
<1>3. \A u \in Tasks \ {t} : After(u)' = After(u) BY <1>1 DEF OnlyMoves, After
<1>4. PoolInv'
  <2>1. \A u \in Tasks : Creating(u)' => Creating(u) /\ arg'[u] = arg[u]
    BY <1>1, <1>3 DEF OnlyMoves, Creating
  <2>2. \A u \in Tasks : pc'[u] = "off" <=> pc[u] = "off"
    BY <1>1, TaskFree DEF OnlyMoves
  <2> QED BY <1>2, <2>1, <2>2, PoolKept, CreatesTask
<1>5. BoxInv'
  <2>1. pc'[t] # "postmail" BY <1>1 DEF Returns
  <2> QED BY <1>1, <1>2, <2>1, BoxKept DEF OnlyMoves
<1>6. ManageInv'
  <2>1. Managed(t)'
    BY <1>1 DEF Managed, Managing, SleepsAt, Returns
  <2> QED BY <1>1, <2>1, ManageElsewhere DEF OnlyMoves
<1>7. CpuInv'
  <2>1. "respond" \in UnlockLabels BY DEF UnlockLabels
  <2> QED BY <1>1, <2>1, CpuTask
<1> QED BY <1>1, <1>4, <1>5, <1>6, <1>7 DEF OrderInv, OnlyMoves

LEMMA GotoKeeps ==
  ASSUME KernelInv, NEW t \in Tasks, Runs(t), NEW label \in Labels,
         label \notin UnlockLabels \cup NeverAt \cup {"clear", "off", "init", "initwait"}, Goto(t, label),
         UNCHANGED <<runVars, FreeTCB, ecb, FreeEventList, state, ret, OSSchedLock>>,
         \A u \in Tasks \ {t} : arg'[u] = arg[u],
         Managed(t)', label = "postmail" => ecb[arg'[t].on].eventType = "MBOX",
         ListInv'
  PROVE  OrderInv'
<1>1. OnlyMoves(t, label) /\ pc'[t] = label
  BY GotoControl DEF KernelInv, LockInv
<1>2. PoolInv /\ BoxInv /\ CallTypes BY DEF KernelInv, OrderInv, TypeOK
<1>3. \A u \in Tasks \ {t} : After(u)' = After(u) BY <1>1 DEF OnlyMoves, After
<1>4. PoolInv'
  <2>1. \A u \in Tasks : Creating(u)' => Creating(u) /\ arg'[u] = arg[u]
    BY <1>1, <1>3 DEF OnlyMoves, Creating
  <2>2. \A u \in Tasks : pc'[u] = "off" <=> pc[u] = "off"
    BY <1>1, TaskFree DEF OnlyMoves
  <2> QED BY <1>2, <2>1, <2>2, PoolKept, CreatesTask
<1>5. BoxInv' BY <1>1, <1>2, BoxKept DEF OnlyMoves
<1>6. ManageInv' BY <1>1, ManageElsewhere DEF OnlyMoves
<1>7. CpuInv' BY CpuTask, TaskFree
<1> QED BY <1>1, <1>4, <1>5, <1>6, <1>7 DEF OrderInv, OnlyMoves

LEMMA RunsCalling ==
  ASSUME Disciplined, NEW t \in Tasks, NEW call, Calls(t, call)
  PROVE  Runs(t) /\ call \notin Forbidden /\ pc[t] = "app" /\ <<t, call>> \in Api
BY DEF Disciplined, Calls, At, Runs, UnlockLabels

LEMMA RunsInCall ==
  ASSUME KernelInv, NEW t \in Tasks, NEW label, At(t, label),
         label \notin UnlockLabels \cup {"clear", "app"}
  PROVE  Runs(t) /\ pc[t] = label
BY DEF KernelInv, OrderInv, ControlInv, At, Runs

LEMMA OffKept ==
  ASSUME KernelInv, NEW t \in Tasks, Runs(t), NEW next, OnlyMoves(t, next)
  PROVE  \A u \in Tasks : pc'[u] = "off" <=> pc[u] = "off"
BY TaskFree DEF OnlyMoves

LEMMA ListsKept ==
  ASSUME KernelInv, ~Disposing, ~Disposing', \A u \in Tasks : pc'[u] = "off" <=> pc[u] = "off",
         \A u \in Tasks : state[u] = "WAITING" => ret'[u] = ret[u],
         UNCHANGED <<state, TCBRdy, delayVars, eventID, eventTCBList>>
  PROVE  ListInv'
<1>1. ReadyInv /\ DelayInv /\ WaitInv BY DEF KernelInv, OrderInv, ListInv
<1>2. ReadyInv' BY <1>1, ReadyStays DEF Ready
<1>3. DelayInv'
  <2>1. StaySpoilt(Tasks) BY SpoiltStays
  <2> QED BY <1>1, <2>1 DEF DelayInv, StaySpoilt, delayVars
<1>4. WaitInv' BY <1>1 DEF WaitInv
<1> QED BY <1>2, <1>3, <1>4 DEF ListInv

\* Steps that touch none of the lists.
LEMMA QuietSection ==
  ASSUME KernelInv, NEW t \in Tasks, Runs(t),
         NEW next \in Returns \ {"init", "initwait"}, LockedSection(t, next),
         next \in {"semblock", "mailblock", "delete"} => OSSchedLock = 0,
         UNCHANGED <<runVars, FreeTCB, ecb, FreeEventList>>,
         UNCHANGED <<state, TCBRdy, delayVars, eventID, eventTCBList>>,
         \A u \in Tasks \ {t} : arg'[u] = arg[u]
  PROVE  OrderInv'
<1>1. OnlyMoves(t, next) BY SectionControl
<1>2. ListInv' BY <1>1, OffKept, ListsKept, TaskAlone, TaskFree DEF OnlyMoves
<1> QED BY <1>2, SectionKeeps, TaskFree

LEMMA QuietGoto ==
  ASSUME KernelInv, NEW t \in Tasks, Runs(t), NEW label \in Labels,
         label \notin UnlockLabels \cup NeverAt \cup {"clear", "off", "init", "initwait"}, Goto(t, label),
         UNCHANGED <<runVars, FreeTCB, ecb, FreeEventList, state, ret, OSSchedLock>>,
         UNCHANGED <<TCBRdy, delayVars, eventID, eventTCBList>>,
         \A u \in Tasks \ {t} : arg'[u] = arg[u],
         Managed(t)', label = "postmail" => ecb[arg'[t].on].eventType = "MBOX"
  PROVE  OrderInv'
<1>1. OnlyMoves(t, label) BY GotoControl DEF KernelInv, LockInv
<1>2. ListInv' BY <1>1, OffKept, ListsKept, TaskAlone, TaskFree DEF OnlyMoves
<1> QED BY <1>2, GotoKeeps

\* The semaphore and mailbox calls, but for the posts and for going to sleep.
LEMMA TokenQuiet ==
  ASSUME KernelInv, Disciplined, NEW t \in Tasks, SemCall(t) \/ MboxCall(t) \/ Decrement(t) \/ Woken(t)
  PROVE  OrderInv'
<1>1. DOMAIN arg = Tasks BY DEF KernelInv, TypeOK, CallTypes
<1>2. ASSUME NEW e \in Events, NEW timeout \in Timeouts, CoPendSem(t, e, timeout) PROVE OrderInv'
  <2>1. Runs(t) BY <1>2, RunsCalling DEF CoPendSem
  <2>2. PICK next \in {"app", "semblock"} : LockedSection(t, next) BY <1>2 DEF CoPendSem
  <2> QED BY <1>1, <1>2, <2>1, <2>2, QuietSection
          DEF CoPendSem, WithArg, Returns, poolVars, listVars, delayVars
<1>3. ASSUME NEW e \in Events, CoAcceptSem(t, e) PROVE OrderInv'
  <2>1. Runs(t) BY <1>3, RunsCalling DEF CoAcceptSem
  <2>2. PICK next \in {"app", "decrement"} : LockedSection(t, next) BY <1>3 DEF CoAcceptSem
  <2> QED BY <1>1, <1>3, <2>1, <2>2, QuietSection
          DEF CoAcceptSem, WithArg, Returns, poolVars, listVars, eventVars
<1>4. ASSUME NEW e \in Events, CoPostSem(t, e) PROVE OrderInv'
  <2>1. Runs(t) /\ Goto(t, "postsem") BY <1>4, RunsCalling DEF CoPostSem, Continue
  <2>2. pc'[t] = "postsem" BY <2>1, GotoControl DEF KernelInv, TypeOK, ControlTypes, Goto, Contexts
  <2>3. Managed(t)' BY <2>2 DEF Managed, Managing, SleepsAt
  <2> QED BY <1>1, <1>4, <2>1, <2>3, QuietGoto
          DEF CoPostSem, Continue, WithArg, Labels, UnlockLabels, EventArgLabels, NeverAt, poolVars, listVars, eventVars
<1>5. ASSUME NEW e \in Events, NEW timeout \in Timeouts, CoPendMail(t, e, timeout) PROVE OrderInv'
  <2>1. Runs(t) BY <1>5, RunsCalling DEF CoPendMail
  <2>2. PICK next \in {"app", "mailblock"} : LockedSection(t, next) BY <1>5 DEF CoPendMail, TakeMail
  <2> QED BY <1>1, <1>5, <2>1, <2>2, QuietSection
          DEF CoPendMail, TakeMail, WithArg, Returns, poolVars, listVars
<1>6. ASSUME NEW e \in Events, CoAcceptMail(t, e) PROVE OrderInv'
  <2>1. Runs(t) BY <1>6, RunsCalling DEF CoAcceptMail
  <2>2. LockedSection(t, "app") BY <1>6 DEF CoAcceptMail, TakeMail
  <2> QED BY <1>1, <1>6, <2>1, <2>2, QuietSection
          DEF CoAcceptMail, TakeMail, WithArg, Returns, poolVars, listVars
<1>7. ASSUME NEW e \in Events, NEW mail \in Mails, CoPostMail(t, e, mail) PROVE OrderInv'
  <2>5. Runs(t) /\ Goto(t, "postmail") /\ <<t, "CoPostMail">> \in Api
    BY <1>7, RunsCalling DEF CoPostMail, Continue
  <2>6. <<t, "CoPostMail">>[2] = "CoPostMail" => CFG_PAR_CHECKOUT_EN BY <2>5 DEF Disciplined
  <2>1. Runs(t) /\ Goto(t, "postmail") /\ CFG_PAR_CHECKOUT_EN BY <2>5, <2>6
  <2>2. pc'[t] = "postmail" BY <2>1 DEF KernelInv, TypeOK, ControlTypes, Goto, Contexts
  <2>3. Managed(t)' BY <2>2 DEF Managed, Managing, SleepsAt
  <2>4. ecb[arg'[t].on].eventType = "MBOX"
    BY <1>1, <1>7, <2>1 DEF CoPostMail, Continue, WithArg, Accepts
  <2> QED BY <1>1, <1>7, <2>1, <2>3, <2>4, QuietGoto
          DEF CoPostMail, Continue, WithArg, Labels, UnlockLabels, EventArgLabels, NeverAt, poolVars, listVars, eventVars
<1>8. CASE Decrement(t)
  <2>1. Runs(t) /\ Goto(t, "app") BY <1>8, RunsInCall DEF Decrement, UnlockLabels
  <2>2. pc'[t] = "app" BY <2>1 DEF KernelInv, TypeOK, ControlTypes, Goto, Contexts
  <2>3. Managed(t)' BY <2>2 DEF Managed, Managing, SleepsAt
  <2> QED BY <1>8, <2>1, <2>3, QuietGoto
          DEF Decrement, Labels, UnlockLabels, NeverAt, poolVars, listVars
<1>9. CASE Woken(t)
  <2>1. Runs(t) /\ Goto(t, "app") BY <1>9, RunsInCall DEF Woken, UnlockLabels
  <2>2. pc'[t] = "app" BY <2>1 DEF KernelInv, TypeOK, ControlTypes, Goto, Contexts
  <2>3. Managed(t)' BY <2>2 DEF Managed, Managing, SleepsAt
  <2> QED BY <1>9, <2>1, <2>3, QuietGoto
          DEF Woken, Labels, UnlockLabels, NeverAt, poolVars, listVars
<1> QED BY <1>2, <1>3, <1>4, <1>5, <1>6, <1>7, <1>8, <1>9 DEF SemCall, MboxCall

---------------------------------------------------------------------------
(* The calls about tasks and time *)

LEMMA LockCallKeeps ==
  ASSUME KernelInv, Disciplined, NEW t \in Tasks, CoSchedLock(t) \/ CoSchedUnlock(t)
  PROVE  OrderInv'
<1>1. Runs(t) /\ pc[t] = "app" BY RunsCalling DEF CoSchedLock, CoSchedUnlock
<1>2. /\ UNCHANGED <<runVars, FreeTCB, ecb, FreeEventList, arg>>
      /\ UNCHANGED <<state, TCBRdy, TaskSchedReq, delayVars, eventID, eventTCBList>>
  BY DEF CoSchedLock, CoSchedUnlock, poolVars, listVars, eventVars, callVars
<1>3. OSSchedLock \in Nat /\ DOMAIN pc = Contexts /\ DOMAIN ret = Contexts
  BY DEF KernelInv, LockInv
<1>4. CASE UNCHANGED <<pc, ret>>
  <2>1. \A c \in Contexts : ~Locking(c)' BY <1>1, <1>4, TaskAlone DEF Locking
  <2>2. ControlInv' BY <1>4, <2>1 DEF KernelInv, OrderInv, ControlInv
  <2>3. ~Disposing' BY <1>1, <1>4, TaskAlone DEF Disposing
  <2>4. ListInv' BY <1>1, <1>2, <1>4, <2>3, ListsKept, TaskAlone
  <2>5. PoolInv' /\ BoxInv'
    BY <1>2, <1>4 DEF KernelInv, OrderInv, PoolInv, Newborn, Creating, After, BoxInv
  <2>6. Managed(t)' BY <1>1, <1>4 DEF Managed, Managing, SleepsAt
  <2>7. ManageInv' BY <1>1, <1>2, <1>4, <2>6, ManageElsewhere
  <2>8. CpuInv' BY <1>1, <1>2, TaskFree, CpuTask
  <2> QED BY <2>2, <2>4, <2>5, <2>7, <2>8 DEF OrderInv
<1>5. CASE OSSchedLock = 1 /\ Goto(t, "respond") /\ ret' = [ret EXCEPT ![t] = "app"] /\ UNCHANGED OSSchedLock
  <2>1. /\ t \in Contexts /\ pc'[t] = "respond" /\ ret'[t] = "app" /\ t # Idle /\ t # SysTick /\ t # Isr
        /\ \A c \in Contexts \ {t} : pc'[c] = pc[c] /\ ret'[c] = ret[c]
    BY <1>1, <1>3, <1>5, ContextAssumption DEF Goto, Contexts, Runs
  <2>2. \A c \in Contexts \ {t} : ~Locking(c)' BY <1>1, <2>1, TaskAlone DEF Locking
  <2>3. ControlInv'
    <3>1. \A u \in Tasks : ret'[u] \in Returns /\ pc'[u] \notin NeverAt
      BY <2>1 DEF KernelInv, OrderInv, ControlInv, Contexts, Returns, NeverAt
    <3>2. pc'[Idle] \in UnlockLabels \cup {"clear", "app"} /\ ret'[Idle] = "app"
      BY <2>1, ContextAssumption DEF KernelInv, OrderInv, ControlInv, Contexts
    <3> QED BY <1>5, <2>2, <3>1, <3>2 DEF ControlInv
  <2>4. ~Disposing'
    <3>1. pc'[t] \notin {"unlink", "tickunlink"} BY <2>1
    <3> QED BY <2>2, <3>1 DEF Disposing, Locking, LockLabels, UnlockLabels
  <2>5. After(t)' = "app" /\ pc'[t] # "off" BY <2>1 DEF After, UnlockLabels
  <2>6. OnlyMoves(t, "app")
    BY <1>1, <2>1, <2>3, <2>4, <2>5, TaskAlone, ContextAssumption DEF OnlyMoves, Contexts
  <2>7. ListInv' BY <1>1, <1>2, <2>4, <2>6, OffKept, ListsKept, TaskAlone, TaskFree DEF OnlyMoves
  <2>8. \A u \in Tasks : Creating(u)' => Creating(u) /\ arg'[u] = arg[u]
    BY <1>2, <2>5, <2>6 DEF OnlyMoves, Creating, After
  <2>9. PoolInv'
    <3>1. PoolInv /\ CallTypes BY DEF KernelInv, OrderInv, TypeOK
    <3> QED BY <1>1, <1>2, <2>6, <2>8, <3>1, OffKept, PoolKept, CreatesTask
  <2>10. BoxInv'
    <3>1. BoxInv BY DEF KernelInv, OrderInv
    <3> QED BY <1>2, <2>1, <2>6, <3>1, BoxKept DEF OnlyMoves
  <2>11. Managed(t)' BY <2>1 DEF Managed, Managing, SleepsAt
  <2>12. ManageInv' BY <1>1, <1>2, <2>6, <2>11, ManageElsewhere DEF OnlyMoves
  <2>13. CpuInv' BY <1>1, <1>2, TaskFree, CpuTask
  <2> QED BY <2>3, <2>7, <2>9, <2>10, <2>12, <2>13 DEF OrderInv
<1> QED BY <1>3, <1>4, <1>5 DEF CoSchedLock, CoSchedUnlock

LEMMA TickDelayKeeps ==
  ASSUME KernelInv, Disciplined, NEW t \in Tasks, NEW ticks \in Delays, CoTickDelay(t, ticks)
  PROVE  OrderInv'
<1>1. Runs(t) /\ OSSchedLock = 0 /\ LockedSection(t, "app") /\ LinkDelay(t, ticks)
  BY RunsCalling DEF CoTickDelay
<1>2. UNCHANGED <<TCBRdy, runVars, FreeTCB, ecb, FreeEventList, arg, eventID, eventTCBList>>
  BY DEF CoTickDelay, poolVars, eventVars, callVars
<1>3. /\ state' = [state EXCEPT ![t] = "WAITING"] /\ state \in [Tasks -> States] /\ TaskSchedReq'
  BY DEF CoTickDelay, Block, KernelInv, TypeOK, ListTypes
<1>4. OnlyMoves(t, "app") BY <1>1, SectionControl DEF Returns
<1>5. ReadyInv /\ DelayInv /\ WaitInv /\ DelayTypes BY DEF KernelInv, OrderInv, ListInv, TypeOK
<1>6. ReadyInv'
  <2>1. \A u \in Tasks : Ready(u)' <=> Ready(u)
    BY <1>1, <1>3, <1>4, OffKept, TaskFree DEF Ready
  <2> QED BY <1>2, <1>5, <2>1, ReadyStays
<1>7. DelayInv'
  <2>1. ticks \in 0 .. INVALID_VALUE - 1 BY CallValues
  <2>2. \A u \in Tasks \ {t} : Contains(DlyList, u) => state'[u] = "WAITING"
    BY <1>3, <1>5 DEF DelayInv
  <2>3. state'[t] = "WAITING" /\ ~Contains(DlyList, t) BY <1>1, <1>3, TaskFree
  <2>4. StaySpoilt(Tasks \ {t}) BY <1>2, <1>3, <1>4, SpoiltStays DEF OnlyMoves
  <2> QED BY <1>1, <1>4, <1>5, <2>1, <2>2, <2>3, <2>4, TaskAlone, DelayJoins DEF OnlyMoves
<1>8. WaitInv' BY <1>2, <1>3, <1>5, WaitKept DEF WaitInv
<1>9. /\ \A u \in Tasks : state[u] = "DORMANT" \/ pc[u] = "off" => state'[u] = state[u]
      /\ \A u \in Tasks \ {t} : state'[u] # "RUNNING"
      /\ state'[Idle] \in {"READY", "RUNNING"}
  BY <1>1, <1>3, TaskFree, ContextAssumption DEF Runs
<1> QED BY <1>1, <1>2, <1>3, <1>6, <1>7, <1>8, <1>9, SectionKeeps DEF ListInv, Returns

\* Another task is managed with the lock held.
LEMMA ManagesUnderLock ==
  ASSUME KernelInv, Disciplined, NEW t \in Tasks, NEW call \in Manage, Calls(t, call), NEW u,
         MayManage(t, u)
  PROVE  Runs(t) /\ CFG_PAR_CHECKOUT_EN /\ 0 \notin Delays /\ (u # t => OSSchedLock > 0)
<1>1. Runs(t) /\ <<t, call>> \in Api BY RunsCalling
<1>2. <<t, call>>[2] = call OBVIOUS
<1>3. CFG_PAR_CHECKOUT_EN /\ LockToManage /\ 0 \notin Delays BY <1>1, <1>2 DEF Disciplined
<1> QED BY <1>1, <1>3 DEF MayManage

\* The tests at the start of a managing call still hold when the call acts.
LEMMA ContinueKeeps ==
  ASSUME KernelInv, NEW t \in Tasks, Runs(t), NEW label \in {"reset", "delete", "awake"},
         NEW u \in Tasks, NEW val, Continue(t, label, u, val),
         u # t => OSSchedLock > 0 /\ Tested(label, u),
         u = t => label = "delete" /\ OSSchedLock = 0,
         label = "reset" => val # 0
  PROVE  OrderInv'
<1>1. /\ Goto(t, label) /\ arg' = [arg EXCEPT ![t] = [on |-> u, val |-> val]]
      /\ UNCHANGED <<listVars, delayVars, eventVars, poolVars, runVars, OSSchedLock, ret>>
      /\ label \in Labels /\ label \notin UnlockLabels \cup NeverAt \cup {"clear", "off", "init", "initwait"}
  BY DEF Continue, WithArg, Labels, UnlockLabels, TaskArgLabels, NeverAt
<1>2. DOMAIN arg = Tasks /\ OSSchedLock \in Nat BY DEF KernelInv, TypeOK, CallTypes, LockInv
<1>3. OnlyMoves(t, label) /\ pc'[t] = label BY <1>1, <1>2, GotoControl
<1>4. arg'[t] = [on |-> u, val |-> val] /\ \A v \in Tasks \ {t} : arg'[v] = arg[v] BY <1>1, <1>2
<1>5. UNCHANGED <<state, delay, DlyList, eventID, eventTCBList, TCBRdy, FreeTCB, ecb, FreeEventList, TCBRunning, PendSV>>
  BY <1>1 DEF listVars, delayVars, eventVars, poolVars, runVars
<1>6. Undisturbed' /\ TCBRunning = t
  <2>1. ~HandlerLocks'
    BY <1>3, ContextAssumption DEF HandlerLocks, OnlyMoves, Locking, LockLabels, UnlockLabels
  <2> QED BY <1>5, <2>1, TaskAlone DEF Undisturbed
<1>7. SleepsAt(t)' <=> u = t BY <1>3, <1>4 DEF SleepsAt
<1>8. ASSUME u # t PROVE Tested(pc[t], arg[t].on)'
  <2>1. pc'[u] = pc[u] BY <1>3, <1>8 DEF OnlyMoves
  <2>2. Tested(label, u) BY <1>8
  <2>3. pc'[t] = label /\ arg'[t].on = u BY <1>3, <1>4
  <2> QED BY <1>5, <2>1, <2>2, <2>3 DEF Tested
<1>9. Managed(t)'
  <2>1. CASE u = t BY <1>1, <1>3, <1>4, <1>7, <2>1 DEF Managed
  <2>2. CASE u # t BY <1>1, <1>3, <1>4, <1>5, <1>6, <1>7, <1>8, <2>2 DEF Managed
  <2> QED BY <2>1, <2>2
<1> QED BY <1>1, <1>4, <1>5, <1>9, QuietGoto DEF delayVars

LEMMA ManageCallsKeep ==
  ASSUME KernelInv, Disciplined, NEW t \in Tasks, NEW u \in Ids,
         \/ \E ticks \in Delays : CoResetTaskDelayTick(t, u, ticks)
         \/ CoDelTask(t, u) \/ CoAwakeTask(t, u)
  PROVE  OrderInv'
<1>1. u \in Tasks /\ CpuInv /\ DelayInv /\ PoolInv /\ state \in [Tasks -> States]
  BY CallValues DEF KernelInv, OrderInv, ListInv, TypeOK, ListTypes
<1>2. ASSUME NEW ticks \in Delays, CoResetTaskDelayTick(t, u, ticks) PROVE OrderInv'
  <2>1. Runs(t) /\ 0 \notin Delays /\ (u # t => OSSchedLock > 0)
    BY <1>2, ManagesUnderLock DEF CoResetTaskDelayTick, Manage
  <2>5. ~TickRace
    <3>1. <<t, "CoResetTaskDelayTick">> \in Api BY <1>2, RunsCalling DEF CoResetTaskDelayTick
    <3>2. <<t, "CoResetTaskDelayTick">>[2] = "CoResetTaskDelayTick" OBVIOUS
    <3> QED BY <3>1, <3>2 DEF Disciplined, TimedWaits
  <2>2. u # t /\ Contains(DlyList, u)
    BY <1>1, <1>2, <2>1, <2>5, TaskFree DEF CoResetTaskDelayTick, DelayInv, Spoilt
  <2>3. Tested("reset", u) BY <2>2 DEF Tested
  <2>4. Continue(t, "reset", u, ticks) /\ ticks # 0 BY <1>2, <2>1 DEF CoResetTaskDelayTick
  <2> QED BY <1>1, <2>1, <2>2, <2>3, <2>4, ContinueKeeps
<1>3. CASE CoDelTask(t, u)
  <2>1. Runs(t) /\ (u # t => OSSchedLock > 0 /\ CFG_PAR_CHECKOUT_EN)
    <3>1. CASE Calls(t, "CoDelTask")
      BY <1>3, <3>1, ManagesUnderLock DEF CoDelTask, Manage
    <3>2. CASE u = t /\ Calls(t, "CoExitTask") BY <3>2, RunsCalling
    <3> QED BY <1>3, <3>1, <3>2 DEF CoDelTask
  <2>2. u = t => OSSchedLock = 0 BY <1>3, <2>1, TaskFree DEF CoDelTask
  <2>3. u # t => Tested("delete", u)
    <3>1. u # t => u # Idle /\ state[u] # "DORMANT" BY <1>3, <2>1 DEF CoDelTask, Dormant
    <3>2. u # t => pc[u] # "off" BY <1>1, <3>1 DEF PoolInv
    <3> QED BY <3>1, <3>2 DEF Tested
  <2>4. Continue(t, "delete", u, 0) BY <1>3 DEF CoDelTask
  <2> QED BY <1>1, <2>1, <2>2, <2>3, <2>4, ContinueKeeps
<1>4. CASE CoAwakeTask(t, u)
  <2>1. Runs(t) /\ (u # t => OSSchedLock > 0)
    BY <1>4, ManagesUnderLock DEF CoAwakeTask, Manage
  <2>2. u # t /\ Tested("awake", u) BY <1>4, <2>1, TaskFree DEF CoAwakeTask, Tested
  <2>3. Continue(t, "awake", u, 0) BY <1>4 DEF CoAwakeTask
  <2> QED BY <1>1, <2>1, <2>2, <2>3, ContinueKeeps
<1> QED BY <1>2, <1>3, <1>4

LEMMA SetPriorityKeeps ==
  ASSUME KernelInv, Disciplined, NEW t \in Tasks, NEW u \in Ids, NEW p \in Priorities,
         CoSetPriority(t, u, p)
  PROVE  OrderInv'
<1>1. u \in Tasks /\ PoolInv /\ WaitInv /\ state \in [Tasks -> States]
  BY CallValues DEF KernelInv, OrderInv, ListInv, TypeOK, ListTypes
<1>2. Runs(t) /\ CFG_PAR_CHECKOUT_EN /\ (u # t => OSSchedLock > 0)
  BY ManagesUnderLock DEF CoSetPriority, Manage
<1>3. /\ arg' = [arg EXCEPT ![t] = [on |-> u, val |-> eventID[u]]]
      /\ UNCHANGED <<state, TCBRdy, delayVars, eventID, eventTCBList, FreeTCB, ecb, FreeEventList, runVars,
                     OSSchedLock, ret>>
  BY DEF CoSetPriority, WithArg, listVars, eventVars
<1>4. state[u] # "DORMANT" /\ pc[u] # "off"
  BY <1>1, <1>2 DEF CoSetPriority, Dormant, PoolInv
<1>5. PICK label \in {"reorder", "resched", "unwait", "app"} :
        /\ Goto(t, label)
        /\ label = "reorder" => state[u] = "READY"
        /\ label = "unwait" => eventID[u] # NULL
  BY DEF CoSetPriority, InPrioList
<1>6. DOMAIN arg = Tasks /\ OSSchedLock \in Nat BY DEF KernelInv, TypeOK, CallTypes, LockInv
<1>7. label \in Labels /\ label \notin UnlockLabels \cup NeverAt \cup {"clear", "off", "init", "initwait"}
  BY DEF Labels, UnlockLabels, TaskArgLabels, NeverAt
<1>8. OnlyMoves(t, label) /\ pc'[t] = label BY <1>2, <1>3, <1>5, <1>6, <1>7, GotoControl
<1>9. arg'[t].on = u /\ \A v \in Tasks \ {t} : arg'[v] = arg[v] BY <1>3, <1>6
<1>10. Undisturbed' /\ TCBRunning' = t
  <2>1. ~HandlerLocks'
    BY <1>8, ContextAssumption DEF HandlerLocks, OnlyMoves, Locking, LockLabels, UnlockLabels
  <2> QED BY <1>2, <1>3, <2>1, TaskAlone DEF Undisturbed, runVars
<1>11. ASSUME label \in {"reorder", "unwait"}
       PROVE  OSSchedLock' > 0 /\ Tested(pc[t], arg[t].on)' /\ ~SleepsAt(t)'
  <2>1. u # t
    BY <1>2, <1>5, <1>11, TaskFree DEF WaitInv
  <2>2. pc'[u] = pc[u] BY <1>1, <1>8, <2>1 DEF OnlyMoves
  <2> QED BY <1>2, <1>3, <1>4, <1>5, <1>8, <1>9, <1>11, <2>1, <2>2 DEF Tested, SleepsAt
<1>12. Managed(t)'
  <2>1. CASE label \in {"reorder", "unwait"} BY <1>8, <1>10, <1>11, <2>1 DEF Managed
  <2>2. CASE label \in {"resched", "app"} BY <1>8, <2>2 DEF Managed, Managing, SleepsAt
  <2> QED BY <2>1, <2>2
<1> QED BY <1>2, <1>3, <1>5, <1>7, <1>9, <1>12, QuietGoto

\* A step of CreateTask: the TCB leaves the free list before it is filled in.
LEMMA CreateTaskKeeps ==
  ASSUME KernelInv, Disciplined, NEW t \in Tasks, NEW p \in Priorities, NEW waiting \in BOOLEAN,
         CreateTask(t, p, waiting)
  PROVE  OrderInv'
<1>1. Runs(t) /\ pc[t] = "app" BY RunsCalling DEF CreateTask
<1>2. DOMAIN arg = Tasks /\ FreeTCB \in Seq(Tasks) /\ CallTypes /\ PoolInv /\ BoxInv
  BY DEF KernelInv, OrderInv, TypeOK, CallTypes, PoolTypes
<1>3. /\ UNCHANGED <<runVars, ecb, FreeEventList>>
      /\ UNCHANGED <<state, TCBRdy, delayVars, eventID, eventTCBList>>
  BY DEF CreateTask, listVars, eventVars
<1>4. CASE FreeTCB = <<>>
  BY <1>1, <1>3, <1>4, QuietSection DEF CreateTask, Returns
<1>5. CASE FreeTCB # <<>>
  <2>1. PICK next \in {"init", "initwait"} : LockedSection(t, next)
    BY <1>5 DEF CreateTask
  <2>2. /\ OnlyMoves(t, next) /\ (OSSchedLock = 0 => pc'[t] = "respond")
        /\ (OSSchedLock # 0 => pc'[t] = next)
    BY <1>1, <2>1, SectionControl DEF Returns
  <2>3. /\ FreeTCB' = Tail(FreeTCB) /\ arg'[t].on = Head(FreeTCB)
        /\ \A u \in Tasks \ {t} : arg'[u] = arg[u]
    BY <1>2, <1>5 DEF CreateTask, WithArg
  <2>4. /\ Contains(FreeTCB, Head(FreeTCB)) /\ Head(FreeTCB) \in Tasks /\ IsInjective(FreeTCB')
        /\ \A x : Contains(FreeTCB', x) <=> Contains(FreeTCB, x) /\ x # Head(FreeTCB)
    BY <1>2, <1>5, <2>3, HeadTailItems, HeadTailType DEF PoolInv
  <2>5. \A u \in Tasks : pc'[u] = "off" <=> pc[u] = "off" BY <1>1, <2>2, OffKept
  <2>6. ASSUME NEW u \in Tasks, Creating(u)'
        PROVE  \/ u = t /\ arg'[u].on = Head(FreeTCB)
               \/ u # t /\ Creating(u) /\ arg'[u] = arg[u] /\ arg[u].on # Head(FreeTCB) /\ arg[u].on \in Tasks
    <3>1. CASE u = t BY <2>3, <3>1
    <3>2. CASE u # t
      <4>1. Creating(u) /\ arg'[u] = arg[u] BY <2>2, <2>3, <2>6, <3>2 DEF OnlyMoves, Creating, After
      <4>2. ~Contains(FreeTCB, arg[u].on) BY <1>2, <4>1 DEF PoolInv, Newborn
      <4> QED BY <1>2, <2>4, <3>2, <4>1, <4>2, CreatesTask
    <3> QED BY <3>1, <3>2
  <2>7. PoolInv'
    <3>1. ASSUME NEW u \in Tasks, Contains(FreeTCB', u) PROVE state'[u] = "DORMANT" \/ pc'[u] = "off"
      BY <1>2, <1>3, <2>4, <2>5, <3>1 DEF PoolInv
    <3>2. ASSUME NEW u \in Tasks, pc'[u] = "off"
          PROVE  state'[u] \in {"DORMANT", "READY"} /\ (u \in Ids => state'[u] = "DORMANT")
      BY <1>2, <1>3, <2>5, <3>2 DEF PoolInv
    <3>3. ASSUME NEW u \in Tasks, Creating(u)' PROVE Newborn(arg[u].on)'
      <4>1. CASE u = t
        BY <1>2, <1>3, <2>3, <2>4, <2>5, <4>1 DEF PoolInv, Newborn
      <4>2. CASE u # t
        BY <1>2, <1>3, <2>4, <2>5, <2>6, <3>3, <4>2 DEF PoolInv, Newborn
      <4> QED BY <4>1, <4>2
    <3>4. ASSUME NEW u \in Tasks, NEW v \in Tasks, Creating(u)', Creating(v)', arg'[u].on = arg'[v].on
          PROVE  u = v
      BY <1>2, <2>6, <3>4 DEF PoolInv
    <3> QED BY <2>4, <3>1, <3>2, <3>3, <3>4 DEF PoolInv
  <2>8. ListInv' BY <1>1, <1>3, <2>2, <2>5, ListsKept, TaskAlone, TaskFree DEF OnlyMoves
  <2>9. BoxInv'
    <3>1. pc'[t] # "postmail" BY <2>2
    <3> QED BY <1>2, <1>3, <2>2, <2>3, <3>1, BoxKept DEF OnlyMoves
  <2>10. Managed(t)' BY <2>2 DEF Managed, Managing, SleepsAt
  <2>11. ManageInv' BY <1>1, <1>3, <2>2, <2>3, <2>10, ManageElsewhere DEF OnlyMoves
  <2>12. CpuInv' BY <1>1, <1>3, TaskFree, CpuTask
  <2> QED BY <2>2, <2>7, <2>8, <2>9, <2>11, <2>12 DEF OrderInv, OnlyMoves
<1> QED BY <1>4, <1>5

---------------------------------------------------------------------------
(* The steps behind the unlocked tests of a call *)

LEMMA ManagerAt ==
  ASSUME KernelInv, NEW t \in Tasks, NEW label \in Managing, At(t, label)
  PROVE  /\ Runs(t) /\ pc[t] = label /\ arg[t].on \in Tasks
         /\ \/ label = "delete" /\ arg[t].on = t /\ OSSchedLock = 0
            \/ ~(label = "delete" /\ arg[t].on = t) /\ OSSchedLock > 0 /\ Tested(label, arg[t].on)
<1>1. Runs(t) /\ pc[t] = label BY RunsInCall DEF Managing, UnlockLabels
<1>2. Fits(label, arg[t]) BY ArgAt DEF KernelInv, TypeOK, Managing, UnlockLabels
<1>3. arg[t].on \in Tasks BY <1>2 DEF Fits, Managing, TaskArgLabels
<1>4. Managed(t) /\ OSSchedLock \in Nat BY DEF KernelInv, OrderInv, ManageInv, LockInv
<1> QED BY <1>1, <1>3, <1>4, TaskAlone DEF Managed, SleepsAt, Managing

\* What the lists of the kernel are before such a step.
LEMMA ListsNow ==
  ASSUME KernelInv
  PROVE  /\ ReadyInv /\ DelayInv /\ WaitInv /\ PoolInv /\ BoxInv /\ CpuInv
         /\ DelayTypes /\ EventTypes /\ PoolTypes
         /\ TCBRdy \in Seq(Tasks) /\ FreeTCB \in Seq(Tasks) /\ state \in [Tasks -> States]
BY DEF KernelInv, OrderInv, ListInv, TypeOK, ListTypes, PoolTypes

\* The state of one task changes, of a task that is neither free nor running.
LEMMA OneChanges ==
  ASSUME KernelInv, NEW t \in Tasks, Runs(t), NEW u \in Tasks, u # t, NEW s,
         state[u] # "DORMANT", pc[u] # "off", s \in {"READY", "WAITING", "DORMANT"},
         u = Idle => s = "READY", state' = [state EXCEPT ![u] = s]
  PROVE  /\ \A v \in Tasks : state[v] = "DORMANT" \/ pc[v] = "off" => state'[v] = state[v]
         /\ \A v \in Tasks \ {t} : state'[v] # "RUNNING"
         /\ state'[Idle] \in {"READY", "RUNNING"} /\ state'[t] = "RUNNING"
         /\ state'[u] = s /\ \A v \in Tasks \ {u} : state'[v] = state[v]
<1>1. state'[u] = s /\ \A v \in Tasks \ {u} : state'[v] = state[v] BY ListsNow
<1>2. state'[Idle] \in {"READY", "RUNNING"} BY <1>1, TaskFree, ContextAssumption
<1> QED BY <1>1, <1>2, TaskFree

LEMMA ResetKeeps ==
  ASSUME KernelInv, Disciplined, NEW t \in Tasks, ResetBody(t)
  PROVE  OrderInv'
<1> DEFINE u == arg[t].on
<1>1. /\ Runs(t) /\ pc[t] = "reset" /\ u \in Tasks /\ OSSchedLock > 0 /\ Contains(DlyList, u)
  BY ManagerAt DEF ResetBody, Managing, Tested
<1>2. arg[t].val \in 0 .. INVALID_VALUE - 1 /\ arg[t].val # 0
  <2>1. Fits("reset", arg[t]) BY ArgAt DEF ResetBody, KernelInv, TypeOK, UnlockLabels
  <2>2. arg[t].val # 0 BY <1>1 DEF KernelInv, OrderInv, ManageInv, Managed
  <2> QED BY <2>1, <2>2 DEF Fits
<1>3. /\ delay' = [delay EXCEPT ![u] = arg[t].val]
      /\ DlyList' = InsertBy(Unlink(DlyList, u), delay', u) /\ Block(u) /\ UNCHANGED TCBRdy
      /\ LockedSection(t, "app")
      /\ UNCHANGED <<runVars, FreeTCB, ecb, FreeEventList, arg, eventID, eventTCBList>>
  BY <1>1, <1>2 DEF ResetBody, Fault, eventVars, poolVars, callVars
<1> HIDE DEF u
<1>4. OnlyMoves(t, "app") BY <1>1, <1>3, SectionControl DEF Returns
<1>5. state[u] = "WAITING" /\ u # t /\ state' = state
  BY <1>1, <1>3, ListsNow, TaskFree DEF DelayInv, Block
<1>6. ReadyInv' BY <1>1, <1>3, <1>4, <1>5, ListsNow, OffKept, ReadyStays DEF Ready
<1>7. DelayInv'
  <2>1. \A v \in Tasks : Contains(DlyList, v) => state'[v] = "WAITING" BY <1>5, ListsNow DEF DelayInv
  <2>2. DelayInv /\ DelayTypes /\ ~Disposing /\ ~Disposing'
    BY <1>1, <1>4, ListsNow, TaskAlone DEF OnlyMoves
  <2>3. StaySpoilt(Tasks \ {t}) BY <1>3, <1>4, <1>5, SpoiltStays DEF OnlyMoves
  <2>4. StaySpoilt(Tasks \ {u})
    BY <1>1, <1>3, <1>5, <2>3, TaskFree DEF StaySpoilt, Spoilt
  <2> QED BY <1>1, <1>2, <1>3, <2>1, <2>2, <2>4, DelayMoves
<1>8. WaitInv' BY <1>3, <1>5, ListsNow, WaitKept DEF WaitInv
<1> QED BY <1>1, <1>3, <1>5, <1>6, <1>7, <1>8, SectionKeeps, TaskFree DEF ListInv, Returns

LEMMA AwakeKeeps ==
  ASSUME KernelInv, Disciplined, NEW t \in Tasks, AwakeBody(t)
  PROVE  OrderInv'
<1>0. PICK u \in Tasks : u = arg[t].on BY ManagerAt DEF AwakeBody, Managing
<1>1. /\ Runs(t) /\ u \in Tasks /\ OSSchedLock > 0
      /\ state[u] = "WAITING" /\ delay[u] = INVALID_VALUE /\ eventID[u] = NULL
  BY <1>0, ManagerAt DEF AwakeBody, Managing, Tested
<1>2. ~Contains(DlyList, u) /\ u # t /\ u # Idle /\ ~Contains(TCBRdy, u) /\ pc[u] # "off"
  BY <1>1, ListsNow, TaskFree, TaskAlone DEF DelayInv, ReadyInv, PoolInv
<1>3. /\ InsertToTCBRdyList(u) /\ LockedSection(t, "app")
      /\ UNCHANGED <<runVars, FreeTCB, ecb, FreeEventList, arg, delayVars, eventID, eventTCBList>>
  BY <1>0, <1>1, <1>2 DEF AwakeBody, Fault, eventVars, poolVars, callVars
<1>4. OnlyMoves(t, "app") BY <1>1, <1>3, SectionControl DEF Returns
<1>5. /\ \A v \in Tasks : state[v] = "DORMANT" \/ pc[v] = "off" => state'[v] = state[v]
      /\ \A v \in Tasks \ {t} : state'[v] # "RUNNING"
      /\ state'[Idle] \in {"READY", "RUNNING"} /\ state'[t] = "RUNNING"
      /\ state'[u] = "READY" /\ \A v \in Tasks \ {u} : state'[v] = state[v]
  BY <1>1, <1>2, <1>3, OneChanges DEF InsertToTCBRdyList
<1>6. ReadyInv'
  <2>1. TCBRdy' = InsertBy(TCBRdy, prio, u) BY <1>3 DEF InsertToTCBRdyList
  <2>2. \A v \in Tasks : pc'[v] = "off" <=> pc[v] = "off" BY <1>1, <1>4, OffKept
  <2>3. Ready(u)' /\ \A v \in Tasks \ {u} : Ready(v)' <=> Ready(v)
    BY <1>1, <1>2, <1>5, <2>2 DEF Ready
  <2>4. ReadyInv /\ TCBRdy \in Seq(Tasks) BY ListsNow
  <2> QED BY <1>1, <1>2, <2>1, <2>3, <2>4, ReadyJoins
<1>7. DelayInv'
  <2>1. \A v \in Tasks : Contains(DlyList, v) => state'[v] = "WAITING"
    BY <1>2, <1>5, ListsNow DEF DelayInv
  <2>2. DelayInv /\ ~Disposing /\ ~Disposing' BY <1>1, <1>4, ListsNow, TaskAlone DEF OnlyMoves
  <2>3. StaySpoilt(Tasks) BY <1>3, <1>4, <1>5, SpoiltStays DEF OnlyMoves
  <2> QED BY <1>3, <2>1, <2>2, <2>3, DelayKept DEF delayVars
<1>8. WaitInv'
  <2>1. \A v \in Tasks : eventID[v] # NULL => state'[v] = "WAITING" BY <1>1, <1>5, ListsNow DEF WaitInv
  <2> QED BY <1>3, <2>1, ListsNow, WaitKept
<1> QED BY <1>1, <1>3, <1>5, <1>6, <1>7, <1>8, SectionKeeps DEF ListInv, Returns

LEMMA ReorderKeeps ==
  ASSUME KernelInv, Disciplined, NEW t \in Tasks, ReorderBody(t)
  PROVE  OrderInv'
<1> DEFINE u == arg[t].on
<1>1. Runs(t) /\ u \in Tasks /\ state[u] = "READY" /\ pc[u] # "off"
  BY ManagerAt DEF ReorderBody, Managing, Tested
<1>2. Contains(TCBRdy, u) BY <1>1, ListsNow DEF ReadyInv
<1>3. /\ state' = [state EXCEPT ![u] = "READY"] /\ TCBRdy' = InsertBy(Unlink(TCBRdy, u), prio, u)
      /\ LockedSection(t, "app")
      /\ UNCHANGED <<runVars, FreeTCB, ecb, FreeEventList, arg, delayVars, eventID, eventTCBList>>
  BY <1>2 DEF ReorderBody, Fault, eventVars, poolVars, callVars
<1> HIDE DEF u
<1>4. OnlyMoves(t, "app") BY <1>1, <1>3, SectionControl DEF Returns
<1>5. state' = state BY <1>1, <1>3, ListsNow
<1>6. ReadyInv' BY <1>1, <1>2, <1>3, <1>4, <1>5, ListsNow, OffKept, ReadyMoves DEF Ready
<1>7. DelayInv'
  <2>1. DelayInv /\ ~Disposing /\ ~Disposing' BY <1>1, <1>4, ListsNow, TaskAlone DEF OnlyMoves
  <2>2. state'[t] = "RUNNING" BY <1>1, <1>5, TaskFree
  <2>3. StaySpoilt(Tasks) BY <1>3, <1>4, <1>5, <2>2, SpoiltStays DEF OnlyMoves
  <2> QED BY <1>3, <1>5, <2>1, <2>3, DelayKept DEF delayVars, DelayInv
<1>8. WaitInv' BY <1>3, <1>5, ListsNow, WaitKept DEF WaitInv
<1> QED BY <1>1, <1>3, <1>5, <1>6, <1>7, <1>8, SectionKeeps, TaskFree DEF ListInv, Returns

LEMMA RescheduleKeeps ==
  ASSUME KernelInv, Disciplined, NEW t \in Tasks, RescheduleBody(t)
  PROVE  OrderInv'
<1>1. Runs(t) BY RunsInCall DEF RescheduleBody, UnlockLabels
<1> QED BY <1>1, QuietSection DEF RescheduleBody, Returns, eventVars, poolVars, callVars

\* A TCB that is created is in no list, and only its creator knows it.
LEMMA InitTaskKeeps ==
  ASSUME KernelInv, Disciplined, NEW t \in Tasks, InitTask(t)
  PROVE  OrderInv'
<1>1. Runs(t) /\ pc[t] \in {"init", "initwait"} BY RunsInCall DEF InitTask, UnlockLabels
<1>2. Creating(t) /\ CallTypes BY <1>1 DEF Creating, After, UnlockLabels, KernelInv, TypeOK
<1>3. PICK u \in Tasks : u = arg[t].on BY <1>2, CreatesTask
<1>4. Newborn(u) /\ \A v \in Tasks : Creating(v) /\ arg[v].on = u => v = t
  BY <1>2, <1>3, ListsNow DEF PoolInv
<1>5. /\ u # t /\ u # Idle /\ ~Contains(TCBRdy, u) /\ ~Contains(DlyList, u) /\ ~Contains(FreeTCB, u)
      /\ eventID[u] = NULL /\ ~Ready(u)
  BY <1>1, <1>4, ListsNow, TaskFree DEF Newborn, ReadyInv, DelayInv, WaitInv, PoolInv, Ready
<1>6. /\ UNCHANGED <<runVars, FreeTCB, ecb, FreeEventList, arg, DlyList, eventTCBList>>
      /\ delay' = [delay EXCEPT ![u] = INVALID_VALUE] /\ eventID' = eventID
  BY <1>3, <1>5, ListsNow DEF InitTask, EventTypes, callVars
<1>7. PICK s \in {"READY", "WAITING"}, next \in {"app", "respond"} :
        /\ state' = [state EXCEPT ![u] = s] /\ pc' = [pc EXCEPT ![u] = "app", ![t] = next]
        /\ next = "respond" => OSSchedLock' = 1 /\ s = "READY"
        /\ \/ s = "WAITING" /\ UNCHANGED <<TCBRdy, ret>>
           \/ /\ s = "READY" /\ ret' = [ret EXCEPT ![t] = "app"]
              /\ TCBRdy' = InsertBy(TCBRdy, [prio EXCEPT ![u] = arg[t].val], u)
  <2>1. CASE pc[t] = "init" /\ OSSchedLock = 0 BY <1>3, <2>1 DEF InitTask
  <2>2. CASE pc[t] = "init" /\ OSSchedLock # 0 BY <1>3, <2>2 DEF InitTask
  <2>3. CASE pc[t] = "initwait" BY <1>3, <2>3 DEF InitTask
  <2> QED BY <1>1, <2>1, <2>2, <2>3
<1>8. /\ DOMAIN pc = Contexts /\ DOMAIN ret = Contexts /\ t \in Contexts /\ u \in Contexts
      /\ t # Idle /\ SysTick \notin {t, u} /\ Isr \notin {t, u}
  BY <1>1, ContextAssumption DEF KernelInv, LockInv, Contexts, Runs
<1>9. /\ pc'[u] = "app" /\ pc'[t] = next /\ ret'[t] \in {"app", ret[t]}
      /\ \A c \in Contexts \ {t, u} : pc'[c] = pc[c]
      /\ \A c \in Contexts \ {t} : ret'[c] = ret[c]
      /\ state'[u] = s /\ \A v \in Tasks \ {u} : state'[v] = state[v]
  BY <1>5, <1>7, <1>8, ListsNow
<1>10. ControlInv'
  <2>1. \A c \in Contexts : Locking(c)' => OSSchedLock' = 1
    <3>1. ASSUME NEW c \in Contexts \ {t, u} PROVE ~Locking(c)'
      BY <1>1, <1>9, TaskAlone DEF Locking
    <3>2. ~Locking(u)' BY <1>8, <1>9 DEF Locking, LockLabels, UnlockLabels
    <3>3. Locking(t)' => OSSchedLock' = 1 BY <1>7, <1>8, <1>9 DEF Locking, LockLabels, UnlockLabels
    <3> QED BY <3>1, <3>2, <3>3
  <2>2. \A v \in Tasks : ret'[v] \in Returns /\ pc'[v] \notin NeverAt
    BY <1>8, <1>9 DEF KernelInv, OrderInv, ControlInv, Contexts, Returns, NeverAt
  <2>3. pc'[Idle] \in UnlockLabels \cup {"clear", "app"} /\ ret'[Idle] = "app"
    BY <1>5, <1>8, <1>9, ContextAssumption DEF KernelInv, OrderInv, ControlInv, Contexts
  <2> QED BY <2>1, <2>2, <2>3 DEF ControlInv
<1>11. ~Disposing'
  <2>1. \A c \in Contexts \ {t, u} : pc'[c] \notin {"unlink", "tickunlink"}
    BY <1>1, <1>9, TaskAlone DEF Disposing
  <2> QED BY <1>9, <2>1 DEF Disposing
<1>12. \A v \in Tasks \ {u} : pc'[v] = "off" <=> pc[v] = "off"
  BY <1>1, <1>9, TaskFree DEF Contexts
<1>13. ReadyInv'
  <2>1. \A v \in Tasks \ {u} : Ready(v)' <=> Ready(v) BY <1>9, <1>12 DEF Ready
  <2>2. CASE s = "WAITING" BY <1>5, <1>7, <1>9, <2>1, <2>2, ListsNow, ReadyStays DEF Ready
  <2>3. CASE s = "READY"
    <3>1. Ready(u)' BY <1>9, <2>3 DEF Ready
    <3>2. PICK key : TCBRdy' = InsertBy(TCBRdy, key, u) BY <1>7, <2>3
    <3> QED BY <1>5, <2>1, <3>1, <3>2, ListsNow, ReadyJoins
  <2> QED BY <2>2, <2>3
<1>14. DelayInv'
  <2>1. \A v \in Tasks : Contains(DlyList, v) => state'[v] = "WAITING" BY <1>5, <1>9, ListsNow DEF DelayInv
  <2>2. ~Disposing BY <1>1, TaskAlone
  <2>3. state'[t] = "RUNNING" BY <1>1, <1>5, <1>9, TaskFree
  <2>4. \A v \in Tasks \ {t, u} : ret'[v] = ret[v] /\ state'[v] = state[v] BY <1>9 DEF Contexts
  <2>5. StaySpoilt(Tasks \ {u}) BY <1>6, <2>3, <2>4, SpoiltStays
  <2> QED BY <1>5, <1>6, <1>11, <2>1, <2>2, <2>5, DelayReset, ListsNow
<1>15. WaitInv'
  <2>1. \A v \in Tasks : eventID[v] # NULL => state'[v] = "WAITING" BY <1>5, <1>9, ListsNow DEF WaitInv
  <2> QED BY <1>6, <2>1, WaitKept, ListsNow
<1>16. PoolInv'
  <2>1. ASSUME NEW v \in Tasks, Contains(FreeTCB', v) PROVE state'[v] = "DORMANT" \/ pc'[v] = "off"
    BY <1>5, <1>6, <1>9, <1>12, <2>1, ListsNow DEF PoolInv
  <2>2. ASSUME NEW v \in Tasks, pc'[v] = "off"
        PROVE  state'[v] \in {"DORMANT", "READY"} /\ (v \in Ids => state'[v] = "DORMANT")
    <3>1. v # u BY <1>9, <2>2
    <3> QED BY <1>9, <1>12, <2>2, <3>1, ListsNow DEF PoolInv
  <2>3. ASSUME NEW v \in Tasks, Creating(v)'
        PROVE  Creating(v) /\ arg'[v] = arg[v] /\ arg[v].on # u /\ arg[v].on \in Tasks
    <3>1. v # u BY <1>9, <2>3 DEF Creating, After, UnlockLabels
    <3>4. ret'[t] = "app" \/ pc'[t] = "app" BY <1>7, <1>8, <1>9
    <3>3. v # t BY <1>7, <1>9, <2>3, <3>4 DEF Creating, After, UnlockLabels
    <3>2. Creating(v) BY <1>9, <2>3, <3>1, <3>3 DEF Creating, After, Contexts
    <3> QED BY <1>2, <1>4, <1>6, <3>1, <3>2, <3>3, CreatesTask
  <2>4. ASSUME NEW v \in Tasks, Creating(v)' PROVE Newborn(arg[v].on)'
    <3>1. Newborn(arg[v].on) BY <2>3, <2>4, ListsNow DEF PoolInv
    <3> QED BY <1>6, <1>9, <1>12, <2>3, <2>4, <3>1 DEF Newborn
  <2>5. ASSUME NEW v \in Tasks, NEW w \in Tasks, Creating(v)', Creating(w)', arg'[v].on = arg'[w].on
        PROVE  v = w
    BY <2>3, <2>5, ListsNow DEF PoolInv
  <2>6. IsInjective(FreeTCB') BY <1>6, ListsNow DEF PoolInv
  <2> QED BY <2>1, <2>2, <2>4, <2>5, <2>6 DEF PoolInv
<1>17. BoxInv'
  <2>1. \A v \in Tasks : pc'[v] = "postmail" => pc[v] = "postmail" /\ arg'[v] = arg[v]
    BY <1>6, <1>9 DEF Contexts
  <2> QED BY <1>6, <2>1, ListsNow, BoxKept
<1>18. ManageInv'
  <2>1. Managed(t)' BY <1>9 DEF Managed, Managing, SleepsAt
  <2>2. \A v \in Tasks \ {t} : (pc'[v] = pc[v] /\ arg'[v] = arg[v]) \/ pc'[v] = "app"
    BY <1>6, <1>9 DEF Contexts
  <2> QED BY <1>1, <1>6, <2>1, <2>2, ManageElsewhere
<1>19. CpuInv'
  <2>1. /\ \A v \in Tasks \ {t} : state'[v] # "RUNNING"
        /\ state'[Idle] \in {"READY", "RUNNING"} /\ state'[t] = "RUNNING"
    BY <1>1, <1>5, <1>9, TaskFree, ContextAssumption
  <2> QED BY <1>1, <1>6, <2>1, CpuTask
<1> QED BY <1>10, <1>13, <1>14, <1>15, <1>16, <1>17, <1>18, <1>19 DEF OrderInv, ListInv

\* No event is deleted: the links of a task that waits for one are sound.
LEMMA NotMisled ==
  ASSUME KernelInv, NEW u \in Tasks, eventID[u] # NULL
  PROVE  ~Misled(u)
<1>1. PICK e \in Events : e = eventID[u] BY ListsNow DEF EventTypes
<1>2. Contains(eventTCBList[e], u) BY <1>1, ListsNow DEF WaitInv
<1> QED BY <1>1, <1>2 DEF Misled, KernelInv, NoneStale

\* A task that is deleted leaves every list and joins the free TCBs.
\* A task that waits for a mutex has no delay that RemoveDelayList could go by.
LEMMA DeleteKeeps ==
  ASSUME KernelInv, Disciplined, NEW t \in Tasks, DeleteBody(t),
         state[arg[t].on] = "WAITING" => ret[arg[t].on] # "entered"
  PROVE  OrderInv'
<1>1. PICK u \in Tasks : u = arg[t].on BY ManagerAt DEF DeleteBody, Managing
<1>2. /\ Runs(t) /\ pc[t] = "delete"
      /\ \/ u = t /\ OSSchedLock = 0
         \/ u # t /\ u # Idle /\ state[u] # "DORMANT" /\ pc[u] # "off"
  BY <1>1, ManagerAt DEF DeleteBody, Managing, Tested
<1>3. /\ u # Idle /\ state[u] # "DORMANT" /\ pc[u] # "off" /\ ~Contains(FreeTCB, u)
      /\ (state[u] = "READY" <=> Contains(TCBRdy, u)) /\ (u # t => state[u] # "RUNNING")
      /\ (u = t => state[u] = "RUNNING") /\ ~Disposing
  BY <1>2, ListsNow, TaskFree, TaskAlone DEF PoolInv, ReadyInv, Runs
<1>15. eventID[u] # NULL => ~Misled(u) BY NotMisled
<1>4. /\ TCBRdy' = IF state[u] = "READY" THEN Unlink(TCBRdy, u) ELSE TCBRdy
      /\ IF state[u] = "WAITING" /\ delay[u] # INVALID_VALUE
         THEN RemoveDelayList(u) ELSE UNCHANGED delayVars
      /\ IF state[u] = "WAITING" /\ eventID[u] # NULL
         THEN RemoveEventWaittingList(u) ELSE UNCHANGED <<eventID, eventTCBList>>
      /\ state' = [state EXCEPT ![u] = "DORMANT"] /\ TaskSchedReq' /\ FreeTCB' = <<u>> \o FreeTCB
      /\ LockedSection(t, "app")
      /\ UNCHANGED <<ecb, FreeEventList, runVars, arg>>
  BY <1>1, <1>3, <1>15 DEF DeleteBody, callVars
<1>5. /\ OnlyMoves(t, "app") /\ (OSSchedLock = 0 => pc'[t] = "respond" /\ OSSchedLock' = 1)
      /\ (OSSchedLock # 0 => pc'[t] = "app")
  BY <1>2, <1>4, SectionControl DEF Returns
<1>6. state'[u] = "DORMANT" /\ \A v \in Tasks \ {u} : state'[v] = state[v] BY <1>4, ListsNow
<1>7. \A v \in Tasks : pc'[v] = "off" <=> pc[v] = "off" BY <1>2, <1>5, OffKept
<1>8. ReadyInv'
  <2>1. ~Ready(u)' /\ \A v \in Tasks \ {u} : Ready(v)' <=> Ready(v) BY <1>6, <1>7 DEF Ready
  <2>2. CASE state[u] = "READY" BY <1>3, <1>4, <2>1, <2>2, ListsNow, ReadyLeaves
  <2>3. CASE state[u] # "READY"
    <3>1. \A v \in Tasks : Ready(v)' <=> Ready(v) BY <2>1, <2>3 DEF Ready
    <3> QED BY <1>4, <2>3, <3>1, ListsNow, ReadyStays
  <2> QED BY <2>2, <2>3
<1>9. DelayInv'
  <2>1. \A v \in Tasks \ {u} : Contains(DlyList, v) => state'[v] = "WAITING"
    BY <1>6, ListsNow DEF DelayInv
  <2>2. ~Disposing' BY <1>5 DEF OnlyMoves
  <2>5. StaySpoilt(Tasks)
    <3>1. \A v \in Tasks \ {u} : eventID'[v] = eventID[v]
      BY <1>4, ListsNow DEF RemoveEventWaittingList, EventTypes
    <3> QED BY <1>2, <1>5, <1>6, <3>1, TaskFree, SpoiltStays DEF OnlyMoves
  <2>3. CASE state[u] = "WAITING" /\ delay[u] # INVALID_VALUE
    <3>1. Contains(DlyList, u) BY <1>1, <2>3, ListsNow DEF DelayInv, Spoilt
    <3> QED BY <1>3, <1>4, <2>1, <2>2, <2>3, <2>5, <3>1, ListsNow, DelayLeaves DEF StaySpoilt
  <2>4. CASE ~(state[u] = "WAITING" /\ delay[u] # INVALID_VALUE)
    <3>1. ~Contains(DlyList, u) BY <1>3, <2>4, ListsNow DEF DelayInv
    <3>2. UNCHANGED <<delay, DlyList>> BY <1>4, <2>4 DEF delayVars
    <3>3. \A v \in Tasks : Contains(DlyList, v) => state'[v] = "WAITING" BY <2>1, <3>1
    <3> QED BY <1>3, <2>2, <2>5, <3>2, <3>3, ListsNow, DelayKept
  <2> QED BY <2>3, <2>4
<1>10. WaitInv'
  <2>1. \A v \in Tasks \ {u} : eventID[v] # NULL => state'[v] = "WAITING" BY <1>6, ListsNow DEF WaitInv
  <2>2. CASE state[u] = "WAITING" /\ eventID[u] # NULL
    <3>1. PICK e \in Events : e = eventID[u] BY <2>2, ListsNow DEF EventTypes
    <3>2. /\ eventTCBList' = [eventTCBList EXCEPT ![e] = Unlink(@, u)]
          /\ eventID' = [eventID EXCEPT ![u] = NULL]
      BY <1>4, <2>2, <3>1 DEF RemoveEventWaittingList
    <3> QED BY <2>1, <3>1, <3>2, ListsNow, WaitLeaves
  <2>3. CASE ~(state[u] = "WAITING" /\ eventID[u] # NULL)
    <3>1. eventID[u] = NULL BY <2>3, ListsNow DEF WaitInv
    <3> QED BY <1>4, <2>1, <2>3, <3>1, ListsNow, WaitKept
  <2> QED BY <2>2, <2>3
<1>11. PoolInv'
  <2>1. IsInjective(FreeTCB') /\ \A v \in Tasks : Contains(FreeTCB', v) <=> Contains(FreeTCB, v) \/ v = u
    <3>1. IsInjective(FreeTCB) BY ListsNow DEF PoolInv
    <3> QED BY <1>3, <1>4, <3>1, ListsNow, PushItems
  <2>2. \A v \in Tasks : Contains(FreeTCB', v) => state'[v] = "DORMANT" \/ pc'[v] = "off"
    BY <1>6, <1>7, <2>1, ListsNow DEF PoolInv
  <2>3. \A v \in Tasks : pc'[v] = "off" =>
          state'[v] \in {"DORMANT", "READY"} /\ (v \in Ids => state'[v] = "DORMANT")
    BY <1>6, <1>7, ListsNow DEF PoolInv
  <2>4. ASSUME NEW v \in Tasks, Creating(v)'
        PROVE  Creating(v) /\ arg'[v] = arg[v] /\ arg[v].on # u /\ arg[v].on \in Tasks
    <3>1. v # t BY <1>5, <2>4 DEF OnlyMoves, Creating
    <3>2. Creating(v) BY <1>5, <2>4, <3>1 DEF OnlyMoves, Creating, After
    <3>3. Newborn(arg[v].on) /\ CallTypes BY <3>2, ListsNow DEF PoolInv, KernelInv, TypeOK
    <3> QED BY <1>3, <1>4, <3>2, <3>3, CreatesTask DEF Newborn
  <2>5. ASSUME NEW v \in Tasks, Creating(v)' PROVE Newborn(arg[v].on)'
    <3>1. Newborn(arg[v].on) BY <2>4, <2>5, ListsNow DEF PoolInv
    <3> QED BY <1>6, <1>7, <2>1, <2>4, <2>5, <3>1 DEF Newborn
  <2>6. ASSUME NEW v \in Tasks, NEW w \in Tasks, Creating(v)', Creating(w)', arg'[v].on = arg'[w].on
        PROVE  v = w
    BY <2>4, <2>6, ListsNow DEF PoolInv
  <2> QED BY <2>1, <2>2, <2>3, <2>5, <2>6 DEF PoolInv
<1>12. BoxInv'
  <2>1. pc'[t] # "postmail" BY <1>5
  <2> QED BY <1>4, <1>5, <2>1, ListsNow, BoxKept DEF OnlyMoves
<1>13. ManageInv'
  <2>1. Managed(t)' BY <1>5 DEF Managed, Managing, SleepsAt
  <2> QED BY <1>2, <1>4, <1>5, <2>1, ManageElsewhere DEF OnlyMoves
<1>14. CpuInv'
  <2>1. /\ \A v \in Tasks \ {t} : state'[v] # "RUNNING"
        /\ state'[Idle] \in {"READY", "RUNNING"}
        /\ u # t => state'[t] = "RUNNING"
    BY <1>2, <1>3, <1>6, TaskFree, ContextAssumption
  <2>2. u = t => pc'[t] \in UnlockLabels /\ OSSchedLock' = 1 /\ TaskSchedReq'
    BY <1>2, <1>4, <1>5 DEF UnlockLabels
  <2> QED BY <1>2, <1>4, <2>1, <2>2, CpuTask
<1> QED BY <1>5, <1>8, <1>9, <1>10, <1>11, <1>12, <1>13, <1>14 DEF OrderInv, ListInv, OnlyMoves

---------------------------------------------------------------------------
(* CoSetPriority of a waiting task, and going to sleep *)

LEMMA UnwaitKeeps ==
  ASSUME KernelInv, Disciplined, NEW t \in Tasks, UnwaitBody(t)
  PROVE  OrderInv'
<1>1. PICK u \in Tasks : u = arg[t].on BY ManagerAt DEF UnwaitBody, Managing
<1>2. Runs(t) /\ OSSchedLock > 0 /\ eventID[u] # NULL
  BY <1>1, ManagerAt DEF UnwaitBody, Managing, Tested
<1>3. state[u] = "WAITING" /\ u # t BY <1>2, ListsNow, TaskFree DEF WaitInv
<1>14. ~Misled(u) BY <1>2, NotMisled
<1>4. /\ RemoveEventWaittingList(u) /\ Goto(t, "rewait")
      /\ UNCHANGED <<runVars, FreeTCB, ecb, FreeEventList, state, ret, OSSchedLock, arg, TCBRdy, delay, DlyList>>
  BY <1>1, <1>2, <1>14 DEF UnwaitBody, listVars, delayVars, poolVars, callVars
<1>5. "rewait" \in Labels /\ "rewait" \notin UnlockLabels \cup NeverAt \cup {"clear", "off", "init", "initwait"}
  BY DEF Labels, UnlockLabels, TaskArgLabels, NeverAt
<1>6. OnlyMoves(t, "rewait") /\ pc'[t] = "rewait" BY <1>2, <1>4, <1>5, GotoControl DEF KernelInv, LockInv
<1>7. eventID'[u] = NULL /\ \A v \in Tasks \ {u} : eventID'[v] = eventID[v]
  BY <1>4, ListsNow DEF RemoveEventWaittingList, EventTypes
<1>8. ReadyInv' BY <1>2, <1>4, <1>6, OffKept, ListsNow, ReadyStays DEF Ready
<1>9. DelayInv'
  <2>1. ~Disposing /\ ~Disposing' BY <1>2, <1>6, TaskAlone DEF OnlyMoves
  <2>2. \A v \in Tasks : Contains(DlyList, v) => state'[v] = "WAITING" BY <1>4, ListsNow DEF DelayInv
  <2>3. StaySpoilt(Tasks) BY <1>4, <1>7, SpoiltStays
  <2> QED BY <1>4, <2>1, <2>2, <2>3, ListsNow, DelayKept
<1>10. WaitInv'
  <2>1. PICK e \in Events : e = eventID[u] BY <1>2, ListsNow DEF EventTypes
  <2>2. /\ eventTCBList' = [eventTCBList EXCEPT ![e] = Unlink(@, u)]
        /\ eventID' = [eventID EXCEPT ![u] = NULL]
    BY <1>4, <2>1 DEF RemoveEventWaittingList
  <2>3. \A v \in Tasks \ {u} : eventID[v] # NULL => state'[v] = "WAITING" BY <1>4, ListsNow DEF WaitInv
  <2> QED BY <2>1, <2>2, <2>3, ListsNow, WaitLeaves
<1>11. Managed(t)'
  <2>1. Undisturbed' /\ TCBRunning' = t
    <3>1. ~HandlerLocks'
      BY <1>6, ContextAssumption DEF HandlerLocks, OnlyMoves, Locking, LockLabels, UnlockLabels
    <3> QED BY <1>2, <1>4, <3>1, TaskAlone DEF Undisturbed, runVars
  <2>3. delay[u] # INVALID_VALUE => Contains(DlyList, u)
    BY <1>2, <1>3, ListsNow DEF DelayInv, Spoilt
  <2>2. Tested(pc[t], arg[t].on)' BY <1>1, <1>3, <1>4, <1>6, <1>7, <2>3 DEF Tested
  <2> QED BY <1>2, <1>4, <1>6, <2>1, <2>2 DEF Managed, SleepsAt
<1> QED BY <1>2, <1>4, <1>5, <1>8, <1>9, <1>10, <1>11, GotoKeeps DEF ListInv

LEMMA RewaitKeeps ==
  ASSUME KernelInv, Disciplined, NEW t \in Tasks, RewaitBody(t)
  PROVE  OrderInv'
<1>1. PICK u \in Tasks : u = arg[t].on BY ManagerAt DEF RewaitBody, Managing
<1>2. /\ Runs(t) /\ OSSchedLock > 0 /\ state[u] = "WAITING" /\ eventID[u] = NULL
      /\ delay[u] # INVALID_VALUE => Contains(DlyList, u)
  BY <1>1, ManagerAt DEF RewaitBody, Managing, Tested
<1>3. PICK e \in Events : e = arg[t].val
  <2>1. Fits("rewait", arg[t]) BY ArgAt DEF RewaitBody, KernelInv, TypeOK, UnlockLabels
  <2> QED BY <2>1 DEF Fits
<1>4. /\ LinkEvent(e, u) /\ Block(u) /\ LockedSection(t, "app")
      /\ UNCHANGED <<TCBRdy, delay, DlyList, FreeTCB, ecb, FreeEventList, runVars, arg>>
  BY <1>1, <1>2, <1>3 DEF RewaitBody, delayVars, poolVars, callVars
<1>5. OnlyMoves(t, "app") BY <1>2, <1>4, SectionControl DEF Returns
<1>6. state' = state /\ u # t BY <1>2, <1>4, ListsNow, TaskFree DEF Block
<1>7. ReadyInv' BY <1>2, <1>4, <1>5, <1>6, OffKept, ListsNow, ReadyStays DEF Ready
<1>8. DelayInv'
  <2>1. ~Disposing /\ ~Disposing' BY <1>2, <1>5, TaskAlone DEF OnlyMoves
  <2>2. state'[t] = "RUNNING" BY <1>2, <1>6, TaskFree
  <2>3. \A v \in Tasks \ {u} : eventID'[v] = eventID[v] BY <1>4, ListsNow DEF LinkEvent, EventTypes
  <2>4. StaySpoilt(Tasks \ {u}) BY <1>5, <1>6, <2>2, <2>3, SpoiltStays DEF OnlyMoves
  <2>5. DelayInv BY ListsNow
  <2> QED BY <1>2, <1>4, <1>6, <2>1, <2>4, <2>5 DEF DelayInv, StaySpoilt
<1>9. WaitInv'
  <2>1. \A v \in Tasks : eventID[v] # NULL => state'[v] = "WAITING" BY <1>6, ListsNow DEF WaitInv
  <2>2. state'[u] = "WAITING" BY <1>2, <1>6
  <2> QED BY <1>2, <1>4, <2>1, <2>2, ListsNow, WaitJoins
<1> QED BY <1>2, <1>4, <1>6, <1>7, <1>8, <1>9, SectionKeeps, TaskFree DEF ListInv, Returns

\* The blocking half of a pend call runs at lock 0: the test that sent it there
\* was the last thing done under the lock.
LEMMA BlockKeeps ==
  ASSUME KernelInv, Disciplined, NEW t \in Tasks, BlockBody(t)
  PROVE  OrderInv'
<1>1. Runs(t) /\ pc[t] \in {"semblock", "mailblock"} BY RunsInCall DEF BlockBody, UnlockLabels
<1>2. Fits(pc[t], arg[t]) BY <1>1, ArgAt DEF BlockBody, At, KernelInv, TypeOK, UnlockLabels
<1>3. PICK e \in Events : e = arg[t].on BY <1>1, <1>2 DEF Fits, EventArgLabels
<1>4. arg[t].val \in Timeouts /\ arg[t].val \in 0 .. INVALID_VALUE - 1
  BY <1>1, <1>2, EventApiAssumption DEF Fits
<1>5. OSSchedLock = 0
  <2>1. SleepsAt(t) /\ Managed(t) BY <1>1 DEF SleepsAt, KernelInv, OrderInv, ManageInv
  <2> QED BY <1>1, <2>1, TaskAlone DEF Managed
<1>6. PICK next \in {"semwoken", "mailwoken"} : LockedSection(t, next) BY DEF BlockBody
<1>7. /\ LinkEvent(e, t) /\ state' = [state EXCEPT ![t] = "WAITING"] /\ TaskSchedReq'
      /\ IF arg[t].val # 0 THEN LinkDelay(t, arg[t].val) ELSE UNCHANGED delayVars
      /\ UNCHANGED <<TCBRdy, FreeTCB, ecb, FreeEventList, runVars, arg>>
  BY <1>3 DEF BlockBody, Block, poolVars, callVars
<1>8. OnlyMoves(t, next) BY <1>1, <1>6, SectionControl DEF Returns
<1>9. /\ state'[t] = "WAITING" /\ \A v \in Tasks \ {t} : state'[v] = state[v]
      /\ eventID[t] = NULL /\ ~Contains(DlyList, t)
  BY <1>1, <1>7, ListsNow, TaskFree
<1>10. ReadyInv'
  <2>1. \A v \in Tasks : Ready(v)' <=> Ready(v) BY <1>1, <1>8, <1>9, OffKept, TaskFree DEF Ready
  <2> QED BY <1>7, <2>1, ListsNow, ReadyStays
<1>11. DelayInv'
  <2>1. ~Disposing /\ ~Disposing' BY <1>1, <1>8, TaskAlone DEF OnlyMoves
  <2>2. \A v \in Tasks : Contains(DlyList, v) => state'[v] = "WAITING" BY <1>9, ListsNow DEF DelayInv
  <2>3. CASE arg[t].val # 0
    <3>1. \A v \in Tasks \ {t} : eventID'[v] = eventID[v] BY <1>7, ListsNow DEF LinkEvent, EventTypes
    <3>2. StaySpoilt(Tasks \ {t}) BY <1>8, <1>9, <3>1, SpoiltStays DEF OnlyMoves
    <3> QED BY <1>4, <1>7, <1>9, <2>1, <2>2, <2>3, <3>2, ListsNow, DelayJoins
  <2>4. CASE arg[t].val = 0
    <3>1. ~TickRace BY <1>4, <2>4 DEF Disciplined, TimedWaits
    <3>2. StaySpoilt(Tasks) BY <3>1 DEF StaySpoilt, Spoilt
    <3> QED BY <1>7, <2>1, <2>2, <2>4, <3>2, ListsNow, DelayKept DEF delayVars
  <2> QED BY <2>3, <2>4
<1>12. WaitInv'
  <2>1. \A v \in Tasks \ {t} : eventID[v] # NULL => state'[v] = "WAITING" BY <1>9, ListsNow DEF WaitInv
  <2> QED BY <1>7, <1>9, <2>1, ListsNow, WaitJoins
<1>13. /\ \A u \in Tasks : state[u] = "DORMANT" \/ pc[u] = "off" => state'[u] = state[u]
       /\ \A u \in Tasks \ {t} : state'[u] # "RUNNING"
       /\ state'[Idle] \in {"READY", "RUNNING"}
  BY <1>1, <1>9, TaskFree, ContextAssumption DEF Runs
<1> QED BY <1>1, <1>5, <1>6, <1>7, <1>10, <1>11, <1>12, <1>13, SectionKeeps DEF ListInv, Returns

---------------------------------------------------------------------------
(* Posting, by a task, by the unlock that serves a request, and by a handler *)

\* Nothing is woken, or one waiting task is; a task that is woken in the unlock
\* it went to sleep with keeps the CPU.
Wakes(w, s) ==
  /\ state[w] = "WAITING" /\ state' = [state EXCEPT ![w] = s] /\ s \in {"READY", "RUNNING"}
  /\ s = "RUNNING" => w = TCBRunning /\ ~PendSV
WakesOne == (state' = state \/ \E w \in Tasks, s \in States : Wakes(w, s)) /\ (TaskSchedReq => TaskSchedReq')

LEMMA PostKeeps ==
  ASSUME KernelInv, NEW e \in Events, NEW n, NEW mail, PostBody(e, n, mail), ~Disposing, ~Disposing',
         \A v \in Tasks : pc'[v] = "off" <=> pc[v] = "off",
         \A v \in Tasks : state[v] = "WAITING" => ret'[v] = ret[v],
         state[TCBRunning] = "WAITING" => ~PendSV
  PROVE  ListInv' /\ WakesOne
<1>1. CASE eventTCBList[e] = <<>>
  <2>1. UNCHANGED <<state, TCBRdy, TaskSchedReq, delayVars, eventID, eventTCBList>>
    BY <1>1 DEF PostBody, listVars
  <2> QED BY <2>1, ListsKept DEF WakesOne
<1>2. CASE eventTCBList[e] # <<>>
  <2>1. eventTCBList[e] \in Seq(Tasks) /\ IsInjective(eventTCBList[e]) BY ListsNow DEF EventTypes, WaitInv
  <2>2. PICK w \in Tasks : w = Head(eventTCBList[e]) BY <1>2, <2>1, HeadTailType
  <2>3. Contains(eventTCBList[e], w) BY <1>2, <2>1, <2>2, HeadTailItems
  <2>4. eventID[w] = e /\ state[w] = "WAITING" /\ pc[w] # "off" /\ ~Contains(TCBRdy, w)
    BY <2>3, ListsNow, ContextAssumption DEF WaitInv, PoolInv, ReadyInv
  <2>5. /\ eventTCBList' = [eventTCBList EXCEPT ![e] = Tail(@)]
        /\ eventID' = [eventID EXCEPT ![w] = NULL]
        /\ IF delay[w] # INVALID_VALUE THEN RemoveDelayList(w) ELSE UNCHANGED delayVars
        /\ IF w = TCBRunning
           THEN state' = [state EXCEPT ![w] = "RUNNING"] /\ UNCHANGED <<TCBRdy, TaskSchedReq>>
           ELSE InsertToTCBRdyList(w)
    BY <1>2, <2>2 DEF PostBody
  <2>6. PICK s \in {"READY", "RUNNING"} :
          /\ state' = [state EXCEPT ![w] = s]
          /\ s = "RUNNING" => w = TCBRunning /\ UNCHANGED TCBRdy
          /\ s = "READY" => TCBRdy' = InsertBy(TCBRdy, prio, w)
    BY <2>5 DEF InsertToTCBRdyList
  <2>7. state'[w] = s /\ \A v \in Tasks \ {w} : state'[v] = state[v] BY <2>6, ListsNow
  <2>8. WakesOne
    <3>1. TaskSchedReq => TaskSchedReq' BY <2>5 DEF InsertToTCBRdyList
    <3>2. s \in States BY DEF States
    <3> QED BY <2>4, <2>6, <3>1, <3>2 DEF WakesOne, Wakes
  <2>9. ReadyInv'
    <3>1. \A v \in Tasks \ {w} : Ready(v)' <=> Ready(v) BY <2>7 DEF Ready
    <3>2. CASE s = "READY"
      <4>1. Ready(w)' BY <2>4, <2>7, <3>2 DEF Ready
      <4> QED BY <2>4, <2>6, <3>1, <3>2, <4>1, ListsNow, ReadyJoins
    <3>3. CASE s = "RUNNING"
      <4>1. ~Ready(w)' /\ ~Ready(w) BY <2>4, <2>7, <3>3 DEF Ready
      <4> QED BY <2>6, <3>1, <3>3, <4>1, ListsNow, ReadyStays
    <3> QED BY <3>2, <3>3
  <2>10. DelayInv'
    <3>1. \A v \in Tasks \ {w} : Contains(DlyList, v) => state'[v] = "WAITING"
      BY <2>7, ListsNow DEF DelayInv
    <3>4. StaySpoilt(Tasks)
      <4>1. eventID'[w] = NULL /\ \A v \in Tasks \ {w} : eventID'[v] = eventID[v]
        BY <2>5, ListsNow DEF EventTypes
      <4>2. state'[w] # "WAITING" BY <2>7
      <4> QED BY <2>7, <4>1, <4>2, SpoiltStays
    <3>2. CASE delay[w] # INVALID_VALUE
      <4>1. Contains(DlyList, w) BY <2>4, <3>2, ListsNow, ContextAssumption DEF DelayInv, Spoilt
      <4> QED BY <2>5, <3>1, <3>2, <3>4, <4>1, ListsNow, DelayLeaves DEF StaySpoilt
    <3>3. CASE delay[w] = INVALID_VALUE
      <4>1. ~Contains(DlyList, w) BY <3>3, ListsNow DEF DelayInv
      <4>2. \A v \in Tasks : Contains(DlyList, v) => state'[v] = "WAITING" BY <3>1, <4>1
      <4> QED BY <2>5, <3>3, <3>4, <4>2, ListsNow, DelayKept DEF delayVars
    <3> QED BY <3>2, <3>3
  <2>11. WaitInv'
    <3>1. \A v \in Tasks \ {w} : eventID[v] # NULL => state'[v] = "WAITING"
      BY <2>7, ListsNow DEF WaitInv
    <3> QED BY <2>2, <2>4, <2>5, <3>1, ListsNow, WaitLeaves
  <2> QED BY <2>8, <2>9, <2>10, <2>11 DEF ListInv
<1> QED BY <1>1, <1>2

\* What waking a task leaves as it was.
LEMMA WakesNone ==
  ASSUME KernelInv, WakesOne
  PROVE  /\ \A v \in Tasks : state[v] # "WAITING" => state'[v] = state[v]
         /\ \A v \in Tasks : state[v] = "DORMANT" \/ pc[v] = "off" => state'[v] = state[v]
         /\ state'[Idle] \in {"READY", "RUNNING"}
<1>1. \A v \in Tasks : state[v] # "WAITING" => state'[v] = state[v]
  BY ListsNow DEF WakesOne, Wakes
<1> QED BY <1>1, ListsNow, ContextAssumption DEF PoolInv, CpuInv

LEMMA TaskPostKeeps ==
  ASSUME KernelInv, Disciplined, NEW t \in Tasks, PostSem(t) \/ PostMail(t)
  PROVE  OrderInv'
<1>1. Runs(t) /\ pc[t] \in {"postsem", "postmail"} BY RunsInCall DEF PostSem, PostMail, UnlockLabels
<1>2. Fits(pc[t], arg[t]) BY <1>1, ArgAt DEF PostSem, PostMail, At, KernelInv, TypeOK, UnlockLabels
<1>3. PICK e \in Events : e = arg[t].on BY <1>1, <1>2 DEF Fits, EventArgLabels
<1>4. pc[t] = "postmail" => ~Contains(FreeEventList, e)
  BY <1>3, ListsNow DEF BoxInv
<1>5. PICK n, mail : PostBody(e, n, mail)
  BY <1>1, <1>3, <1>4 DEF PostSem, PostMail, At, PostSemBody, PostMailBody
<1>6. LockedSection(t, "app") /\ UNCHANGED <<runVars, FreeTCB, ecb, FreeEventList, arg>>
  BY <1>1, <1>3, <1>4 DEF PostSem, PostMail, At, poolVars
<1>7. OnlyMoves(t, "app") BY <1>1, <1>6, SectionControl DEF Returns
<1>8. ListInv' /\ WakesOne
  BY <1>1, <1>5, <1>7, OffKept, PostKeeps, TaskAlone, TaskFree DEF OnlyMoves
<1>9. /\ \A u \in Tasks : state[u] = "DORMANT" \/ pc[u] = "off" => state'[u] = state[u]
      /\ state'[Idle] \in {"READY", "RUNNING"} /\ state'[t] = "RUNNING"
  BY <1>1, <1>8, WakesNone, TaskFree
<1>10. \A u \in Tasks \ {t} : state'[u] # "RUNNING"
  <2>1. state[t] = "RUNNING" /\ t = TCBRunning /\ \A u \in Tasks \ {t} : state[u] # "RUNNING"
    BY <1>1, TaskAlone, TaskFree
  <2> QED BY <1>8, <2>1, ListsNow DEF WakesOne, Wakes
<1> QED BY <1>1, <1>6, <1>8, <1>9, <1>10, SectionKeeps DEF Returns

LEMMA CpuWakes ==
  ASSUME KernelInv, WakesOne, UNCHANGED runVars,
         pc[TCBRunning] \in UnlockLabels => pc'[TCBRunning] \in UnlockLabels,
         pc[TCBRunning] = "clear" => pc'[TCBRunning] = "clear",
         OSSchedLock = 1 => OSSchedLock' = 1, HandlerLocks' => HandlerLocks \/ OSSchedLock = 0
  PROVE  CpuInv'
<1>1. state'[Idle] \in {"READY", "RUNNING"} BY WakesNone
<1>2. CpuInv /\ runVars' = runVars /\ TCBRunning \in Tasks /\ TCBNext \in Tasks /\ state \in [Tasks -> States]
  BY DEF KernelInv, OrderInv, TypeOK, RunTypes, ListTypes
<1>3. CASE state' = state BY <1>2, <1>3 DEF CpuInv, WakesOne, runVars
<1>4. ASSUME NEW w \in Tasks, NEW s \in States, Wakes(w, s) PROVE CpuInv'
  <2>1. state'[w] = s /\ \A v \in Tasks \ {w} : state'[v] = state[v] BY <1>2, <1>4 DEF Wakes
  <2>2. \A v \in Tasks : state[v] = "RUNNING" => state'[v] = "RUNNING" BY <1>4, <2>1 DEF Wakes
  <2>3. ASSUME NEW v \in Tasks, state'[v] = "RUNNING" PROVE v = TCBNext'
    BY <1>2, <1>4, <2>1, <2>3 DEF CpuInv, Wakes, runVars
  <2>4. state'[TCBRunning] \notin {"RUNNING", "READY"} => state[TCBRunning] \notin {"RUNNING", "READY"}
    BY <1>2, <1>4, <2>1 DEF Wakes
  <2> QED BY <1>1, <1>2, <2>2, <2>3, <2>4 DEF CpuInv, runVars, WakesOne
<1> QED BY <1>3, <1>4 DEF WakesOne

---------------------------------------------------------------------------
(* Inside OsSchedUnlock *)

\* The context that is in its unlock is alone in it.
LEMMA Serving ==
  ASSUME KernelInv, NEW c \in Contexts, pc[c] \in UnlockLabels, OnCPU(c)
  PROVE  /\ Locking(c) /\ OSSchedLock = 1 /\ \A d \in Contexts \ {c} : ~Locking(d)
         /\ Disposing <=> pc[c] \in {"unlink", "tickunlink"}
         /\ c \in Tasks => c = TCBRunning /\ ~PendSV
         /\ c \notin Tasks => HandlerLocks
         /\ state[TCBRunning] = "WAITING" => ~PendSV
<1>1. LockInv /\ CpuInv /\ ControlInv BY DEF KernelInv, OrderInv
<1>2. Locking(c) BY DEF Locking, LockLabels
<1>3. OSSchedLock = 1 /\ \A d \in Contexts \ {c} : ~Locking(d)
  BY <1>1, <1>2, HolderAlone DEF ControlInv
<1>4. Disposing <=> pc[c] \in {"unlink", "tickunlink"}
  BY <1>3 DEF Disposing, Locking, LockLabels, UnlockLabels
<1>5. c \in Tasks => c = TCBRunning /\ ~PendSV BY <1>1, CpuAlone
<1>6. c \notin Tasks => HandlerLocks BY <1>2 DEF HandlerLocks, Contexts
<1>7. state[TCBRunning] = "WAITING" => ~PendSV
  BY <1>1, <1>5, <1>6 DEF CpuInv
<1> QED BY <1>2, <1>3, <1>4, <1>5, <1>6, <1>7

\* While one is, nobody manages a task and nobody is about to go to sleep but
\* below a handler.
LEMMA ManageInside ==
  ASSUME KernelInv, NEW c \in Contexts, pc[c] \in UnlockLabels, OnCPU(c),
         UNCHANGED <<arg, TCBRunning>>, \A d \in Contexts \ {c} : pc'[d] = pc[d],
         pc'[c] \in UnlockLabels \cup {"clear"}
  PROVE  ManageInv'
<1>1. /\ Locking(c) /\ OSSchedLock = 1 /\ (c \in Tasks => c = TCBRunning) /\ (c \notin Tasks => HandlerLocks)
      /\ ManageInv /\ OneWriter
  BY Serving DEF KernelInv, OrderInv, LockInv
<1>2. c \notin Tasks => HandlerLocks'
  BY ContextAssumption DEF HandlerLocks, Locking, LockLabels, Contexts
<1>3. ASSUME NEW u \in Tasks PROVE Managed(u)'
  <2>1. CASE u = c BY <2>1 DEF Managed, Managing, SleepsAt, UnlockLabels
  <2>2. CASE u # c
    <3>1. pc'[u] = pc[u] /\ arg'[u] = arg[u] /\ (SleepsAt(u)' <=> SleepsAt(u)) /\ Managed(u)
      BY <1>1, <2>2 DEF SleepsAt, Contexts, ManageInv
    <3>2. ~(pc[u] \in Managing /\ ~SleepsAt(u))
      BY <1>1, <2>2, <3>1 DEF Managed, Undisturbed
    <3>3. u = TCBRunning' => ~Undisturbed'
      BY <1>1, <1>2, <2>2 DEF Undisturbed
    <3> QED BY <3>1, <3>2, <3>3 DEF Managed
  <2> QED BY <2>1, <2>2
<1> QED BY <1>3 DEF ManageInv

LEMMA InsideKeeps ==
  ASSUME KernelInv, NEW c \in Contexts, pc[c] \in UnlockLabels, OnCPU(c),
         pc'[c] \in UnlockLabels, \A d \in Contexts \ {c} : pc'[d] = pc[d],
         UNCHANGED <<OSSchedLock, ret, runVars, arg, FreeTCB, ecb, FreeEventList>>, WakesOne, ListInv'
  PROVE  OrderInv'
<1>1. ControlInv /\ PoolInv /\ BoxInv /\ CallTypes BY DEF KernelInv, OrderInv, TypeOK
<1>2. \A d \in Contexts : Locking(d)' <=> Locking(d) BY DEF Locking, LockLabels
<1>3. \A v \in Tasks : pc'[v] = "off" <=> pc[v] = "off" BY DEF UnlockLabels, Contexts
<1>4. ControlInv'
  <2>1. \A v \in Tasks : ret'[v] \in Returns /\ pc'[v] \notin NeverAt
    BY <1>1 DEF ControlInv, Contexts, UnlockLabels, NeverAt
  <2>2. pc'[Idle] \in UnlockLabels \cup {"clear", "app"} /\ ret'[Idle] = "app"
    BY <1>1, ContextAssumption DEF ControlInv, Contexts
  <2> QED BY <1>1, <1>2, <2>1, <2>2 DEF ControlInv
<1>5. PoolInv'
  <2>1. \A v \in Tasks : Creating(v)' => Creating(v) /\ arg'[v] = arg[v]
    BY DEF Creating, After, Contexts
  <2>2. \A v \in Tasks : state[v] = "DORMANT" \/ pc[v] = "off" => state'[v] = state[v] BY WakesNone
  <2> QED BY <1>1, <1>3, <2>1, <2>2, PoolKept, CreatesTask
<1>6. BoxInv'
  <2>1. \A v \in Tasks : pc'[v] = "postmail" => pc[v] = "postmail" /\ arg'[v] = arg[v]
    BY DEF UnlockLabels, Contexts
  <2> QED BY <1>1, <2>1, BoxKept
<1>7. ManageInv' BY ManageInside DEF runVars
<1>8. CpuInv'
  <2>1. HandlerLocks' => HandlerLocks BY <1>2 DEF HandlerLocks, Contexts
  <2>2. /\ pc[TCBRunning] \in UnlockLabels => pc'[TCBRunning] \in UnlockLabels
        /\ pc[TCBRunning] = "clear" => pc'[TCBRunning] = "clear"
    BY DEF Contexts, KernelInv, TypeOK, RunTypes, UnlockLabels
  <2> QED BY <2>1, <2>2, CpuWakes
<1> QED BY <1>4, <1>5, <1>6, <1>7, <1>8 DEF OrderInv

\* The steps that only move on, or clear a flag of the requests.
LEMMA UnlockMovesKeep ==
  ASSUME KernelInv, NEW c \in Contexts,
         BeginUnlock(c) \/ EndDispose(c) \/ ClearTimeReq(c) \/ EndCells(c) \/ ClearIsrReq(c)
  PROVE  OrderInv'
<1>1. /\ pc[c] \in UnlockLabels /\ OnCPU(c) /\ pc[c] \notin {"unlink", "tickunlink"}
      /\ UNCHANGED <<listVars, delayVars, eventVars, poolVars, runVars, arg, OSSchedLock, ret>>
  BY DEF BeginUnlock, EndDispose, ClearTimeReq, EndCells, ClearIsrReq, At, UnlockLabels, callVars
<1>2. PICK label \in UnlockLabels \ {"unlink", "tickunlink"} : Goto(c, label)
  BY DEF BeginUnlock, EndDispose, ClearTimeReq, EndCells, ClearIsrReq, UnlockLabels
<1>3. DOMAIN pc = Contexts BY DEF KernelInv, LockInv
<1>4. pc'[c] = label /\ \A d \in Contexts \ {c} : pc'[d] = pc[d] BY <1>2, <1>3 DEF Goto
<1>5. UNCHANGED <<state, TCBRdy, TaskSchedReq, delayVars, eventID, eventTCBList, FreeTCB, ecb, FreeEventList>>
  BY <1>1 DEF listVars, eventVars, poolVars
<1>6. ListInv'
  <2>1. ~Disposing BY <1>1, Serving
  <2>2. ~Disposing' BY <1>1, <1>4, Serving DEF Disposing, Locking, LockLabels, UnlockLabels
  <2>3. \A v \in Tasks : pc'[v] = "off" <=> pc[v] = "off" BY <1>1, <1>4 DEF UnlockLabels, Contexts
  <2> QED BY <1>1, <1>5, <2>1, <2>2, <2>3, ListsKept
<1>7. WakesOne BY <1>5 DEF WakesOne
<1> QED BY <1>1, <1>4, <1>5, <1>6, <1>7, InsideKeeps

\* A request that an interrupt left while the lock was held.
LEMMA RespondCellKeeps ==
  ASSUME KernelInv, NEW c \in Contexts, RespondCell(c)
  PROVE  OrderInv'
<1>1. /\ pc[c] = "cells" /\ pc[c] \in UnlockLabels /\ OnCPU(c)
      /\ UNCHANGED <<FreeTCB, ecb, FreeEventList, runVars, arg, OSSchedLock, pc, ret>>
  BY DEF RespondCell, At, UnlockLabels, callVars, poolVars
<1>2. ~Disposing /\ ~Disposing'
  <2>1. ~Disposing BY <1>1, Serving
  <2> QED BY <1>1, <2>1 DEF Disposing
<1>3. ListInv' /\ WakesOne
  <2>1. CASE NothingPosted
    <3>1. UNCHANGED <<state, TCBRdy, TaskSchedReq, delayVars, eventID, eventTCBList>>
      BY <2>1 DEF NothingPosted, listVars, eventVars
    <3> QED BY <1>1, <1>2, <3>1, ListsKept DEF WakesOne
  <2>2. CASE ~NothingPosted
    <3>1. Head(ServiceReq) \in Requests
      BY HeadTailType DEF RespondCell, KernelInv, TypeOK, ReqTypes
    <3>2. PICK e \in Events : \E n, mail : PostBody(e, n, mail)
      BY <2>2, <3>1 DEF RespondCell, PostSemBody, PostMailBody, Requests
    <3> QED BY <1>1, <1>2, <3>2, Serving, PostKeeps
  <2> QED BY <2>1, <2>2
<1> QED BY <1>1, <1>3, InsideKeeps

\* TimeDispose in its two steps: the head's delay is marked and the task leaves
\* its event; then it leaves the delay list and is ready.
LEMMA DisposeHeadKeeps ==
  ASSUME KernelInv, NEW c \in Contexts, DisposeHead(c)
  PROVE  OrderInv'
<1>1. /\ pc[c] \in {"dispose", "tickdispose"} /\ pc[c] \in UnlockLabels /\ OnCPU(c)
      /\ DlyList # <<>> /\ delay[Head(DlyList)] = 0
      /\ UNCHANGED <<FreeTCB, ecb, FreeEventList, runVars, arg, OSSchedLock, ret>>
      /\ UNCHANGED <<state, TCBRdy, TaskSchedReq, DlyList>>
  BY DEF DisposeHead, Expired, At, UnlockLabels, callVars, poolVars, listVars
<1>2. PICK h \in Tasks : h = Head(DlyList) BY <1>1, HeadTailType, ListsNow DEF DelayTypes
<1>3. /\ delay' = [delay EXCEPT ![h] = INVALID_VALUE]
      /\ IF eventID[h] # NULL THEN RemoveEventWaittingList(h) ELSE UNCHANGED <<eventID, eventTCBList>>
  BY <1>2 DEF DisposeHead
<1>4. PICK label \in {"unlink", "tickunlink"} : Goto(c, label) BY DEF DisposeHead
<1>5. pc'[c] = label /\ pc'[c] \in UnlockLabels /\ \A d \in Contexts \ {c} : pc'[d] = pc[d]
  BY <1>4 DEF Goto, KernelInv, LockInv, UnlockLabels
<1>6. ~Disposing /\ Disposing' BY <1>1, <1>5, Serving DEF Disposing
<1>7. /\ IsInjective(DlyList) /\ DlyList \in Seq(Tasks) /\ InOrder(DlyList, delay) /\ delay \in [Tasks -> Int]
      /\ Contains(DlyList, h) /\ Tail(DlyList) \in Seq(Tasks)
      /\ \A x : Contains(Tail(DlyList), x) <=> Contains(DlyList, x) /\ x # h
  BY <1>1, <1>2, <1>6, ListsNow, HeadTailItems, HeadTailType DEF DelayInv, DelayTypes
<1>8. ReadyInv'
  <2>1. \A v \in Tasks : pc'[v] = "off" <=> pc[v] = "off" BY <1>1, <1>5 DEF UnlockLabels, Contexts
  <2> QED BY <1>1, <2>1, ListsNow, ReadyStays DEF Ready
<1>9. eventID'[h] = NULL
  BY <1>3, ListsNow DEF RemoveEventWaittingList, EventTypes
<1>10. DelayInv'
  <2>1. delay'[h] = INVALID_VALUE /\ \A v \in Tasks \ {h} : delay'[v] = delay[v] BY <1>3, <1>7
  <2>2. InOrder(Tail(DlyList), delay')
    <3>1. InOrder(Tail(DlyList), delay) BY <1>1, <1>7, TailOrder, DelaysKeyed
    <3> QED BY <1>3, <1>7, <3>1, OrderWithout
  <2>3. INVALID_VALUE \in 0 .. INVALID_VALUE /\ 0 # INVALID_VALUE BY ConfigAssumption
  <2>4. \A v \in Tasks \ {h} : eventID'[v] = eventID[v]
    BY <1>3, ListsNow DEF RemoveEventWaittingList, EventTypes
  <2>5. StaySpoilt(Tasks) BY <1>1, <1>9, <2>4, SpoiltStays
  <2> QED BY <1>1, <1>2, <1>6, <1>7, <1>9, <2>1, <2>2, <2>3, <2>5, ListsNow DEF DelayInv, StaySpoilt
<1>11. WaitInv'
  <2>1. \A v \in Tasks : eventID[v] # NULL => state'[v] = "WAITING" BY <1>1, ListsNow DEF WaitInv
  <2>2. CASE eventID[h] # NULL
    <3>1. PICK e \in Events : e = eventID[h] BY <2>2, ListsNow DEF EventTypes
    <3>2. /\ eventTCBList' = [eventTCBList EXCEPT ![e] = Unlink(@, h)]
          /\ eventID' = [eventID EXCEPT ![h] = NULL]
      BY <1>3, <2>2, <3>1 DEF RemoveEventWaittingList
    <3> QED BY <2>1, <3>1, <3>2, ListsNow, WaitLeaves
  <2>3. CASE eventID[h] = NULL BY <1>3, <2>1, <2>3, ListsNow, WaitKept
  <2> QED BY <2>2, <2>3
<1>12. WakesOne BY <1>1 DEF WakesOne
<1> QED BY <1>1, <1>5, <1>8, <1>10, <1>11, <1>12, InsideKeeps DEF ListInv

LEMMA UnlinkHeadKeeps ==
  ASSUME KernelInv, NEW c \in Contexts, UnlinkHead(c)
  PROVE  OrderInv'
<1>1. /\ pc[c] \in {"unlink", "tickunlink"} /\ pc[c] \in UnlockLabels /\ OnCPU(c)
      /\ UNCHANGED <<FreeTCB, ecb, FreeEventList, runVars, arg, OSSchedLock, ret, delay, eventID, eventTCBList>>
  BY DEF UnlinkHead, At, UnlockLabels, callVars, poolVars, eventVars
<1>2. PICK label \in {"dispose", "tickdispose"} : Goto(c, label) BY DEF UnlinkHead
<1>3. pc'[c] = label /\ pc'[c] \in UnlockLabels /\ \A d \in Contexts \ {c} : pc'[d] = pc[d]
  BY <1>2 DEF Goto, KernelInv, LockInv, UnlockLabels
<1>4. Disposing /\ ~Disposing'
  <2>1. Disposing BY <1>1 DEF Disposing
  <2>2. \A d \in Contexts \ {c} : pc[d] \notin {"unlink", "tickunlink"}
    BY <1>1, Serving DEF Locking, LockLabels, UnlockLabels
  <2> QED BY <1>3, <2>1, <2>2 DEF Disposing
<1>5. DlyList # <<>> /\ DlyList \in Seq(Tasks) /\ IsInjective(DlyList)
  BY <1>4, ListsNow DEF DelayInv, DelayTypes
<1>6. PICK h \in Tasks : h = Head(DlyList) BY <1>5, HeadTailType
<1>7. /\ state[h] = "WAITING" /\ eventID[h] = NULL /\ ~Contains(TCBRdy, h) /\ pc[h] # "off"
      /\ \A x : Contains(Tail(DlyList), x) <=> Contains(DlyList, x) /\ x # h
      /\ IsInjective(Tail(DlyList))
  BY <1>4, <1>5, <1>6, HeadTailItems, ListsNow DEF DelayInv, ReadyInv, PoolInv
<1>8. DlyList' = Tail(DlyList) /\ InsertToTCBRdyList(h) BY <1>6 DEF UnlinkHead
<1>9. state'[h] = "READY" /\ \A v \in Tasks \ {h} : state'[v] = state[v]
  BY <1>8, ListsNow DEF InsertToTCBRdyList
<1>10. \A v \in Tasks : pc'[v] = "off" <=> pc[v] = "off" BY <1>1, <1>3 DEF UnlockLabels, Contexts
<1>11. ReadyInv'
  <2>1. Ready(h)' /\ \A v \in Tasks \ {h} : Ready(v)' <=> Ready(v) BY <1>7, <1>9, <1>10 DEF Ready
  <2>2. TCBRdy' = InsertBy(TCBRdy, prio, h) BY <1>8 DEF InsertToTCBRdyList
  <2> QED BY <1>7, <2>1, <2>2, ListsNow, ReadyJoins
<1>12. DelayInv'
  <2>1. \A v \in Tasks : Contains(DlyList', v) => state'[v] = "WAITING"
    BY <1>7, <1>8, <1>9, ListsNow DEF DelayInv
  <2>2. StaySpoilt(Tasks) BY <1>1, <1>9, SpoiltStays
  <2>3. delay[h] # INVALID_VALUE => Spoilt(h)' BY <1>4, <1>6, <1>9, ListsNow DEF DelayInv, Spoilt
  <2> QED BY <1>1, <1>4, <1>6, <1>7, <1>8, <2>1, <2>2, <2>3, ListsNow DEF DelayInv, StaySpoilt
<1>13. WaitInv'
  <2>1. \A v \in Tasks : eventID[v] # NULL => state'[v] = "WAITING" BY <1>7, <1>9, ListsNow DEF WaitInv
  <2> QED BY <1>1, <2>1, ListsNow, WaitKept
<1>14. WakesOne
  <2>1. Wakes(h, "READY") BY <1>7, <1>8 DEF Wakes, InsertToTCBRdyList
  <2>2. TaskSchedReq => TaskSchedReq' BY <1>8 DEF InsertToTCBRdyList
  <2> QED BY <2>1, <2>2 DEF WakesOne, States
<1> QED BY <1>1, <1>3, <1>11, <1>12, <1>13, <1>14, InsideKeeps DEF ListInv

\* Schedule() at the end of an unlock or of an interrupt: a task that is not
\* RUNNING any more gives the CPU away, for idle at least is ready.
LEMMA ScheduleKeeps ==
  ASSUME KernelInv, NEW level \in Int, NEW nesting \in Int,
         IF TaskSchedReq THEN Schedule(level, nesting) ELSE UNCHANGED <<listVars, TCBNext, PendSV>>,
         UNCHANGED TCBRunning, \A v \in Tasks : pc'[v] = "off" <=> pc[v] = "off",
         state[TCBRunning] # "RUNNING" /\ ~PendSV =>
           level <= 1 /\ nesting <= 0 /\ pc'[TCBRunning] = "clear" /\ OSSchedLock' = 1 /\ ~HandlerLocks',
         PendSV /\ state[TCBRunning] \notin {"RUNNING", "READY"} =>
           pc'[TCBRunning] = "clear" /\ OSSchedLock' = 1 /\ ~HandlerLocks'
  PROVE  /\ CpuInv' /\ ReadyInv'
         /\ \A v \in Tasks : state[v] \in {"WAITING", "DORMANT"} \/ pc[v] = "off" => state'[v] = state[v]
         /\ \A v \in Tasks : state'[v] = "WAITING" => state[v] = "WAITING"
<1>1. /\ CpuInv /\ ReadyInv /\ PoolInv /\ TCBRdy \in Seq(Tasks) /\ state \in [Tasks -> States]
      /\ TCBRunning \in Tasks /\ TCBNext \in Tasks /\ PendSV \in BOOLEAN /\ IsInjective(TCBRdy) /\ ControlInv
  BY ListsNow DEF KernelInv, OrderInv, TypeOK, RunTypes, ReadyInv
<1>2. CASE UNCHANGED <<state, TCBRdy, TCBNext, PendSV>> /\ (state[TCBRunning] = "RUNNING" \/ PendSV)
  <2>1. ReadyInv' BY <1>1, <1>2, ReadyStays DEF Ready
  <2>2. CpuInv' BY <1>1, <1>2 DEF CpuInv
  <2> QED BY <1>2, <2>1, <2>2
<1>3. CASE ~(UNCHANGED <<state, TCBRdy, TCBNext, PendSV>> /\ (state[TCBRunning] = "RUNNING" \/ PendSV))
  <2>1. TaskSchedReq
    <3>1. ~TaskSchedReq => UNCHANGED <<state, TCBRdy, TCBNext, PendSV>> BY DEF listVars
    <3> QED BY <1>1, <1>3, <3>1 DEF CpuInv
  <2>2. TCBRdy # <<>> /\ TCBRunning = TCBNext /\ level <= 1 /\ nesting <= 0
    <3>1. CASE state[TCBRunning] # "RUNNING" /\ ~PendSV
      <4>1. TCBRunning = TCBNext BY <1>1, <3>1 DEF CpuInv
      <4>2. state[Idle] = "READY" BY <1>1, <3>1, <4>1, ContextAssumption DEF CpuInv
      <4>3. pc[Idle] # "off" BY <1>1 DEF ControlInv, UnlockLabels
      <4> QED BY <1>1, <3>1, <4>1, <4>2, <4>3, EmptyList, ContextAssumption DEF ReadyInv
    <3>2. CASE ~(state[TCBRunning] # "RUNNING" /\ ~PendSV)
      <4>1. ~UNCHANGED <<listVars, TCBNext, PendSV>> BY <1>1, <1>3, <3>2 DEF listVars
      <4>2. ~(TCBRdy = <<>> \/ TCBRunning # TCBNext \/ level > 1 \/ nesting > 0)
        BY <2>1, <4>1 DEF Schedule
      <4> QED BY <4>2
    <3> QED BY <3>1, <3>2
  <2>3. PICK rdy \in Tasks : rdy = Head(TCBRdy) BY <1>1, <2>2, HeadTailType
  <2>4. Contains(TCBRdy, rdy) BY <1>1, <2>2, <2>3, HeadTailItems
  <2>5. state[rdy] = "READY" /\ pc[rdy] # "off" BY <1>1, <2>4 DEF ReadyInv
  <2>6. CASE /\ state[TCBRunning] # "RUNNING" /\ state' = [state EXCEPT ![rdy] = "RUNNING"]
             /\ TCBRdy' = Tail(TCBRdy) /\ TCBNext' = rdy /\ PendSV' = TRUE
    <3>1. state'[rdy] = "RUNNING" /\ \A v \in Tasks \ {rdy} : state'[v] = state[v] BY <1>1, <2>6
    <3>2. ReadyInv'
      <4>1. ~Ready(rdy)' /\ \A v \in Tasks \ {rdy} : Ready(v)' <=> Ready(v) BY <3>1 DEF Ready
      <4> QED BY <1>1, <2>3, <2>4, <2>6, <4>1, ReadyLeaves
    <3>3. ~PendSV BY <1>1, <2>2, <2>6 DEF CpuInv
    <3>4. CpuInv' BY <1>1, <2>2, <2>6, <3>1, <3>3, ContextAssumption DEF CpuInv
    <3> QED BY <2>5, <3>1, <3>2, <3>4
  <2>7. CASE /\ state[TCBRunning] = "RUNNING"
             /\ state' = [state EXCEPT ![TCBRunning] = "READY", ![rdy] = "RUNNING"]
             /\ TCBRdy' = Unlink(InsertBy(TCBRdy, prio, TCBRunning), rdy) /\ TCBNext' = rdy /\ PendSV' = TRUE
    <3>1. rdy # TCBRunning /\ pc[TCBRunning] # "off" /\ ~Contains(TCBRdy, TCBRunning)
      BY <1>1, <2>5, <2>7 DEF PoolInv, ReadyInv
    <3>2. /\ state'[rdy] = "RUNNING" /\ state'[TCBRunning] = "READY"
          /\ \A v \in Tasks \ {rdy, TCBRunning} : state'[v] = state[v]
      BY <1>1, <2>7, <3>1
    <3>3. ReadyInv'
      <4>1. PICK list \in Seq(Tasks) : list = InsertBy(TCBRdy, prio, TCBRunning) BY <1>1, InsertByType
      <4>2. IsInjective(list) /\ \A x : Contains(list, x) <=> Contains(TCBRdy, x) \/ x = TCBRunning
        BY <1>1, <3>1, <4>1, InsertByItems
      <4>3. TCBRdy' = Unlink(list, rdy) BY <2>7, <4>1
      <4>4. IsInjective(TCBRdy') /\ \A x : Contains(TCBRdy', x) <=> Contains(list, x) /\ x # rdy
        BY <2>4, <4>2, <4>3, UnlinkItems
      <4> QED BY <1>1, <3>1, <3>2, <4>2, <4>4 DEF ReadyInv
    <3>4. CpuInv' BY <1>1, <2>2, <2>7, <3>2, ContextAssumption DEF CpuInv
    <3> QED BY <2>5, <2>7, <3>1, <3>2, <3>3, <3>4
  <2>8. CASE state[TCBRunning] = "RUNNING" /\ UNCHANGED <<state, TCBRdy, TCBNext, PendSV>>
    BY <1>3, <2>8
  <2>9. ~(TCBRdy = <<>> \/ TCBRunning # TCBNext \/ level > 1 \/ nesting > 0) BY <2>2
  <2>10. \/ /\ state[TCBRunning] # "RUNNING" /\ state' = [state EXCEPT ![rdy] = "RUNNING"]
            /\ TCBRdy' = Tail(TCBRdy) /\ TCBNext' = rdy /\ PendSV' = TRUE
         \/ /\ state[TCBRunning] = "RUNNING"
            /\ state' = [state EXCEPT ![TCBRunning] = "READY", ![rdy] = "RUNNING"]
            /\ TCBRdy' = Unlink(InsertBy(TCBRdy, prio, TCBRunning), rdy) /\ TCBNext' = rdy /\ PendSV' = TRUE
         \/ state[TCBRunning] = "RUNNING" /\ UNCHANGED <<state, TCBRdy, TCBNext, PendSV>>
    BY <2>1, <2>3, <2>9 DEF Schedule
  <2> QED BY <2>6, <2>7, <2>8, <2>10
<1> QED BY <1>2, <1>3

\* What Schedule leaves: no task that waits, sleeps or is dead is touched.
LEMMA SchedulePool ==
  ASSUME KernelInv, ReadyInv', ~Disposing, ~Disposing',
         UNCHANGED <<delayVars, eventID, eventTCBList, FreeTCB, ecb, FreeEventList, arg>>,
         \A v \in Tasks : pc'[v] = "off" <=> pc[v] = "off",
         \A v \in Tasks : pc'[v] = "postmail" => pc[v] = "postmail",
         \A v \in Tasks : Creating(v)' => Creating(v), \A v \in Tasks : ret'[v] = ret[v],
         \A v \in Tasks : state[v] \in {"WAITING", "DORMANT"} \/ pc[v] = "off" => state'[v] = state[v],
         \A v \in Tasks : state'[v] = "WAITING" => state[v] = "WAITING"
  PROVE  ListInv' /\ PoolInv' /\ BoxInv'
<1>1. PoolInv' BY ListsNow, PoolKept, CreatesTask DEF KernelInv, TypeOK
<1>2. BoxInv' BY ListsNow, BoxKept
<1>3. DelayInv'
  <2>1. StaySpoilt(Tasks) BY SpoiltStays
  <2> QED BY <2>1, ListsNow, DelayKept DEF delayVars, DelayInv
<1>4. WaitInv' BY ListsNow, WaitKept DEF WaitInv
<1> QED BY <1>1, <1>2, <1>3, <1>4 DEF ListInv

LEMMA UnlockScheduleKeeps ==
  ASSUME KernelInv, NEW c \in Contexts, UnlockSchedule(c)
  PROVE  OrderInv'
<1>1. /\ pc[c] = "sched" /\ pc[c] \in UnlockLabels /\ OnCPU(c) /\ Goto(c, "clear")
      /\ UNCHANGED <<delayVars, eventID, eventTCBList, FreeTCB, ecb, FreeEventList, TCBRunning, arg,
                     OSSchedLock, ret>>
  BY DEF UnlockSchedule, At, UnlockLabels, poolVars, eventVars, callVars
<1>2. /\ Locking(c) /\ OSSchedLock = 1 /\ \A d \in Contexts \ {c} : ~Locking(d)
      /\ ~Disposing /\ (c \in Tasks => c = TCBRunning /\ ~PendSV) /\ (c \notin Tasks => HandlerLocks)
  BY <1>1, Serving
<1>3. pc'[c] = "clear" /\ \A d \in Contexts \ {c} : pc'[d] = pc[d]
  BY <1>1 DEF Goto, KernelInv, LockInv
<1>4. TCBRunning \in Tasks /\ CpuInv /\ ControlInv BY DEF KernelInv, OrderInv, TypeOK, RunTypes
<1>5. ~Disposing' BY <1>2, <1>3 DEF Disposing
<1>6. \A v \in Tasks : pc'[v] = "off" <=> pc[v] = "off" BY <1>1, <1>3 DEF Contexts
<1>7. /\ CpuInv' /\ ReadyInv'
      /\ \A v \in Tasks : state[v] \in {"WAITING", "DORMANT"} \/ pc[v] = "off" => state'[v] = state[v]
      /\ \A v \in Tasks : state'[v] = "WAITING" => state[v] = "WAITING"
  <2>1. CASE c \in Tasks
    <3>1. InHandler = 0 BY <1>1, <2>1, CpuAlone DEF InHandler, KernelInv
    <3>2. ~HandlerLocks'
      BY <1>2, <1>3, <2>1, ContextAssumption DEF HandlerLocks, Locking, LockLabels, UnlockLabels, Contexts
    <3> QED BY <1>1, <1>2, <1>3, <1>6, <2>1, <3>1, <3>2, ScheduleKeeps DEF UnlockSchedule
  <2>2. CASE c \notin Tasks
    <3>1. HandlerLocks /\ InHandler \in Int BY <1>2, <2>2 DEF InHandler
    <3>2. state[TCBRunning] # "RUNNING" => PendSV
      BY <1>2, <1>4, <2>2 DEF CpuInv, Locking, LockLabels, Contexts
    <3>3. ~(PendSV /\ state[TCBRunning] \notin {"RUNNING", "READY"}) BY <1>4, <3>1 DEF CpuInv
    <3> QED BY <1>1, <1>2, <1>6, <3>1, <3>2, <3>3, ScheduleKeeps DEF UnlockSchedule
  <2> QED BY <2>1, <2>2
<1>8. \A v \in Tasks : Creating(v)' => Creating(v)
  BY <1>1, <1>3 DEF Creating, After, Contexts
<1>9. \A v \in Tasks : pc'[v] = "postmail" => pc[v] = "postmail" BY <1>3 DEF Contexts
<1>10. ListInv' /\ PoolInv' /\ BoxInv' BY <1>1, <1>2, <1>5, <1>6, <1>7, <1>8, <1>9, SchedulePool
<1>11. ManageInv' BY <1>1, <1>3, ManageInside
<1>12. ControlInv'
  <2>1. \A v \in Tasks : ret'[v] \in Returns /\ pc'[v] \notin NeverAt
    BY <1>1, <1>3, <1>4 DEF ControlInv, Contexts, NeverAt
  <2>2. pc'[Idle] \in UnlockLabels \cup {"clear", "app"} /\ ret'[Idle] = "app"
    BY <1>1, <1>3, <1>4, ContextAssumption DEF ControlInv, Contexts
  <2> QED BY <1>1, <1>2, <2>1, <2>2 DEF ControlInv
<1> QED BY <1>7, <1>10, <1>11, <1>12 DEF OrderInv

LEMMA ClearLockKeeps ==
  ASSUME KernelInv, NEW c \in Contexts, ClearLock(c)
  PROVE  OrderInv'
<1>1. /\ pc[c] = "clear" /\ OnCPU(c) /\ OSSchedLock' = 0 /\ Goto(c, ret[c])
      /\ UNCHANGED <<state, TCBRdy, TaskSchedReq, delayVars, eventID, eventTCBList, FreeTCB, ecb, FreeEventList,
                     runVars, arg, ret>>
  BY DEF ClearLock, At, listVars, eventVars, poolVars, callVars
<1>2. /\ LockInv /\ ControlInv /\ CpuInv /\ PoolInv /\ BoxInv /\ ManageInv /\ TCBRunning \in Tasks
  BY DEF KernelInv, OrderInv, TypeOK, RunTypes
<1>3. pc'[c] = ret[c] /\ \A d \in Contexts \ {c} : pc'[d] = pc[d]
  BY <1>1, <1>2 DEF Goto, LockInv
<1>4. /\ \A d \in Contexts \ {c} : ~Locking(d)
      /\ c \in Tasks => c = TCBRunning /\ ~PendSV
      /\ c \notin Tasks => HandlerLocks
  <2>1. CASE c \in Tasks BY <1>1, <1>2, <2>1, CpuAlone
  <2>2. CASE c \notin Tasks
    <3>1. Locking(c) BY <1>1, <2>2 DEF Locking, Contexts
    <3> QED BY <1>2, <2>2, <3>1, HolderAlone DEF HandlerLocks, Contexts
  <2> QED BY <2>1, <2>2
<1>5. ret[c] \in Returns \cup {"off", "isrexit"} /\ (c \in Tasks => ret[c] \in Returns)
  BY <1>2 DEF ControlInv, LockInv, Contexts
<1>6. \A d \in Contexts : ~Locking(d)'
  BY <1>3, <1>4, <1>5 DEF Locking, LockLabels, UnlockLabels, Returns
<1>7. ~Disposing /\ ~Disposing'
  <2>1. \A d \in Contexts : pc[d] \notin {"unlink", "tickunlink"}
    BY <1>1, <1>4 DEF Locking, LockLabels, UnlockLabels
  <2> QED BY <1>6, <2>1 DEF Disposing, Locking, LockLabels, UnlockLabels
<1>8. \A v \in Tasks : pc'[v] = "off" <=> pc[v] = "off"
  BY <1>1, <1>3, <1>5 DEF Contexts, Returns
<1>9. ListInv' BY <1>1, <1>7, <1>8, ListsKept
<1>10. PoolInv'
  <2>1. \A v \in Tasks : Creating(v)' => Creating(v) /\ arg'[v] = arg[v]
    BY <1>1, <1>3, <1>5 DEF Creating, After, Contexts, Returns, UnlockLabels
  <2>2. CallTypes BY DEF KernelInv, TypeOK
  <2> QED BY <1>1, <1>2, <1>8, <2>1, <2>2, PoolKept, CreatesTask
<1>11. BoxInv'
  <2>1. \A v \in Tasks : pc'[v] = "postmail" => pc[v] = "postmail"
    BY <1>3, <1>5 DEF Contexts, Returns
  <2> QED BY <1>1, <1>2, <2>1, BoxKept
<1>12. ManageInv'
  <2>1. ASSUME NEW u \in Tasks PROVE Managed(u)'
    <3>1. CASE u = c
      <4>1. ret[u] = "delete" => arg[u].on = u
        BY <1>1, <3>1 DEF KernelInv, ExitInv, After, UnlockLabels
      <4> QED BY <1>1, <1>3, <1>5, <3>1, <4>1 DEF Managed, Managing, SleepsAt, Returns
    <3>2. CASE u # c
      <4>1. pc'[u] = pc[u] /\ arg'[u] = arg[u] /\ (SleepsAt(u)' <=> SleepsAt(u)) /\ Managed(u)
        BY <1>1, <1>2, <1>3, <3>2 DEF SleepsAt, Contexts, ManageInv
      <4>2. ~(pc[u] \in Managing /\ ~SleepsAt(u))
        BY <1>4, <3>2, <4>1 DEF Managed, Undisturbed
      <4> QED BY <1>1, <4>1, <4>2 DEF Managed
    <3> QED BY <3>1, <3>2
  <2> QED BY <2>1 DEF ManageInv
<1>13. CpuInv'
  <2>1. ~PendSV => state[TCBRunning] = "RUNNING"
    BY <1>1, <1>2, <1>4 DEF CpuInv, UnlockLabels, Contexts, Locking, LockLabels
  <2>2. PendSV => state[TCBRunning] \in {"RUNNING", "READY"}
    BY <1>2, <1>4 DEF CpuInv
  <2> QED BY <1>1, <1>2, <2>1, <2>2 DEF CpuInv, runVars
<1>14. ControlInv'
  <2>1. \A v \in Tasks : ret'[v] \in Returns /\ pc'[v] \notin NeverAt
    BY <1>1, <1>2, <1>3, <1>5 DEF ControlInv, Contexts, NeverAt, Returns
  <2>2. pc'[Idle] \in UnlockLabels \cup {"clear", "app"} /\ ret'[Idle] = "app"
    BY <1>1, <1>2, <1>3, ContextAssumption DEF ControlInv, Contexts
  <2> QED BY <1>6, <2>1, <2>2 DEF ControlInv
<1> QED BY <1>9, <1>10, <1>11, <1>12, <1>13, <1>14 DEF OrderInv

LEMMA UnlockKeeps ==
  ASSUME KernelInv, NEW c \in Contexts, UnlockStep(c)
  PROVE  OrderInv'
BY UnlockMovesKeep, RespondCellKeeps, DisposeHeadKeeps, UnlinkHeadKeeps, UnlockScheduleKeeps, ClearLockKeeps
DEF UnlockStep

---------------------------------------------------------------------------
(* The exceptions *)

\* A handler moves: the tasks stay where they are.
LEMMA HandlerMoves ==
  ASSUME KernelInv, NEW h \in {SysTick, Isr},
         \A d \in Contexts \ {h} : pc'[d] = pc[d] /\ ret'[d] = ret[d],
         UNCHANGED <<FreeTCB, ecb, FreeEventList, arg>>,
         \A v \in Tasks : state[v] = "DORMANT" \/ pc[v] = "off" => state'[v] = state[v],
         \A c \in Contexts : Locking(c)' => OSSchedLock' = 1
  PROVE  ControlInv' /\ PoolInv' /\ BoxInv' /\ \A v \in Tasks : pc'[v] = pc[v]
<1>1. \A v \in Tasks : pc'[v] = pc[v] /\ ret'[v] = ret[v] BY ContextAssumption DEF Contexts
<1>2. ControlInv' BY <1>1, ContextAssumption DEF ControlInv, KernelInv, OrderInv
<1>3. PoolInv' BY <1>1, ListsNow, PoolKept, CreatesTask DEF Creating, After, KernelInv, TypeOK
<1>4. BoxInv' BY <1>1, ListsNow, BoxKept
<1> QED BY <1>1, <1>2, <1>3, <1>4

\* At lock 0 nobody is managed: a handler may take the lock and wake a task.
LEMMA ManageUnlocked ==
  ASSUME KernelInv, OSSchedLock = 0, UNCHANGED <<arg, TCBRunning>>, \A v \in Tasks : pc'[v] = pc[v],
         OSSchedLock' = 0 \/ HandlerLocks'
  PROVE  ManageInv'
<1>1. ASSUME NEW u \in Tasks PROVE Managed(u)'
  <2>1. Managed(u) /\ (SleepsAt(u)' <=> SleepsAt(u)) BY DEF KernelInv, OrderInv, ManageInv, SleepsAt
  <2> QED BY <2>1 DEF Managed, Undisturbed
<1> QED BY <1>1 DEF ManageInv

\* A handler that finds the lock free takes it.
LEMMA HandlerLocksKeep ==
  ASSUME KernelInv, NEW h \in {SysTick, Isr}, NEW label \in UnlockLabels \ {"unlink", "tickunlink"},
         OSSchedLock = 0, OSSchedLock' = 1, Goto(h, label), ret' = ret \/ ret' = [ret EXCEPT ![h] = "isrexit"],
         UNCHANGED <<runVars, FreeTCB, ecb, FreeEventList, arg>>, WakesOne, ListInv'
  PROVE  OrderInv'
<1>1. /\ DOMAIN pc = Contexts /\ DOMAIN ret = Contexts /\ h \in Contexts /\ TCBRunning \in Tasks
      /\ \A c \in Contexts : ~Locking(c)
  BY DEF KernelInv, TypeOK, RunTypes, LockInv, OneWriter, Contexts
<1>2. pc'[h] = label /\ \A d \in Contexts \ {h} : pc'[d] = pc[d] /\ ret'[d] = ret[d]
  BY <1>1 DEF Goto
<1>3. HandlerLocks' BY <1>2 DEF HandlerLocks, Locking, LockLabels
<1>4. /\ ControlInv' /\ PoolInv' /\ BoxInv' /\ \A v \in Tasks : pc'[v] = pc[v]
  BY <1>2, WakesNone, HandlerMoves
<1>5. ManageInv' BY <1>3, <1>4, ManageUnlocked DEF runVars
<1>6. CpuInv' BY <1>1, <1>4, CpuWakes
<1> QED BY <1>4, <1>5, <1>6 DEF OrderInv

\* A tick counts every delay down while the first of them lasts.
LEMMA TickDelays ==
  ASSUME KernelInv, ~Disposing, ~Disposing', UNCHANGED <<state, DlyList, eventID, ret>>,
         delay' = IF DlyList = <<>> THEN delay
                  ELSE [t \in Tasks |-> IF Contains(DlyList, t) /\ delay[Head(DlyList)] > 0
                                        THEN delay[t] - 1 ELSE delay[t]]
  PROVE  DelayInv' /\ \A v \in Tasks : delay[v] = INVALID_VALUE => delay'[v] = INVALID_VALUE
<1>1. /\ DelayInv /\ DelayTypes /\ DlyList \in Seq(Tasks) /\ delay \in [Tasks -> Int]
      /\ InOrder(DlyList, delay) /\ INVALID_VALUE \in Nat
  BY ListsNow, ConfigAssumption DEF DelayInv, DelayTypes
<1>4. StaySpoilt(Tasks) BY SpoiltStays
<1>2. CASE delay' = delay BY <1>1, <1>2, <1>4 DEF DelayInv, StaySpoilt
<1>3. CASE delay' # delay
  <2>1. DlyList # <<>> BY <1>3
  <2>2. delay[Head(DlyList)] > 0 /\ Head(DlyList) \in Tasks
    <3>1. Head(DlyList) \in Tasks BY <1>1, <2>1, HeadTailType
    <3>2. ~(delay[Head(DlyList)] > 0) => delay' = [t \in Tasks |-> delay[t]] BY <2>1
    <3> QED BY <1>1, <1>3, <3>1, <3>2
  <2>3. \A v \in Tasks : delay'[v] = IF Contains(DlyList, v) THEN delay[v] - 1 ELSE delay[v]
    BY <2>1, <2>2
  <2>4. \A v \in Tasks : Contains(DlyList, v) => delay[v] > 0
    <3>1. \A v : Contains(DlyList, v) => delay[Head(DlyList)] <= delay[v]
      BY <1>1, <2>1, TailOrder, DelaysKeyed
    <3> QED BY <1>1, <2>2, <3>1
  <2>5. InOrder(DlyList, delay')
    <3>1. \A i \in 1 .. Len(DlyList) : DlyList[i] \in Tasks /\ delay'[DlyList[i]] = delay[DlyList[i]] - 1
      <4>1. ASSUME NEW i \in 1 .. Len(DlyList) PROVE DlyList[i] \in Tasks /\ Contains(DlyList, DlyList[i])
        BY <1>1, ContainsMeans, LenProperties
      <4> QED BY <2>3, <4>1
    <3>2. \A i, j \in 1 .. Len(DlyList) :
            delay[DlyList[i]] <= delay[DlyList[j]] => delay'[DlyList[i]] <= delay'[DlyList[j]]
      BY <1>1, <3>1
    <3> QED BY <1>1, <3>2, KeysOrder
  <2>6. \A v \in Tasks : delay'[v] \in 0 .. INVALID_VALUE BY <1>1, <2>3, <2>4 DEF DelayInv
  <2>7. \A v \in Tasks : Contains(DlyList, v) => delay'[v] # INVALID_VALUE
    BY <1>1, <2>3, <2>4 DEF DelayInv
  <2>8. \A v \in Tasks : delay[v] = INVALID_VALUE => delay'[v] = INVALID_VALUE
    BY <1>1, <2>3 DEF DelayInv
  <2>9. DelayInv' BY <1>1, <1>4, <2>5, <2>6, <2>7, <2>8 DEF DelayInv, StaySpoilt
  <2> QED BY <2>8, <2>9
<1> QED BY <1>2, <1>3

\* A tick between the two steps of TimeDispose counts the head down: it is in the
\* list no longer than until the second.
LEMMA TickRaces ==
  ASSUME KernelInv, Disposing, Disposing', TickRace, UNCHANGED <<state, DlyList, eventID, ret>>,
         delay' = [delay EXCEPT ![Head(DlyList)] = IF @ > 1 THEN @ - 1 ELSE 0]
  PROVE  DelayInv'
<1>1. DelayInv /\ DlyList \in Seq(Tasks) /\ DlyList # <<>> /\ delay \in [Tasks -> Int]
  BY ListsNow DEF DelayInv, DelayTypes
<1>2. PICK h \in Tasks : h = Head(DlyList) BY <1>1, HeadTailType
<1>3. delay[h] \in 0 .. INVALID_VALUE /\ INVALID_VALUE \in Nat \ {0} BY <1>1, ConfigAssumption DEF DelayInv
<1>4. PICK n \in 0 .. INVALID_VALUE : delay' = [delay EXCEPT ![h] = n]
  <2>1. CASE delay[h] > 1
    <3>1. delay' = [delay EXCEPT ![h] = delay[h] - 1] BY <1>2, <2>1
    <3>2. delay[h] - 1 \in 0 .. INVALID_VALUE BY <1>3, <2>1
    <3> QED BY <3>1, <3>2
  <2>2. CASE ~(delay[h] > 1)
    <3>1. delay' = [delay EXCEPT ![h] = 0] BY <1>2, <2>2
    <3>2. 0 \in 0 .. INVALID_VALUE BY <1>3
    <3> QED BY <3>1, <3>2
  <2> QED BY <2>1, <2>2
<1>5. delay'[h] = n /\ \A v \in Tasks \ {h} : delay'[v] = delay[v] BY <1>1, <1>4
<1>6. /\ Tail(DlyList) \in Seq(Tasks) /\ Contains(DlyList, h)
      /\ \A x : Contains(Tail(DlyList), x) <=> Contains(DlyList, x) /\ x # h
  BY <1>1, <1>2, HeadTailItems, HeadTailType DEF DelayInv
<1>7. InOrder(Tail(DlyList), delay')
  <2> DEFINE rest == Tail(DlyList)
  <2>1. rest \in Seq(Tasks) /\ ~Contains(rest, h) /\ InOrder(rest, delay) BY <1>1, <1>6 DEF DelayInv
  <2> HIDE DEF rest
  <2>2. InOrder(rest, [delay EXCEPT ![h] = n]) BY <1>1, <2>1, OrderWithout
  <2> QED BY <1>4, <2>2 DEF rest
<1>8. StaySpoilt(Tasks) BY SpoiltStays
<1> QED BY <1>1, <1>2, <1>4, <1>5, <1>6, <1>7, <1>8 DEF DelayInv, StaySpoilt

\* Nobody manages a task while TimeDispose is between its two steps.
LEMMA NoneManages ==
  ASSUME KernelInv, Disposing, NEW u \in Tasks
  PROVE  ~(pc[u] \in Managing /\ ~SleepsAt(u))
<1>1. PICK c \in Contexts : pc[c] \in {"unlink", "tickunlink"} BY DEF Disposing
<1>2. Locking(c) BY <1>1 DEF Locking, LockLabels, UnlockLabels
<1>3. c \in Tasks => c = TCBRunning BY <1>2 DEF KernelInv, LockInv, OneWriter
<1>4. c \notin Tasks => HandlerLocks BY <1>2 DEF HandlerLocks, Contexts
<1>5. Managed(u) BY DEF KernelInv, OrderInv, ManageInv
<1> QED BY <1>1, <1>3, <1>4, <1>5 DEF Managed, Managing, Undisturbed

LEMMA TickKeeps ==
  ASSUME KernelInv, Disciplined, TickEnter
  PROVE  OrderInv'
<1>1. /\ pc[SysTick] = "off" /\ pc[Isr] = "off" /\ ~PendSV /\ OSSchedLock \in Nat
      /\ UNCHANGED <<state, TCBRdy, DlyList, eventID, eventTCBList, FreeTCB, ecb, FreeEventList, runVars, arg, ret>>
      /\ TaskSchedReq'
  BY DEF TickEnter, poolVars, eventVars, callVars, KernelInv, LockInv
<1>6. Disposing => /\ TickRace /\ DlyList # <<>> /\ OSSchedLock > 0
                   /\ delay' = [delay EXCEPT ![Head(DlyList)] = IF @ > 1 THEN @ - 1 ELSE 0]
  <2>1. Disposing => OSSchedLock > 0
    BY DEF Disposing, Locking, LockLabels, UnlockLabels, KernelInv, LockInv, OneWriter
  <2>2. Disposing => DlyList # <<>> BY ListsNow DEF DelayInv
  <2> QED BY <2>1, <2>2 DEF TickEnter
<1>2. ~Disposing =>
      delay' = IF DlyList = <<>> THEN delay
               ELSE [t \in Tasks |-> IF Contains(DlyList, t) /\ delay[Head(DlyList)] > 0
                                     THEN delay[t] - 1 ELSE delay[t]]
  BY DEF TickEnter
<1>3. WakesOne BY <1>1 DEF WakesOne
<1>4. CASE OSSchedLock > 0
  <2>1. UNCHANGED <<OSSchedLock, pc>> BY <1>4 DEF TickEnter
  <2>2. (Disposing' <=> Disposing) /\ (HandlerLocks' <=> HandlerLocks)
    BY <2>1 DEF Disposing, HandlerLocks, Locking
  <2>3. DelayInv' /\ (~Disposing => \A v \in Tasks : delay[v] = INVALID_VALUE => delay'[v] = INVALID_VALUE)
    <3>1. CASE Disposing BY <1>1, <1>6, <2>2, <3>1, TickRaces
    <3>2. CASE ~Disposing BY <1>1, <1>2, <2>2, <3>2, TickDelays
    <3> QED BY <3>1, <3>2
  <2>4. ReadyInv' BY <1>1, <2>1, ListsNow, ReadyStays DEF Ready
  <2>5. WaitInv' BY <1>1, ListsNow, WaitKept DEF WaitInv
  <2>6. ControlInv' /\ PoolInv' /\ BoxInv'
    BY <1>1, <2>1 DEF KernelInv, OrderInv, ControlInv, PoolInv, Newborn, Creating, After, BoxInv, Locking
  <2>7. CpuInv' BY <1>1, <1>3, <2>1, <2>2, CpuWakes
  <2>8. ASSUME NEW u \in Tasks PROVE Managed(u)'
    <3>1. Managed(u) BY DEF KernelInv, OrderInv, ManageInv
    <3>2. (SleepsAt(u)' <=> SleepsAt(u)) /\ (Undisturbed' <=> Undisturbed)
      BY <1>1, <2>1, <2>2 DEF SleepsAt, Undisturbed, runVars
    <3>3. pc[u] \in Managing /\ ~SleepsAt(u) => arg[u].on \in Tasks
      <4>1. pc[u] \in Managing => Fits(pc[u], arg[u])
        BY DEF KernelInv, TypeOK, CallTypes, ArgOK, After, Managing, UnlockLabels
      <4> QED BY <4>1 DEF Fits, Managing, TaskArgLabels
    <3>5. pc[u] \in Managing /\ ~SleepsAt(u) => ~Disposing BY NoneManages
    <3>4. pc[u] \in Managing /\ ~SleepsAt(u) => Tested(pc[u], arg[u].on)'
      BY <1>1, <2>1, <2>3, <3>1, <3>3, <3>5 DEF Managed, Tested
    <3> QED BY <1>1, <2>1, <3>1, <3>2, <3>4 DEF Managed, runVars
  <2>9. ManageInv' BY <2>8 DEF ManageInv
  <2> QED BY <2>3, <2>4, <2>5, <2>6, <2>7, <2>9 DEF OrderInv, ListInv
<1>5. CASE OSSchedLock = 0
  <2>1. PICK label \in {"tickdispose", "respond"} : Goto(SysTick, label) /\ OSSchedLock' = 1
    BY <1>5 DEF TickEnter
  <2>2. \A d \in Contexts \ {SysTick} : pc'[d] = pc[d] BY <2>1 DEF Goto, KernelInv, LockInv
  <2>3. pc'[SysTick] = label BY <2>1 DEF Goto, KernelInv, LockInv, Contexts
  <2>10. ~Disposing BY <1>5, <1>6
  <2>4. ~Disposing' BY <2>2, <2>3, <2>10 DEF Disposing
  <2>5. DelayInv' BY <1>1, <1>2, <2>4, <2>10, TickDelays
  <2>6. \A v \in Tasks : pc'[v] = pc[v] BY <2>2, ContextAssumption DEF Contexts
  <2>7. ReadyInv' BY <1>1, <2>6, ListsNow, ReadyStays DEF Ready
  <2>8. WaitInv' BY <1>1, ListsNow, WaitKept DEF WaitInv
  <2>9. label \in UnlockLabels \ {"unlink", "tickunlink"} BY DEF UnlockLabels
  <2> QED BY <1>1, <1>3, <1>5, <2>1, <2>5, <2>7, <2>8, <2>9, HandlerLocksKeep DEF ListInv
<1> QED BY <1>1, <1>4, <1>5

\* A handler that only moves between off and isrexit.
LEMMA IsrMoves ==
  ASSUME KernelInv, pc[Isr] \in {"off", "isrexit"}, NEW label \in {"off", "isrexit"}, Goto(Isr, label),
         UNCHANGED <<OSSchedLock, ret>>
  PROVE  /\ \A d \in Contexts \ {Isr} : pc'[d] = pc[d] /\ ret'[d] = ret[d]
         /\ \A v \in Tasks : pc'[v] = pc[v]
         /\ \A c \in Contexts : Locking(c)' <=> Locking(c)
         /\ (HandlerLocks' <=> HandlerLocks) /\ (Disposing' <=> Disposing)
         /\ \A c \in Contexts : Locking(c)' => OSSchedLock' = 1
<1>1. pc'[Isr] = label /\ \A d \in Contexts \ {Isr} : pc'[d] = pc[d] /\ ret'[d] = ret[d]
  BY DEF Goto, KernelInv, LockInv, Contexts
<1>2. \A c \in Contexts : Locking(c)' <=> Locking(c)
  BY <1>1 DEF Locking, LockLabels, UnlockLabels
<1>3. Disposing' <=> Disposing BY <1>1 DEF Disposing
<1>4. \A v \in Tasks : pc'[v] = pc[v] BY <1>1, ContextAssumption DEF Contexts
<1> QED BY <1>1, <1>2, <1>3, <1>4 DEF HandlerLocks, Contexts, KernelInv, OrderInv, ControlInv

LEMMA IsrPostKeeps ==
  ASSUME KernelInv, Disciplined, NEW e \in Events, NEW mail, isr_PostSem(e) \/ isr_PostMail(e, mail)
  PROVE  OrderInv'
<1>1. /\ pc[Isr] = "off" /\ OSSchedLock \in Nat
      /\ UNCHANGED <<FreeTCB, ecb, FreeEventList, runVars, arg>>
  BY DEF isr_PostSem, isr_PostMail, IsrPost, poolVars, KernelInv, LockInv
<1>2. CASE Goto(Isr, "isrexit") /\ UNCHANGED <<OSSchedLock, ret>> /\ NothingPosted
  <2>1. UNCHANGED <<state, TCBRdy, TaskSchedReq, delayVars, eventID, eventTCBList>>
    BY <1>2 DEF NothingPosted, listVars, eventVars
  <2>2. /\ \A d \in Contexts \ {Isr} : pc'[d] = pc[d] /\ ret'[d] = ret[d]
        /\ \A v \in Tasks : pc'[v] = pc[v]
        /\ (HandlerLocks' <=> HandlerLocks) /\ (Disposing' <=> Disposing)
        /\ \A c \in Contexts : Locking(c)' => OSSchedLock' = 1
    BY <1>1, <1>2, IsrMoves
  <2>3. ControlInv' /\ PoolInv' /\ BoxInv' BY <1>1, <2>1, <2>2, HandlerMoves
  <2>4. ReadyInv' BY <2>1, <2>2, ListsNow, ReadyStays DEF Ready
  <2>5. DelayInv'
    <3>1. StaySpoilt(Tasks) BY <1>2, <2>1, SpoiltStays
    <3> QED BY <2>1, <2>2, <3>1, ListsNow DEF DelayInv, StaySpoilt, delayVars
  <2>6. WaitInv' BY <2>1, ListsNow DEF WaitInv
  <2>7. CpuInv'
    <3>1. WakesOne BY <2>1 DEF WakesOne
    <3>2. TCBRunning \in Tasks BY DEF KernelInv, TypeOK, RunTypes
    <3> QED BY <1>1, <1>2, <2>2, <3>1, <3>2, CpuWakes
  <2>8. ASSUME NEW u \in Tasks PROVE Managed(u)'
    <3>1. Managed(u) BY DEF KernelInv, OrderInv, ManageInv
    <3>2. (SleepsAt(u)' <=> SleepsAt(u)) /\ (Undisturbed' <=> Undisturbed)
      BY <1>1, <2>2 DEF SleepsAt, Undisturbed, runVars
    <3>3. pc[u] \in Managing => arg[u].on \in Tasks
      <4>1. pc[u] \in Managing => Fits(pc[u], arg[u])
        BY DEF KernelInv, TypeOK, CallTypes, ArgOK, After, Managing, UnlockLabels
      <4> QED BY <4>1 DEF Fits, Managing, TaskArgLabels
    <3>4. pc[u] \in Managing /\ ~SleepsAt(u) => Tested(pc[u], arg[u].on)'
      BY <1>1, <2>1, <2>2, <3>1, <3>3 DEF Managed, Tested, delayVars
    <3> QED BY <1>1, <1>2, <2>2, <3>1, <3>2, <3>4 DEF Managed, runVars
  <2>9. ManageInv' BY <2>8 DEF ManageInv
  <2> QED BY <2>3, <2>4, <2>5, <2>6, <2>7, <2>9 DEF OrderInv, ListInv
<1>3. ASSUME OSSchedLock = 0, LockedSection(Isr, "isrexit"), NEW n, NEW m, PostBody(e, n, m)
      PROVE  OrderInv'
  <2>1. OSSchedLock' = 1 /\ Goto(Isr, "respond") /\ ret' = [ret EXCEPT ![Isr] = "isrexit"]
    BY <1>3 DEF LockedSection
  <2>2. \A c \in Contexts : ~Locking(c) BY <1>3 DEF KernelInv, LockInv, OneWriter
  <2>3. pc'[Isr] = "respond" /\ \A d \in Contexts \ {Isr} : pc'[d] = pc[d]
    BY <2>1 DEF Goto, KernelInv, LockInv, Contexts
  <2>4. ~Disposing BY <2>2 DEF Disposing, Locking, LockLabels, UnlockLabels
  <2>5. ~Disposing' BY <2>3, <2>4 DEF Disposing
  <2>6. \A v \in Tasks : pc'[v] = pc[v] BY <2>3, ContextAssumption DEF Contexts
  <2>7. state[TCBRunning] = "WAITING" => ~PendSV BY <1>3 DEF KernelInv, OrderInv, CpuInv
  <2>10. \A v \in Tasks : ret'[v] = ret[v]
    BY <2>1, ContextAssumption DEF KernelInv, LockInv, Contexts
  <2>8. ListInv' /\ WakesOne BY <1>3, <2>4, <2>5, <2>6, <2>7, <2>10, PostKeeps
  <2>9. "respond" \in UnlockLabels \ {"unlink", "tickunlink"} BY DEF UnlockLabels
  <2> QED BY <1>1, <1>3, <2>1, <2>8, <2>9, HandlerLocksKeep
<1>4. \/ Goto(Isr, "isrexit") /\ UNCHANGED <<OSSchedLock, ret>> /\ NothingPosted
      \/ OSSchedLock = 0 /\ LockedSection(Isr, "isrexit") /\ \E n, m : PostBody(e, n, m)
  BY <1>1 DEF isr_PostSem, isr_PostMail, IsrPost, PostSemBody, PostMailBody
<1> QED BY <1>2, <1>3, <1>4

LEMMA IsrExitKeeps ==
  ASSUME KernelInv, IsrExit
  PROVE  OrderInv'
<1>1. /\ pc[Isr] = "isrexit" /\ Goto(Isr, "off")
      /\ IF TaskSchedReq THEN Schedule(OSSchedLock + 1, 0) ELSE UNCHANGED <<listVars, TCBNext, PendSV>>
      /\ UNCHANGED <<delayVars, eventID, eventTCBList, FreeTCB, ecb, FreeEventList, TCBRunning, arg,
                     OSSchedLock, ret>>
  BY DEF IsrExit, eventVars, poolVars, callVars
<1>2. /\ \A d \in Contexts \ {Isr} : pc'[d] = pc[d] /\ ret'[d] = ret[d]
      /\ \A v \in Tasks : pc'[v] = pc[v]
      /\ (HandlerLocks' <=> HandlerLocks) /\ (Disposing' <=> Disposing)
      /\ \A c \in Contexts : Locking(c)' => OSSchedLock' = 1
  BY <1>1, IsrMoves
<1>3. OSSchedLock \in Nat /\ TCBRunning \in Tasks /\ CpuInv
  BY DEF KernelInv, OrderInv, LockInv, TypeOK, RunTypes
<1>4. CASE OSSchedLock = 0
  <2>1. /\ CpuInv' /\ ReadyInv'
        /\ \A v \in Tasks : state[v] \in {"WAITING", "DORMANT"} \/ pc[v] = "off" => state'[v] = state[v]
        /\ \A v \in Tasks : state'[v] = "WAITING" => state[v] = "WAITING"
    <3>1. state[TCBRunning] # "RUNNING" => PendSV BY <1>3, <1>4 DEF CpuInv
    <3>2. ~(PendSV /\ state[TCBRunning] \notin {"RUNNING", "READY"}) BY <1>3, <1>4 DEF CpuInv
    <3>3. OSSchedLock + 1 \in Int BY <1>3
    <3> QED BY <1>1, <1>2, <3>1, <3>2, <3>3, ScheduleKeeps
  <2>2. ~Disposing BY <1>4 DEF KernelInv, LockInv, OneWriter, Disposing, Locking, LockLabels, UnlockLabels
  <2>3. ListInv' /\ PoolInv' /\ BoxInv'
    BY <1>1, <1>2, <2>1, <2>2, SchedulePool DEF Creating, After, Contexts
  <2>4. ControlInv' BY <1>1, <1>2, <2>1, HandlerMoves
  <2>5. ManageInv' BY <1>1, <1>2, <1>4, ManageUnlocked
  <2> QED BY <2>1, <2>3, <2>4, <2>5 DEF OrderInv
<1>5. CASE OSSchedLock # 0
  <2>1. UNCHANGED <<listVars, TCBNext, PendSV>> BY <1>1, <1>3, <1>5 DEF Schedule
  <2>2. UNCHANGED <<state, TCBRdy, TaskSchedReq, runVars>> BY <1>1, <2>1 DEF listVars, runVars
  <2>3. ControlInv' /\ PoolInv' /\ BoxInv' BY <1>1, <1>2, <2>2, HandlerMoves
  <2>4. ReadyInv' BY <1>2, <2>2, ListsNow, ReadyStays DEF Ready
  <2>5. DelayInv'
    <3>1. StaySpoilt(Tasks) BY <1>1, <2>2, SpoiltStays
    <3> QED BY <1>1, <1>2, <2>2, <3>1, ListsNow DEF DelayInv, StaySpoilt, delayVars
  <2>6. WaitInv' BY <1>1, <2>2, ListsNow DEF WaitInv
  <2>7. CpuInv'
    <3>1. WakesOne BY <2>2 DEF WakesOne
    <3> QED BY <1>1, <1>2, <1>3, <2>2, <3>1, CpuWakes
  <2>8. ASSUME NEW u \in Tasks PROVE Managed(u)'
    <3>1. Managed(u) BY DEF KernelInv, OrderInv, ManageInv
    <3>2. (SleepsAt(u)' <=> SleepsAt(u)) /\ (Undisturbed' <=> Undisturbed)
      BY <1>1, <1>2, <2>2 DEF SleepsAt, Undisturbed, runVars
    <3>3. pc[u] \in Managing => arg[u].on \in Tasks
      <4>1. pc[u] \in Managing => Fits(pc[u], arg[u])
        BY DEF KernelInv, TypeOK, CallTypes, ArgOK, After, Managing, UnlockLabels
      <4> QED BY <4>1 DEF Fits, Managing, TaskArgLabels
    <3>4. pc[u] \in Managing /\ ~SleepsAt(u) => Tested(pc[u], arg[u].on)'
      BY <1>1, <1>2, <2>2, <3>1, <3>3 DEF Managed, Tested, delayVars
    <3> QED BY <1>1, <1>2, <2>2, <3>1, <3>2, <3>4 DEF Managed, runVars
  <2>9. ManageInv' BY <2>8 DEF ManageInv
  <2> QED BY <2>3, <2>4, <2>5, <2>6, <2>7, <2>9 DEF OrderInv, ListInv
<1> QED BY <1>4, <1>5

\* The context switch: the task that gets the CPU is RUNNING.
LEMMA PendSVKeeps ==
  ASSUME KernelInv, PendSV_Handler
  PROVE  OrderInv'
<1>1. /\ PendSV /\ pc[SysTick] = "off" /\ pc[Isr] = "off" /\ PendSV' = FALSE /\ TCBRunning' = TCBNext
      /\ OSSchedLock' = 0
      /\ UNCHANGED <<state, TCBRdy, delayVars, eventID, eventTCBList, FreeTCB, ecb, FreeEventList, TCBNext, arg,
                     pc, ret>>
  BY DEF PendSV_Handler, listVars, eventVars, poolVars, callVars
<1>2. \A c \in Contexts : ~Locking(c)
  BY <1>1 DEF KernelInv, LockInv, Locking, LockLabels, UnlockLabels, Contexts
<1>3. ~Disposing /\ ~Disposing'
  <2>1. ~Disposing BY <1>2 DEF Disposing, Locking, LockLabels, UnlockLabels
  <2> QED BY <1>1, <2>1 DEF Disposing
<1>4. ListInv' BY <1>1, <1>3, ListsKept
<1>5. ControlInv' BY <1>1, <1>2 DEF KernelInv, OrderInv, ControlInv, Locking
<1>6. PoolInv' /\ BoxInv' BY <1>1, ListsNow DEF PoolInv, Newborn, Creating, After, BoxInv
<1>7. CpuInv' BY <1>1, ListsNow DEF CpuInv
<1>8. ManageInv'
  <2>1. ASSUME NEW u \in Tasks PROVE Managed(u)'
    <3>1. Managed(u) /\ (SleepsAt(u)' <=> SleepsAt(u))
      BY <1>1 DEF KernelInv, OrderInv, ManageInv, SleepsAt
    <3> QED BY <1>1, <3>1 DEF Managed, Undisturbed
  <2> QED BY <2>1 DEF ManageInv
<1> QED BY <1>4, <1>5, <1>6, <1>7, <1>8 DEF OrderInv

---------------------------------------------------------------------------
(* The start, and the theorem *)

LEMMA FrontItems ==
  ASSUME NEW S, NEW list \in Seq(S), list # <<>>, IsInjective(list)
  PROVE  /\ IsInjective(Front(list))
         /\ \A x : Contains(Front(list), x) <=> Contains(list, x) /\ x # Last(list)
<1> DEFINE new == Front(list)
<1>1. /\ Len(list) \in Nat /\ Len(list) >= 1 /\ DOMAIN list = 1 .. Len(list)
      /\ new \in Seq(S) /\ Len(new) = Len(list) - 1 /\ DOMAIN new = 1 .. Len(new)
      /\ \A i \in 1 .. Len(list) - 1 : new[i] = list[i]
      /\ Last(list) = list[Len(list)]
  <2>1. /\ Len(list) \in Nat /\ Len(list) >= 1 /\ DOMAIN list = 1 .. Len(list)
        /\ \A i \in 1 .. Len(list) - 1 : list[i] \in S
    BY EmptySeq, LenProperties
  <2>2. /\ SubSeq(list, 1, Len(list) - 1) \in Seq(S)
        /\ Len(SubSeq(list, 1, Len(list) - 1)) = Len(list) - 1
        /\ \A i \in 1 .. Len(list) - 1 : SubSeq(list, 1, Len(list) - 1)[i] = list[i]
    BY <2>1, SubSeqProperties
  <2>3. new \in Seq(S) /\ Len(new) = Len(list) - 1 /\ \A i \in 1 .. Len(list) - 1 : new[i] = list[i]
    BY <2>2 DEF Front
  <2>4. DOMAIN new = 1 .. Len(new) BY <2>3, LenProperties
  <2> QED BY <2>1, <2>3, <2>4 DEF Last
<1> HIDE DEF new
<1>2. \A i, j \in 1 .. Len(list) : list[i] = list[j] => i = j BY <1>1, SMTT(30) DEF IsInjective
<1>3. IsInjective(new) BY <1>1, <1>2 DEF IsInjective
<1>4. ASSUME NEW x PROVE Contains(new, x) <=> Contains(list, x) /\ x # Last(list)
  <2>1. ASSUME Contains(new, x) PROVE Contains(list, x) /\ x # Last(list)
    <3>1. PICK i \in 1 .. Len(list) - 1 : list[i] = x BY <1>1, <2>1, ContainsMeans
    <3>2. i \in 1 .. Len(list) /\ i # Len(list) /\ Len(list) \in 1 .. Len(list)
      <4>1. Len(list) \in Nat /\ Len(list) >= 1 BY <1>1
      <4> QED BY <4>1
    <3> QED BY <1>1, <1>2, <3>1, <3>2, ContainsMeans
  <2>2. ASSUME Contains(list, x), x # Last(list) PROVE Contains(new, x)
    <3>1. PICK i \in 1 .. Len(list) : list[i] = x BY <2>2, ContainsMeans
    <3>2. i \in 1 .. Len(new) BY <1>1, <2>2, <3>1
    <3> QED BY <1>1, <3>1, <3>2, ContainsMeans
  <2> QED BY <2>1, <2>2
<1> QED BY <1>3, <1>4 DEF new

\* The handlers touch no list out of turn either.
HandlersSound == \A h \in {SysTick, Isr} : pc[h] # "fault"

LEMMA InitKeeps ==
  ASSUME Init, Disciplined
  PROVE  OrderInv /\ HandlersSound /\ ExitInv /\ NoneStale /\ NoneEnters
<1>1. /\ Idle \in Tasks /\ BootOrder \in Seq(Tasks) /\ BootOrder # <<>> /\ Idle = Last(BootOrder)
      /\ BootFree \in Seq(Tasks) /\ SysTick \notin Tasks /\ Isr \notin Tasks /\ INVALID_VALUE \in Nat
  BY ContextAssumption, BootAssumption, ConfigAssumption
<1>2. /\ IsInjective(BootOrder) /\ IsInjective(BootFree)
      /\ \A t \in Tasks : Contains(BootOrder, t) <=> ~Contains(BootFree, t)
      /\ \A t \in Ids : Contains(BootFree, t) => t # Last(BootFree)
  BY EmptyList DEF Disciplined
<1>3. /\ \A t \in Tasks : state[t] = IF t = Idle THEN "RUNNING"
                                     ELSE IF NeverUsed(t) /\ t # Last(BootFree) THEN "DORMANT" ELSE "READY"
      /\ \A t \in Tasks : eventID[t] = NULL /\ delay[t] = INVALID_VALUE /\ ret[t] = "app"
      /\ \A t \in Tasks : pc[t] = IF t = Idle THEN "respond" ELSE IF NeverUsed(t) THEN "off" ELSE "app"
      /\ \A e \in Events : eventTCBList[e] = <<>> /\ ecb[e].eventType = BootEvents[e].eventType
      /\ TCBRdy = Front(BootOrder) /\ DlyList = <<>> /\ FreeTCB = BootFree /\ FreeEventList = BootFreeEvents
      /\ TCBRunning = Idle /\ TCBNext = Idle /\ OSSchedLock = 1 /\ TaskSchedReq = TRUE /\ PendSV = FALSE
  <2>1. \A t \in Tasks : state[t] = IF t = Idle THEN "RUNNING"
                                     ELSE IF NeverUsed(t) /\ t # Last(BootFree) THEN "DORMANT" ELSE "READY"
    BY DEF Init, KernelInit
  <2>2. \A t \in Tasks : eventID[t] = NULL /\ delay[t] = INVALID_VALUE BY DEF Init, KernelInit
  <2>3. \A t \in Tasks : ret[t] = "app" BY <1>1 DEF Init, KernelInit, Contexts
  <2>4. \A t \in Tasks : pc[t] = IF t = Idle THEN "respond" ELSE IF NeverUsed(t) THEN "off" ELSE "app"
    BY DEF Init, KernelInit, Contexts
  <2>5. \A e \in Events : eventTCBList[e] = <<>> /\ ecb[e].eventType = BootEvents[e].eventType
    BY DEF Init, KernelInit
  <2> QED BY <2>1, <2>2, <2>3, <2>4, <2>5 DEF Init, KernelInit
<1>4. \A c \in {SysTick, Isr} : pc[c] = "off"
  <2>1. \A c \in {SysTick, Isr} : ~Contains(BootOrder, c)
    BY <1>1, ContainsMeans, LenProperties
  <2> QED BY <1>1, <2>1 DEF Init, KernelInit, Contexts, NeverUsed
<1>5. Contains(Front(BootOrder), Idle) = FALSE /\ Contains(BootOrder, Idle)
      /\ IsInjective(TCBRdy) /\ \A t \in Tasks : Contains(TCBRdy, t) <=> Contains(BootOrder, t) /\ t # Idle
  <2>1. /\ IsInjective(TCBRdy) /\ \A t \in Tasks : Contains(TCBRdy, t) <=> Contains(BootOrder, t) /\ t # Idle
        /\ Contains(Front(BootOrder), Idle) = FALSE
    <3>1. IsInjective(Front(BootOrder)) /\ \A x : Contains(Front(BootOrder), x) <=> Contains(BootOrder, x) /\ x # Idle
      BY <1>1, <1>2, FrontItems
    <3>2. Contains(Front(BootOrder), Idle) \in BOOLEAN BY DEF Contains
    <3> QED BY <1>3, <3>1, <3>2
  <2>2. Contains(BootOrder, Idle)
    <3>1. Len(BootOrder) \in 1 .. Len(BootOrder) /\ BootOrder[Len(BootOrder)] = Idle
      BY <1>1, EmptySeq, LenProperties DEF Last
    <3> QED BY <1>1, <3>1, ContainsMeans
  <2> QED BY <2>1, <2>2
<1>6. ~Disposing BY <1>3, <1>4 DEF Disposing, Contexts
<1>7. ControlInv
  <2>1. \A c \in Contexts : Locking(c) => OSSchedLock = 1 BY <1>3
  <2> QED BY <1>1, <1>3, <2>1 DEF ControlInv, Returns, NeverAt, UnlockLabels
<1>8. CpuInv
  <2>1. "respond" \in UnlockLabels BY DEF UnlockLabels
  <2> QED BY <1>1, <1>3, <2>1 DEF CpuInv
<1>9. ReadyInv
  <2>1. ASSUME NEW t \in Tasks PROVE Contains(TCBRdy, t) <=> state[t] = "READY" /\ pc[t] # "off"
    BY <1>3, <1>5 DEF NeverUsed
  <2> QED BY <1>5, <2>1 DEF ReadyInv
<1>10. DelayInv
  <2>1. IsInjective(DlyList) /\ InOrder(DlyList, delay) /\ \A x : ~Contains(DlyList, x)
    BY <1>3, EmptyList DEF IsInjective, InOrder
  <2> QED BY <1>1, <1>3, <1>6, <2>1 DEF DelayInv
<1>11. WaitInv
  <2>1. \A e \in Events : IsInjective(eventTCBList[e]) /\ \A x : ~Contains(eventTCBList[e], x)
    BY <1>3, EmptyList DEF IsInjective
  <2> QED BY <1>3, <2>1, ContextAssumption DEF WaitInv
<1>12. \A t \in Tasks : After(t) \in {"app", "off"} BY <1>3 DEF After, UnlockLabels
<1>13. PoolInv
  <2>1. \A t \in Tasks : Contains(FreeTCB, t) => pc[t] = "off"
    BY <1>2, <1>3, <1>5 DEF NeverUsed
  <2>2. \A t \in Tasks : pc[t] = "off" => state[t] \in {"DORMANT", "READY"} /\ (t \in Ids => state[t] = "DORMANT")
    BY <1>2, <1>3, <1>5 DEF NeverUsed
  <2>3. \A t \in Tasks : ~Creating(t) BY <1>12 DEF Creating
  <2> QED BY <1>2, <1>3, <2>1, <2>2, <2>3 DEF PoolInv
<1>14. BoxInv BY <1>3 DEF BoxInv, Disciplined
<1>15. ManageInv BY <1>3 DEF ManageInv, Managed, Managing, SleepsAt
<1>17. ExitInv BY <1>12 DEF ExitInv
<1>16. HandlersSound BY <1>4 DEF HandlersSound
<1>18. NoneStale BY DEF NoneStale, Init, KernelInit
<1>19. NoneEnters BY <1>3 DEF NoneEnters
<1> QED BY <1>7, <1>8, <1>9, <1>10, <1>11, <1>13, <1>14, <1>15, <1>16, <1>17, <1>18, <1>19 DEF OrderInv, ListInv

\* The call of a task, and the rest of it.
LEMMA CallKeeps ==
  ASSUME KernelInv, Disciplined, NEW t \in Tasks, Call(t)
  PROVE  OrderInv'
<1>1. CASE TaskCall(t)
  <2>1. ASSUME NEW u \in Ids, CoSuspendTask(t, u) PROVE FALSE
    BY <2>1, RunsCalling DEF CoSuspendTask, Forbidden
  <2> QED BY <1>1, <2>1, LockCallKeeps, TickDelayKeeps, ManageCallsKeep, SetPriorityKeeps, CreateTaskKeeps
          DEF TaskCall
<1>2. CASE EventCall(t)
  <2>1. PICK call \in {"CoCreateSem", "CoCreateMbox", "CoDelSem", "CoDelMbox"} : Calls(t, call)
    BY <1>2 DEF EventCall, CoCreateEvent, DeleteUnused, DeleteAnyway
  <2> QED BY <2>1, RunsCalling DEF Forbidden
<1>3. CASE SemCall(t) \/ MboxCall(t) BY <1>3, TokenQuiet
<1> QED BY <1>1, <1>2, <1>3 DEF Call

LEMMA StepKeeps ==
  ASSUME KernelInv, Disciplined, Deletable, NEW t \in Tasks, Step(t)
  PROVE  OrderInv'
<1>1. pc[t] \notin NeverAt BY DEF KernelInv, OrderInv, ControlInv
<1>2. CASE TaskStep(t)
  <2>1. ~SuspendBody(t) BY <1>1 DEF SuspendBody, At, NeverAt
  <2>2. CASE DeleteBody(t)
    <3>1. state[arg[t].on] = "WAITING" => ret[arg[t].on] # "entered" BY <2>2 DEF Deletable, DeleteBody
    <3> QED BY <2>2, <3>1, DeleteKeeps
  <2> QED BY <1>2, <2>1, <2>2, ResetKeeps, InitTaskKeeps, AwakeKeeps, ReorderKeeps, RescheduleKeeps,
             UnwaitKeeps, RewaitKeeps DEF TaskStep
<1>3. CASE EventStep(t)
  <2>1. ~(InitEvent(t) \/ DeleteWaiter(t) \/ RetireECB(t) \/ ReleaseECB(t))
    BY <1>1 DEF InitEvent, DeleteWaiter, RetireECB, ReleaseECB, At, NeverAt
  <2> QED BY <1>3, <2>1, BlockKeeps, TokenQuiet DEF EventStep
<1>4. CASE SemStep(t) \/ MboxStep(t) BY <1>4, TokenQuiet, TaskPostKeeps DEF SemStep, MboxStep
<1>5. CASE UnlockStep(t) BY <1>5, UnlockKeeps DEF Contexts
<1> QED BY <1>2, <1>3, <1>4, <1>5 DEF Step

\* No step of the kernel's own calls sends a task to "delete" behind an unlock, or
\* into a mutex.
Elsewhere == ReturnLabels \ {"delete", "entered"}
Leads(t) ==
  /\ arg' = arg \/ \E on, val : WithArg(t, on, val)
  /\ \/ \E next \in Elsewhere : LockedSection(t, next)
     \/ ret' = ret /\ (pc' = pc \/ \E label \in Labels \ (UnlockLabels \cup {"clear"}) : Goto(t, label))

LEMMA LeadsElsewhere ==
  ASSUME KernelInv, NEW t \in Tasks, pc[t] \notin UnlockLabels \cup {"clear"}, Leads(t)
  PROVE  /\ \A u \in Tasks \ {t} : pc'[u] = pc[u] /\ ret'[u] = ret[u] /\ arg'[u] = arg[u]
         /\ pc'[t] \in UnlockLabels \cup {"clear"} => ret'[t] # "delete"
         /\ ret'[t] = ret[t] \/ ret'[t] # "entered"
<1>1. DOMAIN pc = Contexts /\ DOMAIN ret = Contexts /\ DOMAIN arg = Tasks /\ t \in Contexts
  BY DEF KernelInv, LockInv, TypeOK, CallTypes, Contexts
<1>2. \A u \in Tasks \ {t} : arg'[u] = arg[u] BY <1>1 DEF Leads, WithArg
<1>3. CASE \E next \in Elsewhere : LockedSection(t, next)
  <2>1. PICK next \in Elsewhere : LockedSection(t, next) BY <1>3
  <2>2. next \notin UnlockLabels \cup {"clear", "delete", "entered"}
    BY DEF Elsewhere, ReturnLabels, TaskArgLabels, EventArgLabels, UnlockLabels
  <2> QED BY <1>1, <1>2, <2>1, <2>2 DEF LockedSection, Goto, Contexts
<1>4. CASE ret' = ret /\ (pc' = pc \/ \E label \in Labels \ (UnlockLabels \cup {"clear"}) : Goto(t, label))
  BY <1>1, <1>2, <1>4 DEF Goto, Contexts
<1> QED BY <1>3, <1>4 DEF Leads

LEMMA CallLeads ==
  ASSUME KernelInv, Disciplined, NEW t \in Tasks, Call(t), ~CoSchedUnlock(t)
  PROVE  Leads(t) /\ pc[t] = "app"
<1>1. {"app", "init", "initwait", "semblock", "mailblock", "decrement"} \subseteq Elsewhere
  BY DEF Elsewhere, ReturnLabels, TaskArgLabels, EventArgLabels
<1>2. {"app", "reset", "delete", "awake", "reorder", "resched", "unwait", "postsem", "postmail"}
        \subseteq Labels \ (UnlockLabels \cup {"clear"})
  BY DEF Labels, TaskArgLabels, EventArgLabels, UnlockLabels
<1>3. CASE \/ CoSchedLock(t) \/ \E ticks \in Delays : CoTickDelay(t, ticks)
           \/ \E p \in Priorities, waiting \in BOOLEAN : CreateTask(t, p, waiting)
  BY <1>1, <1>3 DEF CoSchedLock, CoTickDelay, CreateTask, Leads, Calls, At, callVars
<1>4. CASE \E u \in Ids : \/ CoDelTask(t, u) \/ CoAwakeTask(t, u)
                          \/ \E ticks \in Delays : CoResetTaskDelayTick(t, u, ticks)
                          \/ \E p \in Priorities : CoSetPriority(t, u, p)
  BY <1>2, <1>4 DEF CoDelTask, CoAwakeTask, CoResetTaskDelayTick, CoSetPriority, Continue, Leads, Calls, At
<1>5. CASE SemCall(t)
  BY <1>1, <1>2, <1>5 DEF SemCall, CoPendSem, CoAcceptSem, CoPostSem, Continue, Leads, Calls, At
<1>6. CASE MboxCall(t)
  BY <1>1, <1>2, <1>6 DEF MboxCall, CoPendMail, CoAcceptMail, TakeMail, CoPostMail, Continue, Leads, Calls, At
<1>7. ASSUME EventCall(t) \/ \E u \in Ids : CoSuspendTask(t, u) PROVE FALSE
  <2>1. PICK call \in Forbidden : Calls(t, call)
    BY <1>7 DEF EventCall, CoCreateEvent, DeleteUnused, DeleteAnyway, CoSuspendTask, Forbidden
  <2> QED BY <2>1, RunsCalling
<1> QED BY <1>3, <1>4, <1>5, <1>6, <1>7 DEF Call, TaskCall

LEMMA StepLeads ==
  ASSUME KernelInv, NEW t \in Tasks, ~InitTask(t),
         TaskStep(t) \/ EventStep(t) \/ SemStep(t) \/ MboxStep(t)
  PROVE  Leads(t) /\ pc[t] \notin UnlockLabels \cup {"clear"}
<1>1. {"app", "semwoken", "mailwoken"} \subseteq Elsewhere
  BY DEF Elsewhere, ReturnLabels, TaskArgLabels, EventArgLabels
<1>2. {"app", "rewait", "fault"} \subseteq Labels \ (UnlockLabels \cup {"clear"})
  BY DEF Labels, TaskArgLabels, EventArgLabels, UnlockLabels
<1>3. /\ pc[t] \notin NeverAt
      /\ ~(InitEvent(t) \/ DeleteWaiter(t) \/ RetireECB(t) \/ ReleaseECB(t) \/ SuspendBody(t))
  BY DEF KernelInv, OrderInv, ControlInv, InitEvent, DeleteWaiter, RetireECB, ReleaseECB, SuspendBody, At, NeverAt
<1>4. CASE ResetBody(t) \/ DeleteBody(t) \/ AwakeBody(t)
  BY <1>1, <1>2, <1>4 DEF ResetBody, DeleteBody, AwakeBody, Fault, Leads, At, callVars, UnlockLabels
<1>5. CASE ReorderBody(t) \/ RescheduleBody(t) \/ UnwaitBody(t) \/ RewaitBody(t)
  BY <1>1, <1>2, <1>5 DEF ReorderBody, RescheduleBody, UnwaitBody, RewaitBody, Fault, Leads, At, callVars,
     UnlockLabels
<1>6. CASE BlockBody(t) \/ Woken(t)
  BY <1>1, <1>2, <1>6 DEF BlockBody, Woken, Leads, At, callVars, UnlockLabels
<1>7. CASE SemStep(t) \/ MboxStep(t)
  BY <1>1, <1>2, <1>7 DEF SemStep, Decrement, PostSem, MboxStep, PostMail, Fault, Leads, At, UnlockLabels
<1> QED BY <1>3, <1>4, <1>5, <1>6, <1>7 DEF TaskStep, EventStep

LEMMA ExitKept ==
  ASSUME KernelInv, Disciplined, [Next]_vars
  PROVE  ExitInv'
<1> USE DEF ExitInv, After
<1>1. /\ ExitInv /\ DOMAIN pc = Contexts /\ DOMAIN ret = Contexts /\ DOMAIN arg = Tasks /\ LockInv
  BY DEF KernelInv, LockInv, TypeOK, CallTypes
<1>2. ASSUME NEW t \in Tasks, pc[t] \notin UnlockLabels \cup {"clear"}, Leads(t) PROVE ExitInv'
  BY <1>1, <1>2, LeadsElsewhere
<1>3. ASSUME NEW t \in Tasks, CoSchedUnlock(t) PROVE ExitInv'
  BY <1>1, <1>3 DEF CoSchedUnlock, Calls, At, Goto, Contexts, UnlockLabels, callVars
<1>4. ASSUME NEW t \in Tasks, InitTask(t) PROVE ExitInv'
  BY <1>1, <1>4 DEF InitTask, At, Contexts, UnlockLabels, callVars
<1>5. ASSUME NEW c \in Contexts, UnlockStep(c) PROVE ExitInv'
  <2>1. /\ pc[c] \in UnlockLabels \cup {"clear"} /\ ret' = ret /\ arg' = arg
        /\ \E label \in UnlockLabels \cup {"clear", ret[c]} : pc' = pc \/ Goto(c, label)
    BY <1>5 DEF UnlockStep, BeginUnlock, DisposeHead, UnlinkHead, EndDispose, ClearTimeReq, RespondCell,
                EndCells, ClearIsrReq, UnlockSchedule, ClearLock, At, UnlockLabels, callVars
  <2> QED BY <1>1, <2>1 DEF Goto, Contexts, UnlockLabels
<1>6. CASE TickEnter \/ IsrExit \/ PendSV_Handler \/ Interrupt
  <2>1. arg' = arg /\ \A t \in Tasks : pc'[t] = pc[t] /\ ret'[t] = ret[t]
    BY <1>1, <1>6, ContextAssumption
    DEF TickEnter, IsrExit, PendSV_Handler, Interrupt, isr_PostSem, isr_PostMail, IsrPost, LockedSection,
        Goto, Contexts, callVars
  <2> QED BY <1>1, <2>1
<1>7. CASE UNCHANGED vars BY <1>1, <1>7 DEF vars
<1>8. ASSUME NEW t \in Tasks, Call(t) \/ Step(t) PROVE ExitInv'
  <2>1. CASE Call(t) BY <1>2, <1>3, <2>1, CallLeads DEF UnlockLabels
  <2>2. CASE UnlockStep(t) BY <1>5, <2>2 DEF Contexts
  <2> QED BY <1>2, <1>4, <1>8, <2>1, <2>2, StepLeads DEF Step
<1> QED BY <1>5, <1>6, <1>7, <1>8 DEF Next, Contexts

LEMMA EntersKept ==
  ASSUME ExactInv, Disciplined, [Next]_vars
  PROVE  NoneEnters'
<1> USE DEF NoneEnters
<1>1. KernelInv /\ NoneEnters /\ DOMAIN ret = Contexts
  BY DEF ExactInv, KernelInv, LockInv, TypeOK, CallTypes
<1>2. ASSUME NEW t \in Tasks, pc[t] \notin UnlockLabels \cup {"clear"}, Leads(t) PROVE NoneEnters'
  BY <1>1, <1>2, LeadsElsewhere
<1>3. ASSUME NEW t \in Tasks, CoSchedUnlock(t) \/ InitTask(t) PROVE NoneEnters'
  BY <1>1, <1>3 DEF CoSchedUnlock, InitTask, Contexts
<1>4. ASSUME NEW c \in Contexts, UnlockStep(c) PROVE NoneEnters'
  <2>1. ret' = ret
    BY <1>4 DEF UnlockStep, BeginUnlock, DisposeHead, UnlinkHead, EndDispose, ClearTimeReq, RespondCell,
                EndCells, ClearIsrReq, UnlockSchedule, ClearLock
  <2> QED BY <1>1, <2>1
<1>5. CASE TickEnter \/ IsrExit \/ PendSV_Handler \/ Interrupt
  <2>1. \A t \in Tasks : ret'[t] = ret[t]
    BY <1>1, <1>5, ContextAssumption
    DEF TickEnter, IsrExit, PendSV_Handler, Interrupt, isr_PostSem, isr_PostMail, IsrPost, LockedSection,
        Goto, Contexts, callVars
  <2> QED BY <1>1, <2>1
<1>6. CASE UNCHANGED vars BY <1>1, <1>6 DEF vars
<1>7. ASSUME NEW t \in Tasks, Call(t) \/ Step(t) PROVE NoneEnters'
  <2>1. CASE Call(t) BY <1>1, <1>2, <1>3, <2>1, CallLeads DEF UnlockLabels
  <2>2. CASE UnlockStep(t) BY <1>4, <2>2 DEF Contexts
  <2> QED BY <1>1, <1>2, <1>3, <1>7, <2>1, <2>2, StepLeads DEF Step
<1> QED BY <1>4, <1>5, <1>6, <1>7 DEF Next, Contexts

\* Only DeleteEvent leaves a back link stale.
LEMMA StaleKept ==
  ASSUME KernelInv, Disciplined, [Next]_vars
  PROVE  NoneStale'
<1> SUFFICES stalePrev' \subseteq stalePrev BY DEF KernelInv, NoneStale
<1>1. ASSUME NEW t \in Tasks, Call(t) PROVE stalePrev' = stalePrev
  BY <1>1 DEF Call, TaskCall, EventCall, SemCall, MboxCall, CoSchedLock, CoSchedUnlock, CoTickDelay, CreateTask,
     CoDelTask, CoSuspendTask, CoAwakeTask, CoResetTaskDelayTick, CoSetPriority, Continue, CoCreateEvent,
     DeleteUnused, DeleteAnyway, CoPendSem, CoAcceptSem, CoPostSem, CoPendMail, CoAcceptMail, TakeMail,
     CoPostMail, eventVars
<1>2. ASSUME NEW t \in Tasks, TaskStep(t) PROVE stalePrev' \subseteq stalePrev
  <2>1. CASE ResetBody(t) \/ InitTask(t) \/ DeleteBody(t) \/ SuspendBody(t) \/ AwakeBody(t)
    BY <2>1 DEF ResetBody, InitTask, DeleteBody, SuspendBody, AwakeBody, Fault, eventVars
  <2>2. CASE ReorderBody(t) \/ RescheduleBody(t) \/ UnwaitBody(t) \/ RewaitBody(t)
    BY <2>2 DEF ReorderBody, RescheduleBody, UnwaitBody, RewaitBody, LinkEvent, Relinked, Fault, eventVars
  <2> QED BY <1>2, <2>1, <2>2 DEF TaskStep
<1>3. ASSUME NEW t \in Tasks, EventStep(t) PROVE stalePrev' \subseteq stalePrev
  <2>1. pc[t] \notin NeverAt BY DEF KernelInv, OrderInv, ControlInv
  <2>2. ~(InitEvent(t) \/ DeleteWaiter(t) \/ RetireECB(t) \/ ReleaseECB(t))
    BY <2>1 DEF InitEvent, DeleteWaiter, RetireECB, ReleaseECB, At, NeverAt
  <2>3. CASE BlockBody(t) BY <2>3 DEF BlockBody, LinkEvent, Relinked
  <2>4. CASE Woken(t) BY <2>4 DEF Woken
  <2>5. CASE WakeWaiter(t) BY <2>5 DEF WakeWaiter, eventVars
  <2> QED BY <1>3, <2>2, <2>3, <2>4, <2>5 DEF EventStep
<1>8. \A e, mail : PostSemBody(e) \/ PostMailBody(e, mail) => stalePrev' = stalePrev
  BY DEF PostSemBody, PostMailBody, PostBody
<1>4. ASSUME NEW t \in Tasks, SemStep(t) \/ MboxStep(t) PROVE stalePrev' = stalePrev
  <2>1. CASE Decrement(t) BY <2>1 DEF Decrement
  <2>2. CASE PostSem(t) BY <1>8, <2>2 DEF PostSem
  <2>3. CASE PostMail(t) BY <1>8, <2>3 DEF PostMail, Fault, eventVars
  <2> QED BY <1>4, <2>1, <2>2, <2>3 DEF SemStep, MboxStep
<1>5. ASSUME NEW c \in Contexts, UnlockStep(c) PROVE stalePrev' = stalePrev
  <2>1. CASE RespondCell(c) BY <1>8, <2>1 DEF RespondCell, NothingPosted, eventVars
  <2>2. CASE BeginUnlock(c) \/ DisposeHead(c) \/ UnlinkHead(c) \/ EndDispose(c)
    BY <2>2 DEF BeginUnlock, DisposeHead, UnlinkHead, EndDispose, eventVars
  <2>3. CASE ClearTimeReq(c) \/ EndCells(c) \/ ClearIsrReq(c) \/ UnlockSchedule(c) \/ ClearLock(c)
    BY <2>3 DEF ClearTimeReq, EndCells, ClearIsrReq, UnlockSchedule, ClearLock, eventVars
  <2> QED BY <1>5, <2>1, <2>2, <2>3 DEF UnlockStep
<1>6. CASE TickEnter \/ IsrExit \/ PendSV_Handler \/ Interrupt
  <2>1. CASE Interrupt BY <1>8, <2>1 DEF Interrupt, isr_PostSem, isr_PostMail, IsrPost, NothingPosted, eventVars
  <2> QED BY <1>6, <2>1 DEF TickEnter, IsrExit, PendSV_Handler, eventVars
<1>7. CASE UNCHANGED vars BY <1>7 DEF vars
<1> QED BY <1>1, <1>2, <1>3, <1>4, <1>5, <1>6, <1>7 DEF Next, Step, Contexts

LEMMA NextKeeps ==
  ASSUME KernelInv, Disciplined, Deletable, [Next]_vars
  PROVE  KernelInv'
<1>1. LockInv' BY NextLockInv DEF KernelInv
<1>2. TypeOK' /\ HeadThere' BY <1>1, NextTypes DEF KernelInv
<1>3. OrderInv'
  <2>1. CASE \E t \in Tasks : Call(t) \/ Step(t) BY <2>1, CallKeeps, StepKeeps
  <2>2. CASE UnlockStep(SysTick) \/ UnlockStep(Isr) BY <2>2, UnlockKeeps DEF Contexts
  <2>3. CASE Interrupt BY <2>3, IsrPostKeeps DEF Interrupt, isr_PostSem
  <2>4. CASE TickEnter \/ IsrExit \/ PendSV_Handler BY <2>4, TickKeeps, IsrExitKeeps, PendSVKeeps
  <2>5. CASE UNCHANGED vars
    BY <2>5 DEF vars, KernelInv, OrderInv, ControlInv, CpuInv, HandlerLocks, Locking, ListInv, ReadyInv, DelayInv,
                Disposing, WaitInv, PoolInv, Creating, After, Newborn, BoxInv, ManageInv, Managed, SleepsAt,
                Undisturbed, Tested, Spoilt
  <2> QED BY <2>1, <2>2, <2>3, <2>4, <2>5 DEF Next
<1>4. ExitInv' /\ NoneStale' BY ExitKept, StaleKept
<1> QED BY <1>1, <1>2, <1>3, <1>4 DEF KernelInv

LEMMA InitExact ==
  ASSUME Init, Disciplined
  PROVE  ExactInv /\ HandlersSound
BY InitLockInv, InitTypes, InitKeeps DEF KernelInv, ExactInv

LEMMA NextExact ==
  ASSUME ExactInv, Disciplined, [Next]_vars
  PROVE  ExactInv'
<1>1. Deletable
  <2>1. ASSUME NEW t \in Tasks, At(t, "delete") PROVE arg[t].on \in Tasks
    BY <2>1, ManagerAt DEF ExactInv, Managing
  <2> QED BY <2>1 DEF Deletable, ExactInv, NoneEnters
<1> QED BY <1>1, NextKeeps, EntersKept DEF ExactInv

LEMMA HandlersStaySound ==
  ASSUME KernelInv, HandlersSound, [Next]_vars
  PROVE  HandlersSound'
<1>1. LockInv /\ DOMAIN pc = Contexts BY DEF KernelInv, LockInv
<1>2. ASSUME NEW t \in Tasks, TaskStepShape(t) PROVE HandlersSound'
  BY <1>2, ContextAssumption DEF TaskStepShape, HandlersSound, Contexts
<1>3. ASSUME NEW c \in Contexts, UnlockStep(c) PROVE HandlersSound'
  <2>1. /\ pc[c] \in UnlockLabels \cup {"clear"}
        /\ \E label \in UnlockLabels \cup {"clear", ret[c]} : pc' = pc \/ Goto(c, label)
    BY <1>3 DEF UnlockStep, BeginUnlock, DisposeHead, UnlinkHead, EndDispose, ClearTimeReq, RespondCell,
                EndCells, ClearIsrReq, UnlockSchedule, ClearLock, At, UnlockLabels
  <2>2. c \in {SysTick, Isr} => ret[c] # "fault" BY <1>1 DEF LockInv
  <2> QED BY <1>1, <2>1, <2>2 DEF HandlersSound, Goto, UnlockLabels, Contexts
<1>4. CASE TickEnter
  <2>1. \E label \in {"tickdispose", "respond"} : pc' = pc \/ Goto(SysTick, label) BY <1>4 DEF TickEnter
  <2> QED BY <1>1, <2>1 DEF HandlersSound, Goto, Contexts
<1>5. CASE Interrupt \/ IsrExit \/ PendSV_Handler
  <2>1. \E label \in {"off", "isrexit", "respond"} : pc' = pc \/ Goto(Isr, label)
    BY <1>5 DEF Interrupt, isr_PostSem, isr_PostMail, IsrPost, LockedSection, IsrExit, PendSV_Handler
  <2> QED BY <1>1, <2>1 DEF HandlersSound, Goto, Contexts
<1>6. CASE UNCHANGED vars BY <1>6 DEF vars, HandlersSound
<1>7. ASSUME NEW t \in Tasks, Call(t) \/ TaskStep(t) \/ EventStep(t) \/ SemStep(t) \/ MboxStep(t)
      PROVE  HandlersSound'
  BY <1>1, <1>2, <1>7, TaskCallShape, TaskStepIsShape, EventCallShape, EventStepShape, TokenShape DEF Call
<1> QED BY <1>3, <1>4, <1>5, <1>6, <1>7 DEF Next, Step, Contexts

\* What the invariant says of the lists.
LEMMA KernelIsExact ==
  ASSUME KernelInv, HandlersSound
  PROVE  ListsExact
<1>1. NoFault
  <2>1. \A t \in Tasks : pc[t] # "fault" BY DEF KernelInv, OrderInv, ControlInv, NeverAt
  <2> QED BY <2>1 DEF NoFault, HandlersSound, Contexts
<1>2. ReadyListExact
  BY ListsNow DEF ReadyListExact, ReadyInv, CpuInv, PoolInv
<1>3. WaitListsExact
  BY ListsNow DEF WaitListsExact, DelayInv, WaitInv
<1> QED BY <1>1, <1>2, <1>3 DEF ListsExact

\* In an application that keeps to the rules of Disciplined the ready list, the
\* delay list, the lists of the events and the free list are what the states,
\* delays and events of the tasks say, and no call unlinks a task from a list it
\* is not in: whatever tasks, ticks and interrupts do in between, and also when a
\* tick falls between time.c:335 and 336 (TCBRdy, DlyList, eventTCBList and FreeTCB
\* in task.c, time.c and event.c).
THEOREM ListsStayExact == Disciplined => (Spec => []ListsExact)
<1> SUFFICES ASSUME Disciplined PROVE Spec => []ListsExact
  OBVIOUS
<1>1. Init => ExactInv /\ HandlersSound BY InitExact
<1>2. ExactInv /\ HandlersSound /\ [Next]_vars => (ExactInv /\ HandlersSound)'
  BY NextExact, HandlersStaySound DEF ExactInv
<1>3. ExactInv /\ HandlersSound => ListsExact BY KernelIsExact DEF ExactInv
<1> QED BY <1>1, <1>2, <1>3, PTL DEF Spec

\* The ready list alone: the READY tasks that were ever created are in it, each
\* once, and the RUNNING task is the one the CPU has or is about to get.
COROLLARY ReadyListStaysExact == Disciplined => (Spec => []ReadyListExact)
<1>1. ListsExact => ReadyListExact BY DEF ListsExact
<1> QED BY <1>1, ListsStayExact, PTL

---------------------------------------------------------------------------
(* The order of the lists: the inductive invariant *)

\* The order of the lists while no task is about to be moved.
ReadyOrder == InOrder(TCBRdy, prio)
WaitOrder == \A e \in Events : ecb[e].eventSortType = "PRIO" => InOrder(eventTCBList[e], prio)

\* No ready task goes before the task that has the CPU or is about to get it,
\* unless scheduling is asked for, or will be by the call that lowered that task.
Foremost == \A x \in Tasks : Contains(TCBRdy, x) /\ x \notin Moving => prio[TCBNext] <= prio[x]
Served == TaskSchedReq \/ pc[TCBNext] = "resched" \/ Foremost

OrderKept == PriorityOrder /\ Served

---------------------------------------------------------------------------
(* The tasks CoSetPriority is about to move *)

\* The task that moves another is on the CPU, holds the lock, and is alone.
LEMMA Mover ==
  ASSUME KernelInv, Moving # {}
  PROVE  /\ pc[TCBRunning] \in {"reorder", "unwait"} /\ Moving = {arg[TCBRunning].on}
         /\ OSSchedLock > 0 /\ Undisturbed
<1>1. \A t \in Tasks : pc[t] \in {"reorder", "unwait"} => t = TCBRunning /\ OSSchedLock > 0 /\ Undisturbed
  BY DEF KernelInv, OrderInv, ManageInv, Managed, Managing, SleepsAt
<1>2. PICK t \in Tasks : pc[t] \in {"reorder", "unwait"} BY DEF Moving
<1>3. {u \in Tasks : pc[u] \in {"reorder", "unwait"}} = {TCBRunning} BY <1>1, <1>2
<1> QED BY <1>1, <1>2, <1>3 DEF Moving

\* Nobody is moved at lock 0, inside an unlock, or by a task in another call.
LEMMA NoMover ==
  ASSUME KernelInv,
         \/ OSSchedLock = 0
         \/ \E c \in Contexts : pc[c] \in UnlockLabels /\ OnCPU(c)
         \/ pc[TCBRunning] \notin {"reorder", "unwait"}
  PROVE  Moving = {}
<1> SUFFICES ASSUME Moving # {} PROVE FALSE
  OBVIOUS
<1>1. pc[TCBRunning] \in {"reorder", "unwait"} /\ OSSchedLock > 0 /\ Undisturbed BY Mover
<1>2. PICK c \in Contexts : pc[c] \in UnlockLabels /\ OnCPU(c) BY <1>1
<1>3. c \in Tasks => c = TCBRunning BY <1>2, Serving
<1>4. c \notin Tasks => HandlerLocks BY <1>2, Serving
<1> QED BY <1>1, <1>2, <1>3, <1>4 DEF Undisturbed, UnlockLabels

---------------------------------------------------------------------------
(* Order *)

LEMMA PrioKeyed ==
  ASSUME KernelInv, NEW list \in Seq(Tasks)
  PROVE  Keyed(list, prio) /\ \A t \in Tasks : prio[t] \in Int
<1>1. prio \in [Tasks -> Int] BY ConfigAssumption DEF KernelInv, TypeOK, PoolTypes
<1> QED BY <1>1, DelaysKeyed

\* With nobody about to be moved, the lists are in order throughout.
LEMMA OrderNow ==
  ASSUME KernelInv, PriorityOrder, Moving = {}
  PROVE  ReadyOrder /\ WaitOrder
<1>1. ASSUME NEW list \in Seq(Tasks), SortedBy(list, prio) PROVE InOrder(list, prio)
  <2>1. DOMAIN list = 1 .. Len(list) BY LenProperties
  <2> QED BY <1>1, <2>1 DEF SortedBy, InOrder
<1>2. TCBRdy \in Seq(Tasks) /\ \A e \in Events : eventTCBList[e] \in Seq(Tasks)
  BY ListsNow DEF EventTypes
<1> QED BY <1>1, <1>2 DEF PriorityOrder, ReadyOrder, WaitOrder

LEMMA OrderIs == KernelInv /\ ReadyOrder /\ WaitOrder => PriorityOrder
<1> SUFFICES ASSUME KernelInv, ReadyOrder, WaitOrder PROVE PriorityOrder
  OBVIOUS
<1>1. ASSUME NEW list \in Seq(Tasks), InOrder(list, prio) PROVE SortedBy(list, prio)
  <2>1. DOMAIN list = 1 .. Len(list) BY LenProperties
  <2> QED BY <1>1, <2>1 DEF SortedBy, InOrder
<1>2. TCBRdy \in Seq(Tasks) /\ \A e \in Events : eventTCBList[e] \in Seq(Tasks)
  BY ListsNow DEF EventTypes
<1> QED BY <1>1, <1>2 DEF PriorityOrder, ReadyOrder, WaitOrder

LEMMA OrderStaysIn == KernelInv' /\ ReadyOrder' /\ WaitOrder' => PriorityOrder'
BY OrderIs, PTL

\* A list that is in order but for one task is in order without it.
LEMMA UnlinkSorted ==
  ASSUME NEW list \in Seq(Tasks), NEW key, NEW u, Contains(list, u), IsInjective(list),
         SortedBy(list, key), Moving = {u}
  PROVE  InOrder(Unlink(list, u), key)
<1> DEFINE new == Unlink(list, u)
<1>1. PICK at \in 1 .. Len(list) :
        /\ list[at] = u /\ Len(new) = Len(list) - 1
        /\ \A i \in 1 .. Len(list) - 1 : new[i] = IF i < at THEN list[i] ELSE list[i + 1]
  BY UnlinkPlace
<1>2. Len(list) \in Nat /\ DOMAIN list = 1 .. Len(list) BY LenProperties
<1> HIDE DEF new
<1>3. SUFFICES ASSUME NEW i \in 1 .. Len(new), NEW j \in 1 .. Len(new), i < j
               PROVE  key[new[i]] <= key[new[j]]
  BY DEF InOrder, new
<1> DEFINE Old(k) == IF k < at THEN k ELSE k + 1
<1>4. /\ Old(i) \in 1 .. Len(list) /\ Old(j) \in 1 .. Len(list) /\ Old(i) < Old(j)
      /\ Old(i) # at /\ Old(j) # at
      /\ new[i] = list[Old(i)] /\ new[j] = list[Old(j)]
  BY <1>1, <1>2, <1>3
<1> HIDE DEF Old
<1>5. list[Old(i)] # u /\ list[Old(j)] # u BY <1>1, <1>2, <1>4 DEF IsInjective
<1> QED BY <1>2, <1>4, <1>5 DEF SortedBy

\* A list without the one task that is moved is in order throughout.
LEMMA OrderElsewhere ==
  ASSUME NEW list \in Seq(Tasks), NEW key, NEW u, ~Contains(list, u), SortedBy(list, key), Moving = {u}
  PROVE  InOrder(list, key)
<1>1. Len(list) \in Nat /\ DOMAIN list = 1 .. Len(list) /\ \A i \in 1 .. Len(list) : list[i] # u
  BY LenProperties DEF Contains
<1> QED BY <1>1 DEF SortedBy, InOrder

---------------------------------------------------------------------------
(* What the operations on the lists do to the order *)

\* Where the task on the CPU stays with the call that asks for scheduling.
AskKept == pc[TCBNext] = "resched" => pc'[TCBNext] = "resched" \/ TaskSchedReq'

LEMMA ServedKept ==
  ASSUME Served, Moving = {}, UNCHANGED <<TCBRdy, prio, TCBNext>>, TaskSchedReq => TaskSchedReq', AskKept
  PROVE  Served'
BY DEF Served, Foremost, AskKept

\* A task that becomes ready: behind those of its priority, and scheduling is
\* asked for when it goes to the head.
LEMMA InsertServes ==
  ASSUME KernelInv, OrderKept, Moving = {}, NEW u \in Tasks, InsertToTCBRdyList(u),
         UNCHANGED <<prio, TCBNext>>, AskKept
  PROVE  ReadyOrder' /\ Served'
<1>1. /\ ReadyOrder /\ Served /\ TCBRdy \in Seq(Tasks) /\ Keyed(TCBRdy, prio)
      /\ \A t \in Tasks : prio[t] \in Int
  BY OrderNow, ListsNow, PrioKeyed DEF OrderKept
<1>2. /\ TCBRdy' = InsertBy(TCBRdy, prio, u)
      /\ TaskSchedReq' = (TaskSchedReq \/ TCBRdy = <<>> \/ prio[u] < prio[Head(TCBRdy)])
  BY DEF InsertToTCBRdyList
<1>3. ReadyOrder' BY <1>1, <1>2, InsertByOrder DEF ReadyOrder
<1>4. ASSUME ~TaskSchedReq', pc'[TCBNext] # "resched", NEW x \in Tasks, Contains(TCBRdy', x)
      PROVE  prio[TCBNext] <= prio[x]
  <2>1. ~TaskSchedReq /\ TCBRdy # <<>> /\ ~(prio[u] < prio[Head(TCBRdy)]) BY <1>2, <1>4
  <2>2. \A y \in Tasks : Contains(TCBRdy, y) => prio[TCBNext] <= prio[y]
    BY <1>1, <1>4, <2>1 DEF Served, Foremost, AskKept
  <2>3. CASE Contains(TCBRdy, x) BY <2>2, <2>3
  <2>4. CASE x = u
    <3>1. PICK h \in Tasks : h = Head(TCBRdy) BY <1>1, <2>1, HeadTailType
    <3>2. Contains(TCBRdy, h) BY <1>1, <2>1, <3>1, ListsNow, HeadTailItems DEF ReadyInv
    <3>3. TCBNext \in Tasks BY DEF KernelInv, TypeOK, RunTypes
    <3> QED BY <1>1, <2>1, <2>2, <2>4, <3>1, <3>2, <3>3
  <2> QED BY <1>1, <1>2, <1>4, <2>3, <2>4, InsertByItems
<1>5. Served' BY <1>4 DEF Served, Foremost
<1> QED BY <1>3, <1>5

\* The list of one event changes.
LEMMA OneListChanges ==
  ASSUME WaitOrder, NEW e \in Events, UNCHANGED <<prio, ecb>>,
         \A f \in Events \ {e} : eventTCBList'[f] = eventTCBList[f],
         ecb[e].eventSortType = "PRIO" => InOrder(eventTCBList'[e], prio)
  PROVE  WaitOrder'
BY DEF WaitOrder

LEMMA EventLeaves ==
  ASSUME KernelInv, WaitOrder, NEW t \in Tasks, eventID[t] # NULL, RemoveEventWaittingList(t),
         UNCHANGED <<prio, ecb>>
  PROVE  WaitOrder'
<1>1. PICK e \in Events : e = eventID[t] BY ListsNow DEF EventTypes
<1>2. eventTCBList[e] \in Seq(Tasks) /\ Contains(eventTCBList[e], t)
  BY <1>1, ListsNow DEF EventTypes, WaitInv
<1>3. /\ eventTCBList'[e] = Unlink(eventTCBList[e], t)
      /\ \A f \in Events \ {e} : eventTCBList'[f] = eventTCBList[f]
  BY <1>1, ListsNow DEF RemoveEventWaittingList, EventTypes
<1>4. ecb[e].eventSortType = "PRIO" => InOrder(eventTCBList'[e], prio)
  BY <1>2, <1>3, UnlinkOrder DEF WaitOrder
<1> QED BY <1>3, <1>4, OneListChanges

LEMMA EventJoins ==
  ASSUME KernelInv, WaitOrder, NEW t \in Tasks, NEW e \in Events, LinkEvent(e, t), UNCHANGED <<prio, ecb>>
  PROVE  WaitOrder'
<1>1. eventTCBList[e] \in Seq(Tasks) /\ Keyed(eventTCBList[e], prio) /\ prio[t] \in Int
  BY ListsNow, PrioKeyed DEF EventTypes
<1>2. /\ ecb[e].eventSortType # "FIFO" => eventTCBList'[e] = InsertBy(eventTCBList[e], prio, t)
      /\ \A f \in Events \ {e} : eventTCBList'[f] = eventTCBList[f]
  BY ListsNow DEF LinkEvent, EventTypes
<1>3. ecb[e].eventSortType = "PRIO" => InOrder(eventTCBList'[e], prio)
  BY <1>1, <1>2, InsertByOrder DEF WaitOrder
<1> QED BY <1>2, <1>3, OneListChanges

LEMMA PostOrders ==
  ASSUME KernelInv, KernelInv', OrderKept, Moving = {}, NEW e \in Events, NEW n, NEW mail,
         PostBody(e, n, mail), UNCHANGED <<prio, ecb, TCBNext>>, AskKept
  PROVE  OrderKept'
<1>1. ReadyOrder /\ WaitOrder /\ Served BY OrderNow DEF OrderKept
<1>2. CASE eventTCBList[e] = <<>>
  <2>1. UNCHANGED <<TCBRdy, TaskSchedReq, eventTCBList>> BY <1>2 DEF PostBody, listVars
  <2>2. ReadyOrder' /\ WaitOrder' BY <1>1, <2>1 DEF ReadyOrder, WaitOrder
  <2>3. Served' BY <1>1, <2>1, ServedKept
  <2> QED BY <2>2, <2>3, OrderStaysIn DEF OrderKept
<1>3. CASE eventTCBList[e] # <<>>
  <2>1. eventTCBList[e] \in Seq(Tasks) /\ Keyed(eventTCBList[e], prio) BY ListsNow, PrioKeyed DEF EventTypes
  <2>2. PICK w \in Tasks : w = Head(eventTCBList[e]) BY <1>3, <2>1, HeadTailType
  <2>3. /\ eventTCBList' = [eventTCBList EXCEPT ![e] = Tail(@)]
        /\ IF w = TCBRunning THEN UNCHANGED <<TCBRdy, TaskSchedReq>> ELSE InsertToTCBRdyList(w)
    BY <1>3, <2>2 DEF PostBody
  <2>4. /\ eventTCBList'[e] = Tail(eventTCBList[e])
        /\ \A f \in Events \ {e} : eventTCBList'[f] = eventTCBList[f]
    BY <2>3, ListsNow DEF EventTypes
  <2>5. WaitOrder'
    <3>1. ecb[e].eventSortType = "PRIO" => InOrder(eventTCBList'[e], prio)
      BY <1>1, <1>3, <2>1, <2>4, TailOrder DEF WaitOrder
    <3> QED BY <1>1, <2>4, <3>1, OneListChanges
  <2>6. ReadyOrder' /\ Served'
    <3>1. CASE w = TCBRunning BY <1>1, <2>3, <3>1, ServedKept DEF ReadyOrder
    <3>2. CASE w # TCBRunning BY <2>3, <3>2, InsertServes
    <3> QED BY <3>1, <3>2
  <2> QED BY <2>5, <2>6, OrderStaysIn DEF OrderKept
<1> QED BY <1>2, <1>3

\* Schedule(): the head of the ready list is the foremost task.
LEMMA ScheduleServes ==
  ASSUME KernelInv, KernelInv', OrderKept, Moving = {}, NEW level \in Int, NEW nesting \in Int,
         IF TaskSchedReq THEN Schedule(level, nesting) ELSE UNCHANGED <<listVars, TCBNext, PendSV>>,
         UNCHANGED <<prio, ecb, eventTCBList>>, AskKept
  PROVE  OrderKept'
<1>1. /\ ReadyOrder /\ WaitOrder /\ Served /\ TCBRdy \in Seq(Tasks) /\ IsInjective(TCBRdy)
      /\ TCBRunning \in Tasks /\ TCBNext \in Tasks /\ \A t \in Tasks : prio[t] \in Int
  BY OrderNow, ListsNow, PrioKeyed DEF OrderKept, KernelInv, TypeOK, RunTypes, ReadyInv
<1>2. WaitOrder' BY <1>1 DEF WaitOrder
<1>3. CASE UNCHANGED <<TCBRdy, TCBNext, TaskSchedReq>>
  <2>1. ReadyOrder' /\ Served' BY <1>1, <1>3, ServedKept DEF ReadyOrder
  <2> QED BY <1>2, <2>1, OrderStaysIn DEF OrderKept
<1>4. CASE ~UNCHANGED <<TCBRdy, TCBNext, TaskSchedReq>>
  <2>1. TCBRdy # <<>> /\ TCBRunning = TCBNext BY <1>4 DEF Schedule, listVars
  <2>2. PICK rdy \in Tasks : rdy = Head(TCBRdy) BY <1>1, <2>1, HeadTailType
  <2>3. /\ \A x \in Tasks : Contains(TCBRdy, x) => prio[rdy] <= prio[x]
        /\ InOrder(Tail(TCBRdy), prio) /\ Contains(TCBRdy, rdy)
        /\ \A x : Contains(Tail(TCBRdy), x) <=> Contains(TCBRdy, x) /\ x # rdy
    BY <1>1, <2>1, <2>2, TailOrder, PrioKeyed, HeadTailItems DEF ReadyOrder
  <2>4. PICK cur \in Tasks : cur = TCBRunning BY <1>1
  <2>5. \/ TCBRdy' = Tail(TCBRdy) /\ TCBNext' = rdy
        \/ prio[rdy] < prio[cur] /\ TCBRdy' = Unlink(InsertBy(TCBRdy, prio, cur), rdy) /\ TCBNext' = rdy
        \/ prio[rdy] >= prio[cur] /\ UNCHANGED <<TCBRdy, TCBNext>>
    BY <1>4, <2>1, <2>2, <2>4 DEF Schedule, listVars
  <2>6. CASE TCBRdy' = Tail(TCBRdy) /\ TCBNext' = rdy
    <3>1. ReadyOrder' /\ \A x \in Tasks : Contains(TCBRdy', x) => prio[TCBNext'] <= prio[x]
      BY <2>3, <2>6 DEF ReadyOrder
    <3> QED BY <1>2, <3>1, OrderStaysIn DEF OrderKept, Served, Foremost
  <2>7. CASE prio[rdy] < prio[cur] /\ TCBRdy' = Unlink(InsertBy(TCBRdy, prio, cur), rdy) /\ TCBNext' = rdy
    <3>1. PICK all \in Seq(Tasks) : all = InsertBy(TCBRdy, prio, cur) BY <1>1, InsertByType
    <3>2. InOrder(all, prio) BY <1>1, <3>1, InsertByOrder, PrioKeyed DEF ReadyOrder
    <3>3. \A x : Contains(all, x) <=> Contains(TCBRdy, x) \/ x = cur BY <1>1, <3>1, InsertByItems
    <3>4. TCBRdy' = Unlink(all, rdy) /\ Contains(all, rdy) BY <2>3, <2>7, <3>1, <3>3
    <3>5. ReadyOrder' BY <3>2, <3>4, UnlinkOrder DEF ReadyOrder
    <3>6. ASSUME NEW x \in Tasks, Contains(TCBRdy', x) PROVE prio[TCBNext'] <= prio[x]
      <4>1. Contains(all, x) \/ TCBRdy' = <<>>
        <5>1. \A i \in 1 .. Len(TCBRdy') : \E j \in 1 .. Len(all) : TCBRdy'[i] = all[j]
          BY <3>4, UnlinkPlace, LenProperties
        <5> QED BY <3>6, <5>1 DEF Contains
      <4> QED BY <1>1, <2>3, <2>7, <3>3, <3>6, <4>1, EmptyList
    <3> QED BY <1>2, <3>5, <3>6, OrderStaysIn DEF OrderKept, Served, Foremost
  <2>8. CASE prio[rdy] >= prio[cur] /\ UNCHANGED <<TCBRdy, TCBNext>>
    <3>1. \A x \in Tasks : Contains(TCBRdy, x) => prio[cur] <= prio[x] BY <1>1, <2>2, <2>3, <2>8
    <3>2. ReadyOrder' BY <1>1, <2>8 DEF ReadyOrder
    <3> QED BY <1>2, <2>1, <2>4, <2>8, <3>1, <3>2, OrderStaysIn DEF OrderKept, Served, Foremost
  <2> QED BY <2>5, <2>6, <2>7, <2>8
<1> QED BY <1>3, <1>4

---------------------------------------------------------------------------
(* The calls of a task *)

\* A step that touches neither the lists in order nor what orders them.
LEMMA OrderSteady ==
  ASSUME KernelInv, KernelInv', OrderKept, Moving = {},
         UNCHANGED <<TCBRdy, prio, ecb, eventTCBList, TCBNext>>, TaskSchedReq => TaskSchedReq', AskKept
  PROVE  OrderKept'
<1>1. ReadyOrder /\ WaitOrder /\ Served BY OrderNow DEF OrderKept
<1>2. ReadyOrder' /\ WaitOrder' BY <1>1 DEF ReadyOrder, WaitOrder
<1>3. Served' BY <1>1, ServedKept
<1> QED BY <1>2, <1>3, OrderStaysIn DEF OrderKept

LEMMA TaskCalm ==
  ASSUME KernelInv, NEW t \in Tasks, Runs(t), pc[t] \notin {"reorder", "unwait", "resched"}
  PROVE  Moving = {} /\ AskKept
<1>1. t = TCBRunning /\ t = TCBNext BY TaskAlone
<1> QED BY <1>1, NoMover DEF AskKept

\* The calls that leave the order alone.
LEMMA SteadyCalls ==
  ASSUME KernelInv, KernelInv', Disciplined, OrderKept, NEW t \in Tasks,
         \/ CoSchedLock(t) \/ CoSchedUnlock(t)
         \/ \E ticks \in Delays : CoTickDelay(t, ticks)
         \/ \E u \in Ids, ticks \in Delays : CoResetTaskDelayTick(t, u, ticks)
         \/ \E p \in Priorities, waiting \in BOOLEAN : CreateTask(t, p, waiting)
         \/ \E u \in Ids : CoDelTask(t, u) \/ CoAwakeTask(t, u)
         \/ SemCall(t) \/ MboxCall(t)
  PROVE  OrderKept'
<1>1. PICK call : Calls(t, call)
  BY DEF CoSchedLock, CoSchedUnlock, CoTickDelay, CoResetTaskDelayTick, CreateTask, CoDelTask, CoAwakeTask,
         SemCall, CoPendSem, CoAcceptSem, CoPostSem, MboxCall, CoPendMail, CoAcceptMail, CoPostMail
<1>2. Moving = {} /\ AskKept BY <1>1, RunsCalling, TaskCalm
<1>3. UNCHANGED <<TCBRdy, prio, ecb, eventTCBList, TCBNext>> /\ (TaskSchedReq => TaskSchedReq')
  <2>1. CASE CoSchedLock(t) \/ CoSchedUnlock(t)
    BY <2>1 DEF CoSchedLock, CoSchedUnlock, listVars, eventVars, poolVars, runVars
  <2>2. CASE \E ticks \in Delays : CoTickDelay(t, ticks)
    BY <2>2 DEF CoTickDelay, Block, eventVars, poolVars, runVars
  <2>3. CASE \/ \E u \in Ids, ticks \in Delays : CoResetTaskDelayTick(t, u, ticks)
             \/ \E u \in Ids : CoDelTask(t, u) \/ CoAwakeTask(t, u)
    BY <2>3 DEF CoResetTaskDelayTick, CoDelTask, CoAwakeTask, Continue, listVars, eventVars, poolVars, runVars
  <2>4. CASE \E p \in Priorities, waiting \in BOOLEAN : CreateTask(t, p, waiting)
    BY <2>4 DEF CreateTask, listVars, eventVars, runVars
  <2>5. CASE SemCall(t)
    BY <2>5 DEF SemCall, CoPendSem, CoAcceptSem, CoPostSem, Continue, listVars, eventVars, poolVars, runVars
  <2>6. CASE MboxCall(t)
    BY <2>6 DEF MboxCall, CoPendMail, CoAcceptMail, TakeMail, CoPostMail, Continue,
                listVars, eventVars, poolVars, runVars
  <2> QED BY <2>1, <2>2, <2>3, <2>4, <2>5, <2>6
<1> QED BY <1>2, <1>3, OrderSteady

\* CoSetPriority: a ready or a waiting task is about to be moved, the caller goes
\* on to ask for scheduling when a ready task now goes before it.
LEMMA SetPriorityOrders ==
  ASSUME KernelInv, KernelInv', Disciplined, OrderKept, NEW t \in Tasks, NEW u \in Ids,
         NEW p \in Priorities, CoSetPriority(t, u, p)
  PROVE  OrderKept'
<1>1. Runs(t) /\ pc[t] = "app" /\ u \in Tasks BY RunsCalling, CallValues DEF CoSetPriority
<1>2. Moving = {} /\ TCBNext = t /\ TCBRunning = t BY <1>1, TaskCalm, TaskAlone
<1>3. ReadyOrder /\ WaitOrder /\ Served BY <1>2, OrderNow DEF OrderKept
<1>4. /\ prio' = [prio EXCEPT ![u] = p] /\ arg' = [arg EXCEPT ![t] = [on |-> u, val |-> eventID[u]]]
      /\ UNCHANGED <<state, TCBRdy, TaskSchedReq, ecb, eventID, eventTCBList, TCBRunning, TCBNext>>
  BY DEF CoSetPriority, WithArg, listVars, eventVars, runVars
<1>5. PICK label \in {"reorder", "resched", "unwait", "app"} :
        /\ Goto(t, label)
        /\ label = "reorder" <=> state[u] = "READY"
        /\ label = "resched" <=> state[u] = "RUNNING" /\ p > prio[Head(TCBRdy)]
        /\ label = "unwait" <=> InPrioList(u) /\ state[u] # "READY"
  BY DEF CoSetPriority, InPrioList
<1>6. pc'[t] = label /\ arg'[t].on = u
  BY <1>4, <1>5 DEF Goto, KernelInv, TypeOK, ControlTypes, CallTypes, Contexts
<1>7. label \in {"reorder", "unwait"} => Moving' = {u}
  <2>1. ASSUME label \in {"reorder", "unwait"} PROVE Moving' = {u}
    <3>1. t \in {v \in Tasks : pc[v] \in {"reorder", "unwait"}}' BY <1>6, <2>1
    <3>2. \A v \in Tasks \ {t} : pc'[v] \notin {"reorder", "unwait"}
      <4>1. \A v \in Tasks \ {t} : pc'[v] = pc[v]
        BY <1>5 DEF Goto, KernelInv, TypeOK, ControlTypes, Contexts
      <4>2. \A v \in Tasks : pc[v] \notin {"reorder", "unwait"} BY <1>2 DEF Moving
      <4> QED BY <4>1, <4>2
    <3>3. {v \in Tasks : pc[v] \in {"reorder", "unwait"}}' = {t} BY <3>1, <3>2
    <3> QED BY <1>6, <3>3 DEF Moving
  <2> QED BY <2>1
<1>8. prio'[u] = p /\ \A v \in Tasks \ {u} : prio'[v] = prio[v] BY <1>1, <1>4, ListsNow DEF PoolTypes
<1>9. /\ TCBRdy \in Seq(Tasks) /\ \A e \in Events : eventTCBList[e] \in Seq(Tasks)
      /\ \A v \in Tasks : prio[v] \in Int
  BY ListsNow, PrioKeyed DEF EventTypes
\* a list is in order still but for u, and that only when u is about to be moved
<1>10. ASSUME NEW list \in Seq(Tasks), InOrder(list, prio), Contains(list, u) => u \in Moving'
       PROVE  SortedBy(list, prio)'
  <2>1. Len(list) \in Nat /\ DOMAIN list = 1 .. Len(list) /\ \A i \in 1 .. Len(list) : list[i] \in Tasks
    BY LenProperties
  <2>2. SUFFICES ASSUME NEW i \in DOMAIN list, NEW j \in DOMAIN list, i < j, list[i] # u, list[j] # u
                 PROVE  prio'[list[i]] <= prio'[list[j]]
    BY <1>10, <2>1, ContainsMeans DEF SortedBy
  <2> QED BY <1>8, <1>10, <2>1, <2>2 DEF InOrder
<1>11. PriorityOrder'
  <2>1. Contains(TCBRdy, u) => u \in Moving'
    BY <1>1, <1>5, <1>7, ListsNow DEF ReadyInv
  <2>2. SortedBy(TCBRdy, prio)' BY <1>3, <1>4, <1>9, <1>10, <2>1 DEF ReadyOrder, SortedBy
  <2>3. ASSUME NEW e \in Events, ecb[e].eventSortType = "PRIO" PROVE SortedBy(eventTCBList[e], prio)'
    <3>1. Contains(eventTCBList[e], u) => u \in Moving'
      <4>1. Contains(eventTCBList[e], u) => eventID[u] = e /\ eventID[u] # NULL /\ state[u] = "WAITING"
        BY <1>1, ListsNow, ContextAssumption DEF WaitInv
      <4> QED BY <1>5, <1>7, <2>3, <4>1 DEF InPrioList
    <3> QED BY <1>3, <1>4, <1>9, <1>10, <2>3, <3>1 DEF WaitOrder, SortedBy
  <2> QED BY <1>4, <2>2, <2>3 DEF PriorityOrder
<1>12. Served'
  <2>1. SUFFICES ASSUME ~TaskSchedReq, label # "resched", NEW x \in Tasks, Contains(TCBRdy, x), x \notin Moving'
                 PROVE  prio'[t] <= prio'[x]
    BY <1>2, <1>4, <1>6 DEF Served, Foremost
  <2>2. \A y \in Tasks : Contains(TCBRdy, y) => prio[t] <= prio[y] /\ state[y] = "READY"
    BY <1>1, <1>2, <1>3, <2>1, ListsNow DEF Served, Foremost, ReadyInv
  <2>3. x # u BY <1>5, <1>7, <2>1, <2>2
  <2>4. CASE u # t BY <1>8, <2>1, <2>2, <2>3, <2>4
  <2>5. CASE u = t
    <3>1. TCBRdy # <<>> BY <2>1, EmptyList
    <3>2. PICK h \in Tasks : h = Head(TCBRdy) BY <1>9, <3>1, HeadTailType
    <3>3. ~(p > prio[h]) BY <1>1, <1>5, <2>1, <2>5, <3>2, TaskFree
    <3>4. prio[h] <= prio[x] BY <1>3, <1>9, <2>1, <3>1, <3>2, TailOrder, PrioKeyed DEF ReadyOrder
    <3>5. p \in Int BY CallValues, ConfigAssumption
    <3> QED BY <1>8, <1>9, <2>1, <2>3, <2>5, <3>3, <3>4, <3>5
  <2> QED BY <2>4, <2>5
<1> QED BY <1>11, <1>12 DEF OrderKept

---------------------------------------------------------------------------
(* The steps behind the unlocked tests *)

LEMMA SteadySteps ==
  ASSUME KernelInv, KernelInv', Disciplined, OrderKept, NEW t \in Tasks,
         ResetBody(t) \/ RescheduleBody(t) \/ Decrement(t) \/ Woken(t)
  PROVE  OrderKept'
<1>1. PICK label \in {"reset", "resched", "decrement", "semwoken", "mailwoken"} : At(t, label)
  BY DEF ResetBody, RescheduleBody, Decrement, Woken
<1>2. Runs(t) /\ pc[t] = label BY <1>1, RunsInCall DEF UnlockLabels
<1>3. Moving = {} /\ t = TCBNext BY <1>2, NoMover, TaskAlone
<1>4. CASE ResetBody(t)
  <2>1. pc[t] = "reset" /\ arg[t].val # 0
    BY <1>2, <1>4 DEF ResetBody, At, KernelInv, OrderInv, ManageInv, Managed
  <2>2. UNCHANGED <<TCBRdy, prio, ecb, eventTCBList, TCBNext>> /\ (TaskSchedReq => TaskSchedReq')
    BY <1>4, <2>1 DEF ResetBody, Fault, Block, listVars, eventVars, poolVars, runVars
  <2>3. AskKept BY <1>3, <2>1 DEF AskKept
  <2> QED BY <1>3, <2>2, <2>3, OrderSteady
<1>5. CASE RescheduleBody(t)
  <2>1. UNCHANGED <<TCBRdy, prio, ecb, eventTCBList, TCBNext>> /\ TaskSchedReq'
    BY <1>5 DEF RescheduleBody, eventVars, poolVars, runVars
  <2> QED BY <1>3, <2>1, OrderSteady DEF AskKept
<1>6. CASE Decrement(t) \/ Woken(t)
  <2>1. UNCHANGED <<TCBRdy, prio, ecb, eventTCBList, TCBNext, TaskSchedReq>>
    BY <1>6 DEF Decrement, Woken, listVars, poolVars, runVars
  <2>2. AskKept BY <1>2, <1>3, <1>6 DEF AskKept, Decrement, Woken, At
  <2> QED BY <1>3, <2>1, <2>2, OrderSteady
<1> QED BY <1>4, <1>5, <1>6

LEMMA AwakeOrders ==
  ASSUME KernelInv, KernelInv', OrderKept, NEW t \in Tasks, AwakeBody(t)
  PROVE  OrderKept'
<1>0. PICK u \in Tasks : u = arg[t].on BY ManagerAt DEF AwakeBody, Managing
<1>1. /\ Runs(t) /\ pc[t] = "awake"
      /\ state[u] = "WAITING" /\ delay[u] = INVALID_VALUE /\ eventID[u] = NULL
  BY <1>0, ManagerAt DEF AwakeBody, Managing, Tested
<1>2. ~Contains(DlyList, u) BY <1>1, ListsNow, TaskAlone DEF DelayInv
<1>3. InsertToTCBRdyList(u) /\ UNCHANGED <<prio, ecb, eventTCBList, TCBNext>>
  BY <1>0, <1>1, <1>2 DEF AwakeBody, Fault, eventVars, poolVars, runVars
<1>4. Moving = {} /\ AskKept BY <1>1, TaskCalm
<1>5. WaitOrder' BY <1>3, <1>4, OrderNow DEF OrderKept, WaitOrder
<1> QED BY <1>3, <1>4, <1>5, InsertServes, OrderStaysIn DEF OrderKept

\* CreateTask: the priority that changes is that of a task in no list.
LEMMA InitTaskOrders ==
  ASSUME KernelInv, KernelInv', OrderKept, NEW t \in Tasks, InitTask(t)
  PROVE  OrderKept'
<1>1. Runs(t) /\ pc[t] \in {"init", "initwait"} BY RunsInCall DEF InitTask, UnlockLabels
<1>2. Fits(pc[t], arg[t]) BY <1>1, ArgAt DEF InitTask, At, KernelInv, TypeOK, UnlockLabels
<1>3. PICK u \in Tasks, n \in 0 .. CFG_LOWEST_PRIO : u = arg[t].on /\ n = arg[t].val
  BY <1>1, <1>2 DEF Fits, TaskArgLabels
<1>4. Newborn(u)
  <2>1. Creating(t) BY <1>1 DEF Creating, After, UnlockLabels
  <2> QED BY <1>3, <2>1, ListsNow DEF PoolInv
<1>5. /\ u # t /\ ~Contains(TCBRdy, u) /\ \A e \in Events : ~Contains(eventTCBList[e], u)
      /\ TCBNext = t /\ TCBRunning = t
  BY <1>1, <1>4, ListsNow, TaskFree, TaskAlone, ContextAssumption DEF Newborn, PoolInv, ReadyInv, WaitInv
<1>6. Moving = {} /\ ReadyOrder /\ WaitOrder /\ Served /\ pc[TCBNext] # "resched"
  BY <1>1, <1>5, TaskCalm, OrderNow DEF OrderKept
<1>7. /\ prio' = [prio EXCEPT ![u] = n] /\ UNCHANGED <<ecb, eventTCBList, TCBNext>>
      /\ \/ UNCHANGED <<TCBRdy, TaskSchedReq>>
         \/ /\ TCBRdy' = InsertBy(TCBRdy, prio', u)
            /\ TaskSchedReq' = (TaskSchedReq \/ TCBRdy = <<>> \/ prio'[u] < prio'[Head(TCBRdy)])
  BY <1>1, <1>3 DEF InitTask, runVars
<1>8. /\ prio \in [Tasks -> Int] /\ n \in Int /\ prio' \in [Tasks -> Int] /\ TCBRdy \in Seq(Tasks)
      /\ \A e \in Events : eventTCBList[e] \in Seq(Tasks)
      /\ prio'[u] = n /\ \A v \in Tasks \ {u} : prio'[v] = prio[v]
  BY <1>7, ListsNow, ConfigAssumption DEF PoolTypes, EventTypes
<1>9. InOrder(TCBRdy, prio') BY <1>5, <1>6, <1>7, <1>8, OrderWithout DEF ReadyOrder
<1>10. WaitOrder' BY <1>5, <1>6, <1>7, <1>8, OrderWithout DEF WaitOrder
<1>11. \A x \in Tasks : ~TaskSchedReq /\ Contains(TCBRdy, x) => prio'[t] <= prio'[x]
  BY <1>5, <1>6, <1>8 DEF Served, Foremost
<1>12. CASE UNCHANGED <<TCBRdy, TaskSchedReq>>
  <2>1. ReadyOrder' BY <1>9, <1>12 DEF ReadyOrder
  <2>2. Served' BY <1>5, <1>7, <1>11, <1>12 DEF Served, Foremost
  <2> QED BY <1>10, <2>1, <2>2, OrderStaysIn DEF OrderKept
<1>13. CASE /\ TCBRdy' = InsertBy(TCBRdy, prio', u)
            /\ TaskSchedReq' = (TaskSchedReq \/ TCBRdy = <<>> \/ prio'[u] < prio'[Head(TCBRdy)])
  <2>1. ReadyOrder'
    <3>1. Keyed(TCBRdy, prio') BY <1>8, DelaysKeyed
    <3> QED BY <1>8, <1>9, <1>13, <3>1, InsertByOrder DEF ReadyOrder
  <2>2. ASSUME ~TaskSchedReq', NEW x \in Tasks, Contains(TCBRdy', x) PROVE prio'[t] <= prio'[x]
    <3>1. ~TaskSchedReq /\ TCBRdy # <<>> /\ ~(prio'[u] < prio'[Head(TCBRdy)]) BY <1>13, <2>2
    <3>2. CASE Contains(TCBRdy, x) BY <1>11, <3>1, <3>2
    <3>3. CASE x = u
      <4>1. PICK h \in Tasks : h = Head(TCBRdy) BY <1>8, <3>1, HeadTailType
      <4>2. Contains(TCBRdy, h) BY <1>8, <3>1, <4>1, ListsNow, HeadTailItems DEF ReadyInv
      <4>3. prio'[t] <= prio'[h] BY <1>11, <3>1, <4>2
      <4> QED BY <1>8, <3>1, <3>3, <4>1, <4>3
    <3> QED BY <1>8, <1>13, <2>2, <3>2, <3>3, InsertByItems
  <2>3. Served' BY <1>5, <1>7, <2>2 DEF Served, Foremost
  <2> QED BY <1>10, <2>1, <2>3, OrderStaysIn DEF OrderKept
<1> QED BY <1>7, <1>12, <1>13

LEMMA DeleteOrders ==
  ASSUME KernelInv, KernelInv', OrderKept, NEW t \in Tasks, DeleteBody(t)
  PROVE  OrderKept'
<1>1. PICK u \in Tasks : u = arg[t].on BY ManagerAt DEF DeleteBody, Managing
<1>2. /\ Runs(t) /\ pc[t] = "delete"
      /\ \/ u = t /\ OSSchedLock = 0
         \/ u # t /\ u # Idle /\ state[u] # "DORMANT" /\ pc[u] # "off"
  BY <1>1, ManagerAt DEF DeleteBody, Managing, Tested
<1>3. ~Contains(FreeTCB, u) /\ (state[u] = "READY" => Contains(TCBRdy, u))
  BY <1>2, ListsNow, TaskFree DEF PoolInv, ReadyInv
<1>4. /\ TCBRdy' = IF state[u] = "READY" THEN Unlink(TCBRdy, u) ELSE TCBRdy
      /\ IF state[u] = "WAITING" /\ eventID[u] # NULL
         THEN RemoveEventWaittingList(u) ELSE UNCHANGED <<eventID, eventTCBList>>
      /\ TaskSchedReq' /\ UNCHANGED <<prio, ecb>>
  BY <1>1, <1>3, NotMisled DEF DeleteBody
<1>5. ReadyOrder /\ WaitOrder BY <1>2, TaskCalm, OrderNow DEF OrderKept
<1>6. ReadyOrder' BY <1>3, <1>4, <1>5, ListsNow, UnlinkOrder DEF ReadyOrder
<1>7. WaitOrder'
  <2>1. CASE state[u] = "WAITING" /\ eventID[u] # NULL BY <1>4, <1>5, <2>1, EventLeaves
  <2>2. CASE ~(state[u] = "WAITING" /\ eventID[u] # NULL) BY <1>4, <1>5, <2>2 DEF WaitOrder
  <2> QED BY <2>1, <2>2
<1> QED BY <1>4, <1>6, <1>7, OrderStaysIn DEF OrderKept, Served

\* The two halves of a move: the list is in order once the task is out of it, and
\* again when it is back in.
LEMMA ReorderOrders ==
  ASSUME KernelInv, KernelInv', OrderKept, NEW t \in Tasks, ReorderBody(t)
  PROVE  OrderKept'
<1>0. PICK u \in Tasks : u = arg[t].on BY ManagerAt DEF ReorderBody, Managing
<1>1. Runs(t) /\ pc[t] = "reorder" /\ state[u] = "READY" /\ pc[u] # "off"
  BY <1>0, ManagerAt DEF ReorderBody, Managing, Tested
<1>2. Contains(TCBRdy, u) /\ eventID[u] = NULL /\ TCBRdy \in Seq(Tasks) /\ IsInjective(TCBRdy)
  BY <1>1, ListsNow DEF ReadyInv, WaitInv
<1>3. Moving = {u} /\ TCBNext = t
  <2>1. t \in {v \in Tasks : pc[v] \in {"reorder", "unwait"}} /\ t = TCBRunning /\ t = TCBNext
    BY <1>1, TaskAlone
  <2>2. Moving # {} BY <2>1 DEF Moving
  <2> QED BY <1>0, <2>1, <2>2, Mover
<1>4. PICK rest \in Seq(Tasks) : rest = Unlink(TCBRdy, u) BY <1>2, UnlinkType
<1>5. /\ InOrder(rest, prio) /\ IsInjective(rest) /\ \A x : Contains(rest, x) <=> Contains(TCBRdy, x) /\ x # u
  BY <1>2, <1>3, <1>4, UnlinkSorted, UnlinkItems DEF OrderKept, PriorityOrder
<1>6. WaitOrder
  <2>1. ASSUME NEW e \in Events, ecb[e].eventSortType = "PRIO" PROVE InOrder(eventTCBList[e], prio)
    <3>1. eventTCBList[e] \in Seq(Tasks) /\ ~Contains(eventTCBList[e], u)
      BY <1>2, ListsNow, ContextAssumption DEF WaitInv, EventTypes
    <3> QED BY <1>3, <2>1, <3>1, OrderElsewhere DEF OrderKept, PriorityOrder
  <2> QED BY <2>1 DEF WaitOrder
<1>7. /\ TCBRdy' = InsertBy(rest, prio, u)
      /\ TaskSchedReq' = (TaskSchedReq \/ rest = <<>> \/ prio[u] < prio[Head(rest)])
      /\ UNCHANGED <<prio, ecb, eventTCBList, TCBNext>>
  BY <1>0, <1>2, <1>4 DEF ReorderBody, eventVars, poolVars, runVars
<1>8. ReadyOrder' BY <1>4, <1>5, <1>7, InsertByOrder, PrioKeyed DEF ReadyOrder
<1>9. WaitOrder' BY <1>6, <1>7 DEF WaitOrder
<1>10. ASSUME ~TaskSchedReq', NEW x \in Tasks, Contains(TCBRdy', x) PROVE prio[t] <= prio[x]
  <2>1. ~TaskSchedReq /\ rest # <<>> /\ ~(prio[u] < prio[Head(rest)]) BY <1>7, <1>10
  <2>2. \A y \in Tasks : Contains(rest, y) => prio[t] <= prio[y]
    BY <1>1, <1>3, <1>5, <2>1 DEF OrderKept, Served, Foremost
  <2>3. CASE Contains(rest, x) BY <2>2, <2>3
  <2>4. CASE x = u
    <3>1. PICK h \in Tasks : h = Head(rest) BY <1>4, <2>1, HeadTailType
    <3>2. Contains(rest, h) BY <1>4, <1>5, <2>1, <3>1, HeadTailItems
    <3> QED BY <2>1, <2>2, <2>4, <3>1, <3>2, PrioKeyed
  <2> QED BY <1>4, <1>7, <1>10, <2>3, <2>4, InsertByItems
<1>11. Served' BY <1>3, <1>7, <1>10 DEF Served, Foremost
<1> QED BY <1>8, <1>9, <1>11, OrderStaysIn DEF OrderKept

LEMMA UnwaitOrders ==
  ASSUME KernelInv, KernelInv', OrderKept, NEW t \in Tasks, UnwaitBody(t)
  PROVE  OrderKept'
<1>0. PICK u \in Tasks : u = arg[t].on BY ManagerAt DEF UnwaitBody, Managing
<1>1. Runs(t) /\ pc[t] = "unwait" /\ eventID[u] # NULL
  BY <1>0, ManagerAt DEF UnwaitBody, Managing, Tested
<1>2. ~Contains(TCBRdy, u) /\ TCBRdy \in Seq(Tasks)
  BY <1>1, ListsNow DEF ReadyInv, WaitInv
<1>3. Moving = {u} /\ TCBNext = t
  <2>1. t \in {v \in Tasks : pc[v] \in {"reorder", "unwait"}} /\ t = TCBRunning /\ t = TCBNext
    BY <1>1, TaskAlone
  <2>2. Moving # {} BY <2>1 DEF Moving
  <2> QED BY <1>0, <2>1, <2>2, Mover
<1>4. PICK e \in Events : e = eventID[u] BY <1>1, ListsNow DEF EventTypes
<1>5. /\ eventTCBList' = [eventTCBList EXCEPT ![e] = Unlink(@, u)]
      /\ UNCHANGED <<TCBRdy, TaskSchedReq, prio, ecb, TCBNext>>
  BY <1>0, <1>1, <1>4, NotMisled DEF UnwaitBody, RemoveEventWaittingList, listVars, poolVars, runVars
<1>6. \A f \in Events : /\ eventTCBList[f] \in Seq(Tasks) /\ IsInjective(eventTCBList[f])
                        /\ Contains(eventTCBList[f], u) <=> f = e
  BY <1>4, ListsNow DEF EventTypes, WaitInv
<1>7. ReadyOrder' BY <1>2, <1>3, <1>5, OrderElsewhere DEF OrderKept, PriorityOrder, ReadyOrder
<1>8. WaitOrder'
  <2>1. ASSUME NEW f \in Events, ecb[f].eventSortType = "PRIO" PROVE InOrder(eventTCBList'[f], prio)
    <3>1. SortedBy(eventTCBList[f], prio) BY <2>1 DEF OrderKept, PriorityOrder
    <3>2. CASE f = e
      <4>1. eventTCBList'[f] = Unlink(eventTCBList[f], u) BY <1>5, <3>2, ListsNow DEF EventTypes
      <4> QED BY <1>3, <1>6, <3>1, <3>2, <4>1, UnlinkSorted
    <3>3. CASE f # e
      <4>1. eventTCBList'[f] = eventTCBList[f] BY <1>5, <3>3, ListsNow DEF EventTypes
      <4> QED BY <1>3, <1>6, <3>1, <3>3, <4>1, OrderElsewhere
    <3> QED BY <3>2, <3>3
  <2> QED BY <1>5, <2>1 DEF WaitOrder
<1>9. Served' BY <1>1, <1>2, <1>3, <1>5 DEF OrderKept, Served, Foremost
<1> QED BY <1>7, <1>8, <1>9, OrderStaysIn DEF OrderKept

LEMMA LinkOrders ==
  ASSUME KernelInv, KernelInv', OrderKept, NEW t \in Tasks, RewaitBody(t) \/ BlockBody(t)
  PROVE  OrderKept'
<1>1. PICK label \in {"rewait", "semblock", "mailblock"} : At(t, label) BY DEF RewaitBody, BlockBody
<1>2. Runs(t) /\ pc[t] = label BY <1>1, RunsInCall DEF UnlockLabels
<1>3. Fits(label, arg[t]) BY <1>1, <1>2, ArgAt DEF KernelInv, TypeOK, UnlockLabels
<1>4. PICK u \in Tasks, e \in Events : LinkEvent(e, u) /\ UNCHANGED <<TCBRdy, prio, ecb>> /\ TaskSchedReq'
  <2>1. CASE RewaitBody(t)
    <3>1. PICK u \in Tasks : u = arg[t].on BY <2>1, ManagerAt DEF RewaitBody, Managing
    <3>2. state[u] = "WAITING" BY <2>1, <3>1, ManagerAt DEF RewaitBody, Managing, Tested
    <3>3. arg[t].val \in Events BY <1>2, <1>3, <2>1 DEF RewaitBody, At, Fits
    <3> QED BY <2>1, <3>1, <3>2, <3>3 DEF RewaitBody, Block, poolVars
  <2>2. CASE BlockBody(t)
    <3>1. arg[t].on \in Events BY <1>2, <1>3, <2>2 DEF BlockBody, At, Fits, EventArgLabels
    <3> QED BY <2>2, <3>1 DEF BlockBody, Block, poolVars
  <2> QED BY <2>1, <2>2
<1>5. ReadyOrder /\ WaitOrder BY <1>2, TaskCalm, OrderNow DEF OrderKept
<1>6. ReadyOrder' /\ WaitOrder' BY <1>4, <1>5, EventJoins DEF ReadyOrder
<1> QED BY <1>4, <1>6, OrderStaysIn DEF OrderKept, Served

LEMMA TaskPostOrders ==
  ASSUME KernelInv, KernelInv', OrderKept, NEW t \in Tasks, PostSem(t) \/ PostMail(t)
  PROVE  OrderKept'
<1>1. Runs(t) /\ pc[t] \in {"postsem", "postmail"} BY RunsInCall DEF PostSem, PostMail, UnlockLabels
<1>2. Fits(pc[t], arg[t]) BY <1>1, ArgAt DEF PostSem, PostMail, At, KernelInv, TypeOK, UnlockLabels
<1>3. PICK e \in Events : e = arg[t].on BY <1>1, <1>2 DEF Fits, EventArgLabels
<1>4. pc[t] = "postmail" => ~Contains(FreeEventList, e) BY <1>3, ListsNow DEF BoxInv
<1>5. PICK n, mail : PostBody(e, n, mail)
  BY <1>1, <1>3, <1>4 DEF PostSem, PostMail, At, PostSemBody, PostMailBody
<1>6. UNCHANGED <<prio, ecb, TCBNext>>
  BY <1>1, <1>3, <1>4 DEF PostSem, PostMail, At, poolVars, runVars
<1> QED BY <1>1, <1>5, <1>6, TaskCalm, PostOrders

---------------------------------------------------------------------------
(* OsSchedUnlock and the exceptions *)

LEMMA UnlockCalm ==
  ASSUME KernelInv, NEW c \in Contexts, UnlockStep(c)
  PROVE  Moving = {} /\ AskKept
<1>1. /\ OnCPU(c) /\ pc[c] \in UnlockLabels \cup {"clear"}
      /\ pc' = pc \/ \E label \in UnlockLabels \cup {"clear", ret[c]} : Goto(c, label)
  BY DEF UnlockStep, BeginUnlock, DisposeHead, UnlinkHead, EndDispose, ClearTimeReq, RespondCell, EndCells,
         ClearIsrReq, UnlockSchedule, ClearLock, At, UnlockLabels
<1>2. Moving = {}
  <2>1. CASE pc[c] \in UnlockLabels BY <1>1, <2>1, NoMover
  <2>2. CASE pc[c] = "clear" /\ c \in Tasks
    <3>1. c = TCBRunning BY <1>1, <2>2, CpuAlone DEF KernelInv
    <3> QED BY <2>2, <3>1, NoMover
  <2>3. CASE pc[c] = "clear" /\ c \notin Tasks
    <3>1. HandlerLocks BY <2>3 DEF HandlerLocks, Locking, Contexts
    <3> QED BY <3>1, Mover DEF Undisturbed
  <2> QED BY <1>1, <2>1, <2>2, <2>3
<1>3. AskKept
  <2>1. pc'[TCBNext] = pc[TCBNext] \/ TCBNext = c
    BY <1>1 DEF Goto, KernelInv, TypeOK, ControlTypes, RunTypes, Contexts
  <2> QED BY <1>1, <2>1 DEF AskKept, UnlockLabels
<1> QED BY <1>2, <1>3

LEMMA UnlockOrders ==
  ASSUME KernelInv, KernelInv', OrderKept, NEW c \in Contexts, UnlockStep(c)
  PROVE  OrderKept'
<1>1. Moving = {} /\ AskKept BY UnlockCalm
<1>2. ReadyOrder /\ WaitOrder BY <1>1, OrderNow DEF OrderKept
<1>3. CASE BeginUnlock(c) \/ EndDispose(c) \/ ClearTimeReq(c) \/ EndCells(c) \/ ClearIsrReq(c) \/ ClearLock(c)
  <2>1. UNCHANGED <<TCBRdy, TaskSchedReq, prio, ecb, eventTCBList, TCBNext>>
    BY <1>3 DEF BeginUnlock, EndDispose, ClearTimeReq, EndCells, ClearIsrReq, ClearLock,
                listVars, eventVars, poolVars, runVars
  <2> QED BY <1>1, <2>1, OrderSteady
<1>4. CASE DisposeHead(c)
  <2>1. DlyList # <<>> /\ UNCHANGED <<TCBRdy, TaskSchedReq, prio, ecb, TCBNext>>
    BY <1>4 DEF DisposeHead, Expired, listVars, poolVars, runVars
  <2>2. PICK h \in Tasks : h = Head(DlyList) BY <2>1, HeadTailType, ListsNow DEF DelayTypes
  <2>3. IF eventID[h] # NULL THEN RemoveEventWaittingList(h) ELSE UNCHANGED <<eventID, eventTCBList>>
    BY <1>4, <2>2 DEF DisposeHead
  <2>4. WaitOrder'
    <3>1. CASE eventID[h] # NULL BY <1>2, <2>1, <2>3, <3>1, EventLeaves
    <3>2. CASE eventID[h] = NULL BY <1>2, <2>1, <2>3, <3>2 DEF WaitOrder
    <3> QED BY <3>1, <3>2
  <2>5. ReadyOrder' /\ Served' BY <1>1, <1>2, <2>1, ServedKept DEF ReadyOrder, OrderKept
  <2> QED BY <2>4, <2>5, OrderStaysIn DEF OrderKept
<1>5. CASE UnlinkHead(c)
  <2>1. Disposing BY <1>5 DEF UnlinkHead, At, Disposing
  <2>2. PICK h \in Tasks : h = Head(DlyList) BY <2>1, HeadTailType, ListsNow DEF DelayTypes, DelayInv
  <2>3. InsertToTCBRdyList(h) /\ UNCHANGED <<prio, ecb, eventTCBList, TCBNext>>
    BY <1>5, <2>2 DEF UnlinkHead, eventVars, poolVars, runVars
  <2>4. ReadyOrder' /\ Served' BY <1>1, <2>3, InsertServes
  <2>5. WaitOrder' BY <1>2, <2>3 DEF WaitOrder
  <2> QED BY <2>4, <2>5, OrderStaysIn DEF OrderKept
<1>6. CASE RespondCell(c)
  <2>1. ServiceReq # <<>> /\ ServiceReq \in Seq(Requests)
    BY <1>6 DEF RespondCell, KernelInv, TypeOK, ReqTypes
  <2>2. PICK cell \in Requests : cell = Head(ServiceReq) BY <2>1, HeadTailType
  <2>3. /\ UNCHANGED <<prio, ecb, TCBNext>>
        /\ PostSemBody(cell.id) \/ PostMailBody(cell.id, cell.arg) \/ NothingPosted
    BY <1>6, <2>2 DEF RespondCell, poolVars, runVars
  <2>4. cell.id \in Events BY <2>2 DEF Requests
  <2>5. CASE NothingPosted
    <3>1. UNCHANGED <<TCBRdy, TaskSchedReq, eventTCBList>> BY <2>5 DEF NothingPosted, listVars, eventVars
    <3> QED BY <1>1, <2>3, <3>1, OrderSteady
  <2>6. ASSUME NEW n, NEW mail, PostBody(cell.id, n, mail) PROVE OrderKept'
    BY <1>1, <2>3, <2>4, <2>6, PostOrders
  <2> QED BY <2>3, <2>5, <2>6 DEF PostSemBody, PostMailBody
<1>7. CASE UnlockSchedule(c)
  <2>1. /\ IF TaskSchedReq THEN Schedule(OSSchedLock, InHandler) ELSE UNCHANGED <<listVars, TCBNext, PendSV>>
        /\ UNCHANGED <<prio, ecb, eventTCBList>>
    BY <1>7 DEF UnlockSchedule, eventVars, poolVars
  <2>2. OSSchedLock \in Int /\ InHandler \in Int BY DEF KernelInv, LockInv, InHandler
  <2> QED BY <1>1, <2>1, <2>2, ScheduleServes
<1> QED BY <1>3, <1>4, <1>5, <1>6, <1>7 DEF UnlockStep

\* A step during which a task may be about to be moved: it stays so.
LEMMA OrderUntouched ==
  ASSUME OrderKept, UNCHANGED <<TCBRdy, prio, ecb, eventTCBList, TCBNext, arg>>,
         \A t \in Tasks : pc'[t] = pc[t], TaskSchedReq => TaskSchedReq', TCBNext \in Tasks
  PROVE  OrderKept'
<1>1. Moving' = Moving BY DEF Moving
<1>2. PriorityOrder' BY <1>1 DEF OrderKept, PriorityOrder, SortedBy
<1>3. Served' BY <1>1 DEF OrderKept, Served, Foremost
<1> QED BY <1>2, <1>3 DEF OrderKept

LEMMA ExceptionOrders ==
  ASSUME KernelInv, KernelInv', OrderKept, TickEnter \/ Interrupt \/ IsrExit \/ PendSV_Handler
  PROVE  OrderKept'
<1>1. TCBNext \in Tasks /\ DOMAIN pc = Contexts BY DEF KernelInv, LockInv, TypeOK, RunTypes
<1>2. \A t \in Tasks : pc'[t] = pc[t]
  <2>1. pc' = pc \/ \E h \in {SysTick, Isr}, label \in Labels : Goto(h, label)
    BY DEF TickEnter, Interrupt, isr_PostSem, isr_PostMail, IsrPost, LockedSection, IsrExit, PendSV_Handler,
           Labels, UnlockLabels
  <2> QED BY <1>1, <2>1, ContextAssumption DEF Goto, Contexts
<1>3. AskKept BY <1>1, <1>2 DEF AskKept
<1>4. CASE TickEnter \/ PendSV_Handler
  <2>1. UNCHANGED <<TCBRdy, prio, ecb, eventTCBList, TCBNext, arg>> /\ (TaskSchedReq => TaskSchedReq')
    BY <1>4 DEF TickEnter, PendSV_Handler, listVars, eventVars, poolVars, runVars, callVars
  <2> QED BY <1>1, <1>2, <2>1, OrderUntouched
<1>5. CASE Interrupt
  <2>1. PICK e \in Events : \E mail : isr_PostSem(e) \/ isr_PostMail(e, mail) BY <1>5 DEF Interrupt
  <2>2. UNCHANGED <<prio, ecb, TCBNext, arg>>
    BY <2>1 DEF isr_PostSem, isr_PostMail, IsrPost, poolVars, runVars
  <2>3. CASE NothingPosted
    <3>1. UNCHANGED <<TCBRdy, TaskSchedReq, eventTCBList>> BY <2>3 DEF NothingPosted, listVars, eventVars
    <3> QED BY <1>1, <1>2, <2>2, <3>1, OrderUntouched
  <2>4. ASSUME OSSchedLock = 0, NEW n, NEW m, PostBody(e, n, m) PROVE OrderKept'
    <3>1. Moving = {} BY <2>4, NoMover
    <3> QED BY <1>3, <2>2, <2>4, <3>1, PostOrders
  <2>5. NothingPosted \/ (OSSchedLock = 0 /\ \E n, m : PostBody(e, n, m))
    BY <2>1 DEF isr_PostSem, isr_PostMail, IsrPost, PostSemBody, PostMailBody, KernelInv, LockInv
  <2> QED BY <2>3, <2>4, <2>5
<1>6. CASE IsrExit
  <2>1. /\ IF TaskSchedReq THEN Schedule(OSSchedLock + 1, 0) ELSE UNCHANGED <<listVars, TCBNext, PendSV>>
        /\ UNCHANGED <<prio, ecb, eventTCBList, arg>> /\ OSSchedLock \in Nat
    BY <1>6 DEF IsrExit, eventVars, poolVars, callVars, KernelInv, LockInv
  <2>2. CASE OSSchedLock = 0
    <3>1. Moving = {} /\ OSSchedLock + 1 \in Int BY <2>1, <2>2, NoMover
    <3> QED BY <1>3, <2>1, <3>1, ScheduleServes
  <2>3. CASE OSSchedLock # 0
    <3>1. UNCHANGED <<listVars, TCBNext>> BY <2>1, <2>3 DEF Schedule
    <3>2. UNCHANGED <<TCBRdy, TaskSchedReq, TCBNext>> BY <3>1 DEF listVars
    <3> QED BY <1>1, <1>2, <2>1, <3>2, OrderUntouched
  <2> QED BY <2>2, <2>3
<1> QED BY <1>4, <1>5, <1>6

---------------------------------------------------------------------------
(* The start, every step, and the theorems *)

LEMMA InitOrders ==
  ASSUME Init, KernelInv
  PROVE  OrderKept
<1>1. /\ BootOrder \in Seq(Tasks) /\ BootOrder # <<>>
      /\ \A i, j \in DOMAIN BootOrder : i < j => BootPrio[BootOrder[i]] <= BootPrio[BootOrder[j]]
  BY BootAssumption
<1>2. /\ TCBRdy = Front(BootOrder) /\ prio = BootPrio /\ TaskSchedReq
      /\ \A e \in Events : eventTCBList[e] = <<>>
  BY DEF Init, KernelInit
<1>3. ReadyOrder
  <2>1. Len(BootOrder) \in Nat /\ Len(BootOrder) >= 1 /\ DOMAIN BootOrder = 1 .. Len(BootOrder)
    BY <1>1, EmptySeq, LenProperties
  <2>2. /\ Len(TCBRdy) = Len(BootOrder) - 1 /\ TCBRdy \in Seq(Tasks)
        /\ \A i \in 1 .. Len(BootOrder) - 1 : TCBRdy[i] = BootOrder[i]
    <3>1. \A i \in 1 .. Len(BootOrder) - 1 : BootOrder[i] \in Tasks BY <1>1, <2>1
    <3> QED BY <1>2, <2>1, <3>1, SubSeqProperties DEF Front
  <2>3. \A i \in 1 .. Len(TCBRdy) : i \in DOMAIN BootOrder /\ TCBRdy[i] = BootOrder[i] BY <2>1, <2>2
  <2> QED BY <1>1, <1>2, <2>3 DEF ReadyOrder, InOrder
<1>4. WaitOrder
  <2>1. \A e \in Events : Len(eventTCBList[e]) = 0 BY <1>2
  <2> QED BY <2>1 DEF WaitOrder, InOrder
<1> QED BY <1>2, <1>3, <1>4, OrderIs DEF OrderKept, Served

LEMMA CallOrders ==
  ASSUME KernelInv, KernelInv', Disciplined, OrderKept, NEW t \in Tasks, Call(t)
  PROVE  OrderKept'
<1>1. CASE TaskCall(t)
  <2>1. ASSUME NEW u \in Ids, CoSuspendTask(t, u) PROVE FALSE
    BY <2>1, RunsCalling DEF CoSuspendTask, Forbidden
  <2> QED BY <1>1, <2>1, SteadyCalls, SetPriorityOrders DEF TaskCall
<1>2. CASE EventCall(t)
  <2>1. PICK call \in {"CoCreateSem", "CoCreateMbox", "CoDelSem", "CoDelMbox"} : Calls(t, call)
    BY <1>2 DEF EventCall, CoCreateEvent, DeleteUnused, DeleteAnyway
  <2> QED BY <2>1, RunsCalling DEF Forbidden
<1>3. CASE SemCall(t) \/ MboxCall(t) BY <1>3, SteadyCalls
<1> QED BY <1>1, <1>2, <1>3 DEF Call

LEMMA StepOrders ==
  ASSUME KernelInv, KernelInv', Disciplined, OrderKept, NEW t \in Tasks, Step(t)
  PROVE  OrderKept'
<1>1. pc[t] \notin NeverAt BY DEF KernelInv, OrderInv, ControlInv
<1>2. CASE TaskStep(t)
  <2>1. ~SuspendBody(t) BY <1>1 DEF SuspendBody, At, NeverAt
  <2> QED BY <1>2, <2>1, SteadySteps, InitTaskOrders, DeleteOrders, AwakeOrders, ReorderOrders,
             UnwaitOrders, LinkOrders DEF TaskStep
<1>3. CASE EventStep(t)
  <2>1. ~(InitEvent(t) \/ DeleteWaiter(t) \/ RetireECB(t) \/ ReleaseECB(t))
    BY <1>1 DEF InitEvent, DeleteWaiter, RetireECB, ReleaseECB, At, NeverAt
  <2> QED BY <1>3, <2>1, LinkOrders, SteadySteps DEF EventStep
<1>4. CASE SemStep(t) \/ MboxStep(t) BY <1>4, SteadySteps, TaskPostOrders DEF SemStep, MboxStep
<1>5. CASE UnlockStep(t) BY <1>5, UnlockOrders DEF Contexts
<1> QED BY <1>2, <1>3, <1>4, <1>5 DEF Step

LEMMA NextOrders ==
  ASSUME KernelInv, KernelInv', Disciplined, OrderKept, [Next]_vars
  PROVE  OrderKept'
<1>1. CASE \E t \in Tasks : Call(t) \/ Step(t) BY <1>1, CallOrders, StepOrders
<1>2. CASE UnlockStep(SysTick) \/ UnlockStep(Isr) BY <1>2, UnlockOrders DEF Contexts
<1>3. CASE TickEnter \/ Interrupt \/ IsrExit \/ PendSV_Handler BY <1>3, ExceptionOrders
<1>4. CASE UNCHANGED vars
  BY <1>4 DEF vars, OrderKept, PriorityOrder, SortedBy, Moving, Served, Foremost
<1> QED BY <1>1, <1>2, <1>3, <1>4 DEF Next

\* In a settled system nobody is about to be moved or to ask for scheduling, so
\* no ready task goes before the task that has the CPU.
LEMMA SettledIsServed ==
  ASSUME KernelInv, OrderKept
  PROVE  HighestRuns
<1> SUFFICES ASSUME Settled
             PROVE  /\ state[TCBRunning] = "RUNNING"
                    /\ TCBRdy # <<>> => prio[TCBRunning] <= prio[Head(TCBRdy)]
  BY DEF HighestRuns
<1>1. OSSchedLock = 0 /\ ~PendSV /\ ~TaskSchedReq /\ TCBNext = TCBRunning /\ TCBRunning \in Tasks
      /\ pc[TCBNext] # "resched"
  BY DEF Settled, KernelInv, OrderInv, CpuInv, TypeOK, RunTypes
<1>2. Moving = {} BY <1>1, NoMover
<1>3. state[TCBRunning] = "RUNNING"
  <2>1. pc[TCBRunning] \notin UnlockLabels BY <1>1 DEF KernelInv, LockInv, OneWriter, Locking, LockLabels, Contexts
  <2> QED BY <1>1, <2>1 DEF KernelInv, OrderInv, CpuInv
<1>4. ASSUME TCBRdy # <<>> PROVE prio[TCBRunning] <= prio[Head(TCBRdy)]
  <2>1. TCBRdy \in Seq(Tasks) /\ IsInjective(TCBRdy) BY ListsNow DEF ReadyInv
  <2>2. Head(TCBRdy) \in Tasks /\ Contains(TCBRdy, Head(TCBRdy)) BY <1>4, <2>1, HeadTailType, HeadTailItems
  <2> QED BY <1>1, <1>2, <2>2 DEF OrderKept, Served, Foremost
<1> QED BY <1>3, <1>4

\* In an application that keeps to the rules of Disciplined the ready list and
\* the waiting lists of PRIO events are in priority order at every moment, but
\* for the one task CoSetPriority has given a priority and not yet moved
\* (InsertToTCBRdyList and CoSetPriority in task.c, EventTaskToWait in event.c).
THEOREM PriorityOrderKept == Disciplined => (Spec => []PriorityOrder)
<1> SUFFICES ASSUME Disciplined PROVE Spec => []PriorityOrder
  OBVIOUS
<1>1. Init => ExactInv /\ OrderKept BY InitExact, InitOrders DEF ExactInv
<1>2. ExactInv /\ OrderKept /\ [Next]_vars => (ExactInv /\ OrderKept)'
  BY NextExact, NextOrders DEF ExactInv
<1>3. OrderKept => PriorityOrder BY DEF OrderKept
<1> QED BY <1>1, <1>2, <1>3, PTL DEF Spec

\* And whenever nothing is under way that still has to schedule, the task that
\* has the CPU is the RUNNING one and no ready task has a higher priority:
\* every change to the ready list or to a priority has asked for scheduling, and
\* no request was lost on the way through ticks, handlers and unlocks
\* (TaskSchedReq and Schedule in task.c, OsSchedUnlock in core.c).
THEOREM HighestPriorityRuns == Disciplined => (Spec => []HighestRuns)
<1> SUFFICES ASSUME Disciplined PROVE Spec => []HighestRuns
  OBVIOUS
<1>1. Init => ExactInv /\ OrderKept BY InitExact, InitOrders DEF ExactInv
<1>2. ExactInv /\ OrderKept /\ [Next]_vars => (ExactInv /\ OrderKept)'
  BY NextExact, NextOrders DEF ExactInv
<1>3. ExactInv /\ OrderKept => HighestRuns BY SettledIsServed DEF ExactInv
<1> QED BY <1>1, <1>2, <1>3, PTL DEF Spec
=============================================================================
