------------------------------- MODULE CoTmr -------------------------------
(***************************************************************************)
(* The software timers of CoOS (timer.c): a list of running timers, each   *)
(* with the ticks it runs out after the one before it, counted down by the *)
(* tick interrupt and disposed of there, or by OsSchedUnlock() when the    *)
(* tick found the scheduler locked.  One application context makes the     *)
(* calls; a body between OsSchedLock() and OsSchedUnlock() is one step.    *)
(***************************************************************************)
EXTENDS Integers, Sequences, FiniteSets, SequencesExt

CONSTANTS
  CFG_MAX_TMR,
  Counts,      \* the counts the application uses; a periodic timer reloads with the same
  Habits,      \* what it takes care of: "lock", "count", "stopped"
  MaxLate      \* bound: ticks that may pass over an expired head

ASSUME TmrAssumption ==
  /\ CFG_MAX_TMR \in Nat \ {0} /\ Counts \subseteq Nat \ {0} /\ MaxLate \in Nat
  /\ Habits \subseteq {"lock", "count", "stopped"}

Timers == 0 .. CFG_MAX_TMR - 1
NoCall == [op |-> "idle"]

VARIABLES
  TmrTbl,        \* tmrType, tmrState, tmrCnt, tmrReload
  TmrList,       \* the ids on the list, first to run out first
  TmrIDVessel,   \* the ids in use
  TimerReq,      \* a tick asks OsSchedUnlock() to dispose
  lock,          \* does the application hold the scheduler lock?
  disposing,     \* "no", "isr": in the tick interrupt, "unlock": in OsSchedUnlock()
  call,          \* the call the application is in, and what is left of it
  due, late      \* history: ticks until a timer is due; ticks its list did not count

tmrVars == <<TmrTbl, TmrList, TmrIDVessel, TimerReq, lock, disposing, call, due, late>>

NoTimer == [tmrType |-> "ONE_SHOT", tmrState |-> "STOPPED", tmrCnt |-> 0, tmrReload |-> 0]

TmrInit ==
  /\ TmrTbl = [t \in Timers |-> NoTimer]
  /\ TmrList = <<>> /\ TmrIDVessel = {} /\ TimerReq = FALSE
  /\ lock = FALSE /\ disposing = "no" /\ call = NoCall
  /\ due = [t \in Timers |-> 0] /\ late = [t \in Timers |-> 0]

---------------------------------------------------------------------------
(* The list *)

Listed(t) == t \in Range(TmrList)

\* When the i-th timer of a list runs out.
RunsOut(tbl, list, i) ==
  LET upto[j \in 0 .. Len(list)] == IF j = 0 THEN 0 ELSE upto[j - 1] + tbl[list[j]].tmrCnt
  IN upto[i]

\* A slip to rule out: what a removed timer had left is not given to the next.
RemoveAndForget(tbl, list, t) == [tbl |-> tbl, list |-> Remove(list, t)]

\* Timers that run out no later than the new one stay in front of it.
InsertTmrList(tbl, list, t) ==
  LET cnt == tbl[t].tmrCnt
      k == Cardinality({i \in DOMAIN list : RunsOut(tbl, list, i) <= cnt})
      rest == cnt - RunsOut(tbl, list, k)
      shifted == IF k < Len(list) THEN [tbl EXCEPT ![list[k + 1]].tmrCnt = @ - rest] ELSE tbl
  IN IF cnt = 0
     THEN [tbl |-> tbl, list |-> list]
     ELSE [tbl |-> [shifted EXCEPT ![t].tmrCnt = rest], list |-> InsertAt(list, k + 1, t)]

\* A timer that is on no list has no neighbours and is taken for the only one.
RemoveTmrList(tbl, list, t) ==
  LET i == CHOOSE j \in DOMAIN list : list[j] = t IN
  IF t \notin Range(list) THEN [tbl |-> tbl, list |-> <<>>]
  ELSE [tbl |-> IF i < Len(list) THEN [tbl EXCEPT ![list[i + 1]].tmrCnt = @ + tbl[t].tmrCnt] ELSE tbl,
        list |-> RemoveAt(list, i)]

Store(m) == TmrTbl' = m.tbl /\ TmrList' = m.list

\* What a timer that is started now promises; one that leaves the list is not due.
Promise(t, cnt) == due' = [due EXCEPT ![t] = cnt] /\ late' = [late EXCEPT ![t] = 0]
Forget(t) == Promise(t, 0)

---------------------------------------------------------------------------
(* The calls of the application, one locked body or one test a step *)

History == <<due, late>>
Listless == <<TmrList, TimerReq, lock, disposing, due, late>>
InCall(op) == disposing # "isr" /\ call.op = op
NoOtherCall == disposing = "no" /\ call = NoCall /\ ("lock" \in Habits => lock)

LockFirst ==
  /\ "lock" \in Habits /\ disposing = "no" /\ ~lock /\ lock' = TRUE
  /\ UNCHANGED <<TmrTbl, TmrList, TmrIDVessel, TimerReq, disposing, call, due, late>>

Reload(type, cnt) == IF type = "PERIODIC" THEN cnt ELSE 0
UnusedTmrs == Timers \ TmrIDVessel

CoCreateTmr ==
  /\ NoOtherCall /\ UnusedTmrs # {}
  /\ \E type \in {"ONE_SHOT", "PERIODIC"}, cnt \in Counts :
       LET t == CHOOSE u \in UnusedTmrs : \A v \in UnusedTmrs : u <= v IN
       /\ TmrIDVessel' = TmrIDVessel \union {t}
       /\ call' = [op |-> "fill", t |-> t,
                   tmr |-> [tmrType |-> type, tmrState |-> "STOPPED",
                            tmrCnt |-> cnt, tmrReload |-> Reload(type, cnt)]]
  /\ UNCHANGED <<TmrTbl, Listless>>

Fill ==
  /\ InCall("fill") /\ TmrTbl' = [TmrTbl EXCEPT ![call.t] = call.tmr] /\ call' = NoCall
  /\ UNCHANGED <<TmrIDVessel, Listless>>

CoStartTmr(t) ==
  /\ NoOtherCall /\ t \in TmrIDVessel /\ TmrTbl[t].tmrState # "RUNNING"
  /\ "count" \in Habits => TmrTbl[t].tmrCnt > 0
  /\ TmrTbl' = [TmrTbl EXCEPT ![t].tmrState = "RUNNING"]
  /\ call' = [op |-> "insert", t |-> t]
  /\ UNCHANGED <<TmrIDVessel, Listless>>

Insert ==
  /\ InCall("insert") /\ Store(InsertTmrList(TmrTbl, TmrList, call.t)) /\ call' = NoCall
  /\ Promise(call.t, TmrTbl[call.t].tmrCnt)
  /\ UNCHANGED <<TmrIDVessel, TimerReq, lock, disposing>>

\* CoStopTmr and CoDelTmr test the state before RemoveTmrList locks.
CoStopTmr(t) ==
  /\ NoOtherCall /\ t \in TmrIDVessel /\ TmrTbl[t].tmrState # "STOPPED"
  /\ call' = [op |-> "remove", t |-> t, then |-> "stopped"]
  /\ UNCHANGED <<TmrTbl, TmrIDVessel, Listless>>

CoDelTmr(t) ==
  /\ NoOtherCall /\ t \in TmrIDVessel
  /\ call' = IF TmrTbl[t].tmrState = "RUNNING"
             THEN [op |-> "remove", t |-> t, then |-> "release"]
             ELSE [op |-> "release", t |-> t]
  /\ UNCHANGED <<TmrTbl, TmrIDVessel, Listless>>

RemoveIt ==
  /\ InCall("remove") /\ Store(RemoveTmrList(TmrTbl, TmrList, call.t))
  /\ call' = [op |-> call.then, t |-> call.t]
  /\ Forget(call.t)
  /\ UNCHANGED <<TmrIDVessel, TimerReq, lock, disposing>>

Stopped ==
  /\ InCall("stopped") /\ TmrTbl' = [TmrTbl EXCEPT ![call.t].tmrState = "STOPPED"] /\ call' = NoCall
  /\ UNCHANGED <<TmrIDVessel, Listless>>

Release ==
  /\ InCall("release") /\ TmrIDVessel' = TmrIDVessel \ {call.t} /\ call' = NoCall
  /\ UNCHANGED <<TmrTbl, Listless>>

CoSetTmrCnt(t) ==
  /\ NoOtherCall /\ t \in TmrIDVessel
  /\ "stopped" \in Habits => TmrTbl[t].tmrState = "STOPPED"
  /\ \E cnt \in Counts : TmrTbl' =
       [TmrTbl EXCEPT ![t].tmrCnt = cnt, ![t].tmrReload = Reload(TmrTbl[t].tmrType, cnt)]
  /\ call' = IF TmrTbl[t].tmrState = "RUNNING"
             THEN [op |-> "remove", t |-> t, then |-> "insert"] ELSE NoCall
  /\ UNCHANGED <<TmrIDVessel, Listless>>

\* CoSchedUnlock() responds to the tick's request before it lets go.
Unlock ==
  /\ lock /\ disposing = "no" /\ call = NoCall
  /\ IF TimerReq THEN disposing' = "unlock" /\ UNCHANGED lock
                 ELSE lock' = FALSE /\ UNCHANGED disposing
  /\ UNCHANGED <<TmrTbl, TmrList, TmrIDVessel, TimerReq, call, History>>

---------------------------------------------------------------------------
(* The tick and TmrDispose *)

Elapse(missed) ==
  /\ due' = [t \in Timers |-> IF Listed(t) THEN due[t] - 1 ELSE due[t]]
  /\ late' = [t \in Timers |-> IF Listed(t) /\ missed THEN late[t] + 1 ELSE late[t]]

SysTick ==
  /\ disposing # "isr" /\ TmrList # <<>>
  /\ LET t == Head(TmrList)
         cnt == TmrTbl[t].tmrCnt
     IN /\ cnt = 0 => late[t] < MaxLate
        /\ TmrTbl' = [TmrTbl EXCEPT ![t].tmrCnt = IF cnt > 1 THEN cnt - 1 ELSE 0]
        /\ Elapse(cnt = 0)
        /\ IF cnt > 1 THEN UNCHANGED <<TimerReq, disposing>>
           ELSE IF lock THEN TimerReq' = TRUE /\ UNCHANGED disposing
                        ELSE disposing' = "isr" /\ UNCHANGED TimerReq
  /\ UNCHANGED <<TmrList, TmrIDVessel, lock, call>>

\* One turn of TmrDispose.  The call-back may start its one-shot timer again
\* with a new count, or stop its periodic one.
Expired == disposing # "no" /\ TmrList # <<>> /\ TmrTbl[Head(TmrList)].tmrCnt = 0

RunAgain(out, t, cnt) ==
  Store(InsertTmrList([out.tbl EXCEPT ![t].tmrCnt = cnt], out.list, t)) /\ Promise(t, cnt)

DisposeOneShot ==
  LET t == Head(TmrList)
      out == RemoveTmrList(TmrTbl, TmrList, t)
      stopped == [out.tbl EXCEPT ![t].tmrState = "STOPPED"]
  IN /\ Expired /\ TmrTbl[t].tmrType = "ONE_SHOT"
     /\ \/ Store([out EXCEPT !.tbl = stopped]) /\ Forget(t)
        \/ \E cnt \in Counts : RunAgain(out, t, cnt)
     /\ UNCHANGED <<TmrIDVessel, TimerReq, lock, disposing, call>>

DisposePeriodic ==
  LET t == Head(TmrList)
      out == RemoveTmrList(TmrTbl, TmrList, t)
      again == InsertTmrList([out.tbl EXCEPT ![t].tmrCnt = TmrTbl[t].tmrReload], out.list, t)
      halt == RemoveTmrList(again.tbl, again.list, t)
  IN /\ Expired /\ TmrTbl[t].tmrType = "PERIODIC"
     /\ \/ RunAgain(out, t, TmrTbl[t].tmrReload)
        \/ /\ Store([halt EXCEPT !.tbl[t].tmrState = "STOPPED"]) /\ Forget(t)
     /\ UNCHANGED <<TmrIDVessel, TimerReq, lock, disposing, call>>

EndDispose ==
  /\ disposing # "no" /\ ~Expired
  /\ disposing' = "no"
  /\ IF disposing = "unlock" THEN TimerReq' = FALSE /\ lock' = FALSE
                             ELSE UNCHANGED <<TimerReq, lock>>
  /\ UNCHANGED <<TmrTbl, TmrList, TmrIDVessel, call, History>>

TmrNext ==
  \/ LockFirst \/ Unlock \/ CoCreateTmr \/ Fill \/ Insert \/ RemoveIt \/ Stopped \/ Release
  \/ \E t \in Timers : CoStartTmr(t) \/ CoStopTmr(t) \/ CoDelTmr(t) \/ CoSetTmrCnt(t)
  \/ SysTick \/ DisposeOneShot \/ DisposePeriodic \/ EndDispose
TmrSpec == TmrInit /\ [][TmrNext]_tmrVars

---------------------------------------------------------------------------
\* Between a timer's state and its place on the list a call may be half way.
InTransit(t) == call # NoCall /\ call.t = t

\* A timer that runs is on the list, and runs out when it was promised to, later
\* only by the ticks that came while an expired timer waited for the lock.
TimersKeepTime ==
  /\ IsInjective(TmrList)
  /\ \A t \in TmrIDVessel : ~InTransit(t) => (TmrTbl[t].tmrState = "RUNNING" <=> Listed(t))
  /\ \A i \in DOMAIN TmrList :
       RunsOut(TmrTbl, TmrList, i) = due[TmrList[i]] + late[TmrList[i]]
=============================================================================
