------------------------------ MODULE CoEvent -------------------------------
(***************************************************************************)
(* What the event APIs share (event.c): taking an event control block from *)
(* FreeEventList, deleting an event with its waiters, and the blocking     *)
(* half of the pend calls.                                                 *)
(***************************************************************************)
EXTENDS CoTask

CONSTANTS
  Timeouts,     \* the time-outs pend calls are made with; 0 is "for ever"
  NewEvents,    \* the settings create calls are made with
  MaxCredit     \* per event, bound on posts that were accepted and not yet taken

ASSUME EventApiAssumption ==
  /\ Timeouts \subseteq 0 .. INVALID_VALUE - 1
  /\ NewEvents \subseteq [eventType : {"SEM", "MBOX"}, eventSortType : {"FIFO", "PRIO"},
                          initialEventCounter : U16, eventCounter : U16]
  /\ MaxCredit \in [Events -> Nat]
  \* without the test of an event's type, events in use are not deleted
  /\ CFG_PAR_CHECKOUT_EN \/ Api \cap (Tasks \X {"CoDelSem", "CoDelMbox"}) = {}

Credited(e, n) == credit' = [credit EXCEPT ![e] = @ + n]

\* The unlocked test of an event's type at the start of a call: one step with
\* what the call does first.
Typed(e, type) == CFG_PAR_CHECKOUT_EN => ecb[e].eventType = type

---------------------------------------------------------------------------
\* CreatEvent: the ECB is taken under the lock and filled in after it.
CoCreateEvent(t, new) ==
  /\ Calls(t, IF new.eventType = "SEM" THEN "CoCreateSem" ELSE "CoCreateMbox")
  /\ IF FreeEventList = <<>>
     THEN LockedSection(t, "app") /\ UNCHANGED <<FreeEventList, arg>>
     ELSE /\ FreeEventList' = Tail(FreeEventList)
          /\ WithArg(t, Head(FreeEventList), new)
          /\ LockedSection(t, "initevent")
  /\ UNCHANGED <<listVars, delayVars, eventVars, prio, FreeTCB, ecb, runVars, reqVars, credit>>

\* CoCreateMbox does not write initialEventCounter.  Tasks that went on waiting on
\* the deleted event are dropped from its list; several of them keep their links,
\* and the list is corrupt from there on.
InitEvent(t) ==
  /\ At(t, "initevent")
  /\ LET e == arg[t].on
         new == arg[t].val
     IN IF Len(eventTCBList[e]) > 1 THEN Fault(t) /\ UNCHANGED credit
        ELSE /\ ecb' = [ecb EXCEPT ![e] =
                  [eventType |-> new.eventType, eventSortType |-> new.eventSortType,
                   initialEventCounter |-> IF new.eventType = "SEM" THEN new.initialEventCounter
                                           ELSE @.initialEventCounter]]
             /\ eventCounter' = [eventCounter EXCEPT ![e] =
                  IF new.eventType = "SEM" THEN new.eventCounter ELSE 0]
             /\ credit' = [credit EXCEPT ![e] = IF new.eventType = "SEM" THEN new.eventCounter ELSE 0]
             /\ eventPtr' = [eventPtr EXCEPT ![e] = NULL]
             /\ eventTCBList' = [eventTCBList EXCEPT ![e] = <<>>]
             /\ Goto(t, "app")
             /\ UNCHANGED <<listVars, delayVars, eventID, pmail, stalePrev, prio, FreeTCB, FreeEventList,
                            runVars, reqVars, OSSchedLock, ret>>
  /\ UNCHANGED arg

---------------------------------------------------------------------------
\* DeleteEvent with OPT_DEL_NO_PEND, and with OPT_DEL_ANYWAY.
DeleteUnused(t, e, type) ==
  /\ Calls(t, IF type = "SEM" THEN "CoDelSem" ELSE "CoDelMbox")
  /\ Typed(e, type)
  /\ eventTCBList[e] = <<>>
  /\ Continue(t, "release", e, 0)

DeleteAnyway(t, e, type) ==
  /\ Calls(t, IF type = "SEM" THEN "CoDelSem" ELSE "CoDelMbox")
  /\ Typed(e, type)
  /\ OSSchedLock' = OSSchedLock + 1
  /\ Goto(t, "delwaiter") /\ WithArg(t, e, 0)
  /\ UNCHANGED <<listVars, delayVars, eventVars, poolVars, runVars, reqVars, ret, credit>>

\* A slip to rule out: the loop wakes the head and does not take it out.
WakeWaiter(t) ==
  /\ At(t, "delwaiter")
  /\ eventTCBList[arg[t].on] # <<>>
  /\ InsertToTCBRdyList(Head(eventTCBList[arg[t].on]))
  /\ UNCHANGED <<delayVars, eventVars, poolVars, runVars, reqVars, callVars, OSSchedLock, pc, ret>>

\* The back link of the next task is not cleared, as EventTaskToRdy clears it: once
\* that task is the head of a list again, RemoveEventWaittingList is misled.
LeavesBackLink(list) == stalePrev' = stalePrev \union (IF Len(list) > 1 THEN {list[2]} ELSE {})

DeleteWaiter(t) ==
  /\ At(t, "delwaiter")
  /\ LET e == arg[t].on IN
     IF eventTCBList[e] # <<>>
     THEN LET w == Head(eventTCBList[e]) IN
          /\ LeavesBackLink(eventTCBList[e])
          /\ IF delay[w] # INVALID_VALUE THEN RemoveDelayList(w) ELSE UNCHANGED delayVars
          /\ eventTCBList' = [eventTCBList EXCEPT ![e] = Tail(@)]
          /\ eventID' = [eventID EXCEPT ![w] = NULL]
          /\ InsertToTCBRdyList(w)
          /\ UNCHANGED <<OSSchedLock, pc, ret>>
     ELSE /\ IF OSSchedLock = 1
             THEN Goto(t, "respond") /\ ret' = [ret EXCEPT ![t] = "release"] /\ UNCHANGED OSSchedLock
             ELSE Goto(t, "release") /\ OSSchedLock' = OSSchedLock - 1 /\ UNCHANGED ret
          /\ UNCHANGED <<listVars, delayVars, eventTCBList, stalePrev, eventID>>
  /\ UNCHANGED <<pmail, eventCounter, eventPtr, poolVars, runVars, reqVars, callVars>>

\* ReleaseECB marks the ECB as not in use before it takes the lock.
RetireECB(t) ==
  /\ At(t, "release")
  /\ ecb' = [ecb EXCEPT ![arg[t].on].eventType = "INVALID"]
  /\ Goto(t, "free")
  /\ UNCHANGED <<listVars, delayVars, eventVars, prio, FreeTCB, FreeEventList, runVars, reqVars,
                 callVars, OSSchedLock, ret>>

ReleaseECB(t) ==
  /\ At(t, "free")
  /\ FreeEventList' = <<arg[t].on>> \o FreeEventList
  /\ LockedSection(t, "app")
  /\ UNCHANGED <<listVars, delayVars, eventVars, prio, FreeTCB, ecb, runVars, reqVars, callVars>>

---------------------------------------------------------------------------
\* EventTaskToWait, and InsertDelayList when a time-out is given, behind the
\* unlock that ended the test of the counter.
BlockBody(t) ==
  /\ At(t, "semblock") \/ At(t, "mailblock")
  /\ LinkEvent(arg[t].on, t) /\ Block(t)
  /\ IF arg[t].val # 0 THEN LinkDelay(t, arg[t].val) ELSE UNCHANGED delayVars
  /\ LockedSection(t, IF pc[t] = "semblock" THEN "semwoken" ELSE "mailwoken")
  /\ UNCHANGED <<TCBRdy, pmail, eventCounter, eventPtr, poolVars, runVars, reqVars, callVars>>

\* The caller is told E_OK, or E_TIMEOUT when it set a time-out and pmail is
\* still NULL.  CoPendSem without a time-out does not look at pmail.
Woken(t) ==
  /\ At(t, "semwoken") \/ At(t, "mailwoken")
  /\ IF pmail[t] # NULL \/ (pc[t] = "semwoken" /\ arg[t].val = 0)
     THEN Credited(arg[t].on, -1) ELSE UNCHANGED credit
  /\ pmail' = [pmail EXCEPT ![t] = NULL]
  /\ Goto(t, "app")
  /\ UNCHANGED <<listVars, delayVars, eventID, eventCounter, eventPtr, eventTCBList, stalePrev,
                 poolVars, runVars, reqVars, arg, OSSchedLock, ret>>

EventCall(t) ==
  \/ \E new \in NewEvents : CoCreateEvent(t, new)
  \/ \E e \in Events, type \in {"SEM", "MBOX"} : DeleteUnused(t, e, type) \/ DeleteAnyway(t, e, type)

EventStep(t) ==
  \/ InitEvent(t) \/ DeleteWaiter(t) \/ RetireECB(t) \/ ReleaseECB(t)
  \/ BlockBody(t) \/ Woken(t)
=============================================================================
