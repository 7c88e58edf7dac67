------------------------------- MODULE CoSem --------------------------------
(***************************************************************************)
(* The semaphore API (sem.c) as tasks call it.                             *)
(***************************************************************************)
EXTENDS CoEvent

CoPendSem(t, e, timeout) ==
  /\ Calls(t, "CoPendSem") /\ Typed(e, "SEM")
  /\ OSSchedLock = 0
  /\ WithArg(t, e, timeout)
  /\ IF eventCounter[e] > 0
     THEN /\ eventCounter' = [eventCounter EXCEPT ![e] = @ - 1]
          /\ Credited(e, -1)
          /\ LockedSection(t, "app")
     ELSE LockedSection(t, "semblock") /\ UNCHANGED <<eventCounter, credit>>
  /\ UNCHANGED <<listVars, delayVars, eventID, pmail, eventPtr, eventTCBList, stalePrev, poolVars, runVars,
                 reqVars>>

\* The counter is tested under the lock and decremented after it.
CoAcceptSem(t, e) ==
  /\ Calls(t, "CoAcceptSem") /\ Typed(e, "SEM")
  /\ WithArg(t, e, 0)
  /\ LockedSection(t, IF eventCounter[e] > 0 THEN "decrement" ELSE "app")
  /\ UNCHANGED <<listVars, delayVars, eventVars, poolVars, runVars, reqVars, credit>>

Decrement(t) ==
  /\ At(t, "decrement")
  /\ LET e == arg[t].on IN
     /\ eventCounter' = [eventCounter EXCEPT ![e] = (@ - 1) % 65536]
     /\ Credited(e, -1)
  /\ Goto(t, "app")
  /\ UNCHANGED <<listVars, delayVars, eventID, pmail, eventPtr, eventTCBList, stalePrev, poolVars,
                 runVars, reqVars, arg, OSSchedLock, ret>>

\* The test for a full semaphore comes before the lock.
CoPostSem(t, e) ==
  /\ Calls(t, "CoPostSem") /\ Accepts(e, "SEM")
  /\ credit[e] < MaxCredit[e]
  /\ Continue(t, "postsem", e, 0)

PostSem(t) ==
  /\ At(t, "postsem")
  /\ PostSemBody(arg[t].on)
  /\ Credited(arg[t].on, 1)
  /\ LockedSection(t, "app")
  /\ UNCHANGED <<poolVars, runVars, reqVars, arg>>

SemCall(t) ==
  \/ \E e \in Events, timeout \in Timeouts : CoPendSem(t, e, timeout)
  \/ \E e \in Events : CoAcceptSem(t, e) \/ CoPostSem(t, e)

SemStep(t) == Decrement(t) \/ PostSem(t)
=============================================================================
