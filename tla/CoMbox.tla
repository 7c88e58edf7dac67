------------------------------- MODULE CoMbox -------------------------------
(***************************************************************************)
(* The mailbox API (mbox.c) as tasks call it.                              *)
(***************************************************************************)
EXTENDS CoEvent

\* Slips to rule out: the box still says it is full; the mail stays in it.
TakeMailTwice(t, e, otherwise) ==
  /\ eventCounter[e] = 1 /\ Credited(e, -1)
  /\ LockedSection(t, "app")
  /\ UNCHANGED <<listVars, delayVars, eventVars, poolVars, runVars, reqVars>>
CopyMail(t, e, otherwise) ==
  /\ eventCounter[e] = 1 /\ Credited(e, -1)
  /\ eventCounter' = [eventCounter EXCEPT ![e] = 0]
  /\ LockedSection(t, "app")
  /\ UNCHANGED <<listVars, delayVars, eventID, pmail, eventPtr, eventTCBList, stalePrev, poolVars, runVars,
                 reqVars>>

\* Both calls take the mail that is there; only the pend goes on to block.
TakeMail(t, e, otherwise) ==
  /\ IF eventCounter[e] = 1
     THEN /\ eventCounter' = [eventCounter EXCEPT ![e] = 0]
          /\ eventPtr' = [eventPtr EXCEPT ![e] = NULL]
          /\ Credited(e, -1)
          /\ LockedSection(t, "app")
     ELSE LockedSection(t, otherwise) /\ UNCHANGED <<eventCounter, eventPtr, credit>>
  /\ UNCHANGED <<listVars, delayVars, eventID, pmail, eventTCBList, stalePrev, poolVars, runVars, reqVars>>

CoPendMail(t, e, timeout) ==
  /\ Calls(t, "CoPendMail") /\ Typed(e, "MBOX")
  /\ OSSchedLock = 0
  /\ WithArg(t, e, timeout)
  /\ TakeMail(t, e, "mailblock")

CoAcceptMail(t, e) ==
  /\ Calls(t, "CoAcceptMail") /\ Typed(e, "MBOX")
  /\ WithArg(t, e, 0)
  /\ TakeMail(t, e, "app")

\* The test for an empty box comes before the lock.
CoPostMail(t, e, mail) ==
  /\ Calls(t, "CoPostMail") /\ Accepts(e, "MBOX")
  /\ credit[e] < MaxCredit[e]
  /\ Continue(t, "postmail", e, mail)

\* The box may be deleted by then: the mail is written over the link of the
\* free event list, which shares eventPtr.
PostMail(t) ==
  /\ At(t, "postmail")
  /\ IF Contains(FreeEventList, arg[t].on) THEN Fault(t) /\ UNCHANGED credit
     ELSE /\ PostMailBody(arg[t].on, arg[t].val)
          /\ Credited(arg[t].on, 1)
          /\ LockedSection(t, "app")
          /\ UNCHANGED <<poolVars, runVars, reqVars>>
  /\ UNCHANGED arg

MboxCall(t) ==
  \/ \E e \in Events, timeout \in Timeouts : CoPendMail(t, e, timeout)
  \/ \E e \in Events : CoAcceptMail(t, e)
  \/ \E e \in Events, mail \in Mails : CoPostMail(t, e, mail)

MboxStep(t) == PostMail(t)
=============================================================================
