------------------------------ MODULE CoFlag -------------------------------
(***************************************************************************)
(* The event flags of CoOS (flag.c).  A task that has to wait is linked    *)
(* into one list for all flags, by a node on its own stack; a flag that is *)
(* set wakes the waiting tasks it satisfies, the first one only when it is *)
(* an auto-reset flag, and a task that was woken resets the flags itself.  *)
(***************************************************************************)
EXTENDS CoOS

CONSTANTS
  Flags,
  NewFlags,    \* the options flags are created with
  Waits        \* the sets of flags and types tasks wait for

ASSUME FlagAssumption ==
  /\ NewFlags \subseteq [bAutoReset : BOOLEAN, bInitialState : BOOLEAN]
  /\ Waits \subseteq [flags : SUBSET Flags \ {{}}, type : {"ONE", "ANY", "ALL"}]

VARIABLES
  flagActive, flagRdy, resetOpt,    \* the bit masks of FlagCrl, as sets
  flagList,    \* the tasks of the nodes between headNode and tailNode
  node,        \* waitFlags and waitType of a task's node; NoNode outside the list
  pnode        \* field of the TCBs: "none", "node", or "set" for 0xffffffff

flagVars == <<flagActive, flagRdy, resetOpt, flagList, node, pnode>>

NoNode == [flags |-> {}, type |-> "ANY"]

FlagInit ==
  /\ flagActive = {} /\ flagRdy = {} /\ resetOpt = {}
  /\ flagList = <<>>
  /\ node = [t \in Tasks |-> NoNode]
  /\ pnode = [t \in Tasks |-> "none"]

Satisfied(w, ready) == IF w.type = "ALL" THEN w.flags \subseteq ready ELSE w.flags \cap ready # {}

---------------------------------------------------------------------------
(* The waiting list *)

Without(list, gone) == SelectSeq(list, LAMBDA t : t \notin gone)

\* RemoveFromLink of the tasks in woken, in the order of the list; the others
\* wait for flags of needed only.
WakeAll(woken, needed) ==
  LET order == SelectSeq(flagList, LAMBDA t : t \in woken /\ t # TCBRunning)
  IN /\ flagList' = Without(flagList, woken)
     /\ pnode' = [t \in Tasks |-> IF t \in woken THEN "set" ELSE pnode[t]]
     /\ node' = [t \in Tasks |-> IF t \in woken THEN NoNode
                                 ELSE [node[t] EXCEPT !.flags = @ \cap needed]]
     /\ delay' = [t \in Tasks |-> IF t \in woken THEN INVALID_VALUE ELSE delay[t]]
     /\ DlyList' = Without(DlyList, woken)
     /\ state' = [t \in Tasks |-> IF t \notin woken THEN state[t]
                                  ELSE IF t = TCBRunning THEN "RUNNING" ELSE "READY"]
     /\ TCBRdy' = FoldLeft(LAMBDA list, t : InsertBy(list, prio, t), TCBRdy, order)
     /\ TaskSchedReq' = \/ TaskSchedReq
                        \/ order # <<>> /\ TCBRdy = <<>>
                        \/ \E i \in DOMAIN order : prio[order[i]] < prio[Head(TCBRdy)]

Heard(ready) == SelectSeq(flagList, LAMBDA t : Satisfied(node[t], ready))

\* A slip to rule out: the loop ends at the first task whatever the flag's option.
WokenFirst(f, ready) == IF Heard(ready) = <<>> THEN {} ELSE {Head(Heard(ready))}

\* Which tasks CoSetFlag wakes when it has set flag f.
WokenBy(f, ready) ==
  IF f \in resetOpt /\ Heard(ready) # <<>> THEN {Head(Heard(ready))} ELSE Range(Heard(ready))

---------------------------------------------------------------------------
CoCreateFlag(t, bAutoReset, bInitialState) ==
  /\ Calls(t, "CoCreateFlag")
  /\ LET free == Flags \ flagActive IN
     IF free = {} THEN UNCHANGED <<flagActive, flagRdy, resetOpt>>
     ELSE LET f == CHOOSE g \in free : \A h \in free : g <= h IN
          /\ flagActive' = flagActive \cup {f}
          /\ flagRdy' = IF bInitialState THEN flagRdy \cup {f} ELSE flagRdy
          /\ resetOpt' = IF bAutoReset THEN resetOpt \cup {f} ELSE resetOpt
  /\ LockedSection(t, "app")
  /\ UNCHANGED <<listVars, delayVars, eventVars, poolVars, runVars, reqVars, callVars, flagList, node, pnode>>

\* With OPT_DEL_NO_PEND the first node that waits for the flag ends the call.
\* Otherwise the tasks that wait for nothing but this flag, or for any of
\* several, are woken; one that waits for all of several waits for the rest.
CoDelFlag(t, f, anyway) ==
  /\ Calls(t, "CoDelFlag") /\ f \in flagActive
  /\ LET waiting == {u \in Range(flagList) : f \in node[u].flags}
         shrunk == {u \in waiting : node[u].type = "ALL" /\ node[u].flags # {f}}
     IN IF waiting # {} /\ ~anyway
        THEN UNCHANGED <<flagVars, delayVars, listVars>>
        ELSE /\ WakeAll(waiting \ shrunk, Flags \ {f})
             /\ flagActive' = flagActive \ {f}
             /\ flagRdy' = flagRdy \ {f}
             /\ resetOpt' = resetOpt \ {f}
  /\ LockedSection(t, "app")
  /\ UNCHANGED <<eventVars, poolVars, runVars, reqVars, callVars>>

---------------------------------------------------------------------------
(* Taking flags *)

\* The flags of w that are ready are read before the lock is taken.
CoAcceptFlags(t, w) ==
  /\ \/ w.type = "ONE" /\ Calls(t, "CoAcceptSingleFlag") /\ Satisfied(w, flagRdy)
     \/ w.type # "ONE" /\ Calls(t, "CoAcceptMultipleFlags")
  /\ w.flags \subseteq flagActive
  /\ Continue(t, "takeflags", w, w.flags \cap flagRdy)
  /\ UNCHANGED flagVars

TakeFlags(t) ==
  /\ At(t, "takeflags")
  /\ flagRdy' = IF Satisfied(arg[t].on, arg[t].val) THEN flagRdy \ (arg[t].val \cap resetOpt) ELSE flagRdy
  /\ LockedSection(t, "app")
  /\ Ends(t)
  /\ UNCHANGED <<listVars, delayVars, eventVars, poolVars, runVars, reqVars,
                 flagActive, resetOpt, flagList, node, pnode>>

\* FlagBlock: the node goes to the end of the list.
LinkNode(t, w) ==
  /\ node' = [node EXCEPT ![t] = w]
  /\ pnode' = [pnode EXCEPT ![t] = "node"]
  /\ flagList' = Append(flagList, t)

\* CoWaitForSingleFlag and CoWaitForMultipleFlags up to their first unlock.
CoWaitForFlags(t, w, timeout) ==
  /\ Calls(t, IF w.type = "ONE" THEN "CoWaitForSingleFlag" ELSE "CoWaitForMultipleFlags")
  /\ OSSchedLock = 0 /\ w.flags \subseteq flagActive
  /\ IF Satisfied(w, flagRdy)
     THEN /\ flagRdy' = flagRdy \ (w.flags \cap flagRdy \cap resetOpt)
          /\ LockedSection(t, "app")
          /\ UNCHANGED <<state, TaskSchedReq, delayVars, flagList, node, pnode, arg>>
     ELSE /\ LinkNode(t, w) /\ Block(t) /\ WithArg(t, w, timeout)
          /\ IF timeout # 0 THEN LinkDelay(t, timeout) ELSE UNCHANGED delayVars
          /\ LockedSection(t, "flagwoken")
          /\ UNCHANGED flagRdy
  /\ UNCHANGED <<TCBRdy, eventVars, poolVars, runVars, reqVars, credit, flagActive, resetOpt>>

\* With a time-out pnode tells whether the flags came; without one the call
\* does not look at it.
FlagWoken(t) ==
  /\ At(t, "flagwoken")
  /\ IF arg[t].val # 0 /\ pnode[t] = "none"
     THEN Goto(t, "app") /\ UNCHANGED <<OSSchedLock, ret, flagRdy>>
     ELSE /\ flagRdy' = flagRdy \ (arg[t].on.flags \cap flagRdy \cap resetOpt)
          /\ LockedSection(t, "app")
  /\ pnode' = [pnode EXCEPT ![t] = "none"]
  /\ Ends(t)
  /\ UNCHANGED <<listVars, delayVars, eventVars, poolVars, runVars, reqVars, flagActive,
                 resetOpt, flagList, node>>

---------------------------------------------------------------------------
(* Setting and clearing flags: flagRdy is read and written without the lock *)

CoClearFlag(t, f) ==
  /\ Calls(t, "CoClearFlag") /\ f \in flagActive
  /\ Continue(t, "storeclear", f, flagRdy \ {f})
  /\ UNCHANGED flagVars

CoSetFlag(t, f) ==
  /\ Calls(t, "CoSetFlag") /\ f \in flagActive /\ f \notin flagRdy
  /\ Continue(t, "storeset", f, flagRdy \cup {f})
  /\ UNCHANGED flagVars

StoreFlags(t) ==
  /\ At(t, "storeclear") \/ At(t, "storeset")
  /\ flagRdy' = arg[t].val
  /\ Goto(t, IF pc[t] = "storeset" THEN "scanflags" ELSE "app")
  /\ IF pc[t] = "storeset" THEN UNCHANGED callVars ELSE Ends(t)
  /\ UNCHANGED <<listVars, delayVars, eventVars, poolVars, runVars, reqVars, OSSchedLock, ret,
                 flagActive, resetOpt, flagList, node, pnode>>

ScanFlags(t) ==
  /\ At(t, "scanflags")
  /\ WakeAll(WokenBy(arg[t].on, flagRdy), Flags)
  /\ LockedSection(t, "app")
  /\ Ends(t)
  /\ UNCHANGED <<eventVars, poolVars, runVars, reqVars, flagActive, flagRdy, resetOpt>>

\* CoSetFlag in a context nothing can interrupt.
SetAtOnce(f) ==
  IF f \in flagActive /\ f \notin flagRdy
  THEN /\ flagRdy' = flagRdy \cup {f}
       /\ WakeAll(WokenBy(f, flagRdy \cup {f}), Flags)
  ELSE UNCHANGED <<flagRdy, flagList, node, pnode, delayVars, listVars>>

isr_SetFlag(f) ==
  /\ <<Isr, "isr_SetFlag">> \in Api /\ pc[Isr] = "off" /\ f \in flagActive
  /\ IF OSSchedLock > 0
     THEN /\ IF Len(ServiceReq) < CFG_MAX_SERVICE_REQUEST
             THEN /\ ServiceReq' = Append(ServiceReq, [type |-> "FLAG", id |-> f, arg |-> NULL])
                  /\ IsrReq' = TRUE
             ELSE UNCHANGED <<ServiceReq, IsrReq>>
          /\ Goto(Isr, "isrexit")
          /\ UNCHANGED <<OSSchedLock, ret, flagRdy, flagList, node, pnode, delayVars, listVars>>
     ELSE /\ SetAtOnce(f)
          /\ IF f \in flagRdy THEN Goto(Isr, "isrexit") /\ UNCHANGED <<OSSchedLock, ret>>
             ELSE LockedSection(Isr, "isrexit")
          /\ UNCHANGED <<ServiceReq, IsrReq>>
  /\ UNCHANGED <<eventVars, poolVars, runVars, TimeReq, callVars, flagActive, resetOpt>>

\* RespondSRQ of such a request.
RespondFlagCell(c) ==
  /\ At(c, "cells") /\ ServiceReq # <<>> /\ Head(ServiceReq).type = "FLAG"
  /\ SetAtOnce(Head(ServiceReq).id)
  /\ ServiceReq' = Tail(ServiceReq)
  /\ UNCHANGED <<eventVars, poolVars, runVars, IsrReq, TimeReq, callVars, OSSchedLock, pc, ret,
                 flagActive, resetOpt>>

\* A slip to rule out: a task whose time is up keeps its node in the list.
KeepNode(c) == UNCHANGED flagVars

\* TimeDispose of a task that waits for flags: its node is removed.
DisposeNode(c) ==
  LET t == Head(DlyList) IN
  /\ IF pnode[t] # "none"
     THEN /\ pnode' = [pnode EXCEPT ![t] = "none"] /\ node' = [node EXCEPT ![t] = NoNode]
          /\ flagList' = Without(flagList, {t})
     ELSE UNCHANGED <<pnode, node, flagList>>
  /\ UNCHANGED <<flagActive, flagRdy, resetOpt>>

FlagCall(t) ==
  \/ \E new \in NewFlags : CoCreateFlag(t, new.bAutoReset, new.bInitialState)
  \/ \E w \in Waits : CoAcceptFlags(t, w) \/ \E timeout \in Timeouts : CoWaitForFlags(t, w, timeout)

FlagStep(t) == TakeFlags(t) \/ FlagWoken(t) \/ StoreFlags(t) \/ ScanFlags(t)
=============================================================================
