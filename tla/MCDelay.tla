------------------------------ MODULE MCDelay -------------------------------
(***************************************************************************)
(* CoOS with a history of the ticks each sleeping task still has to sleep, *)
(* for the promises of the delay list.                                     *)
(***************************************************************************)
EXTENDS MCCoOS

VARIABLE left    \* ticks that have to pass before the task's delay is over

\* Context c, in this step, puts task u into the delay list for Asked(c) ticks.
Asks(c, u) ==
  \/ pc[c] \in {"app", "semblock", "mailblock"} /\ c = u
     /\ ~Contains(DlyList, u) /\ Contains(DlyList', u)
  \/ pc[c] = "reset" /\ pc'[c] # "reset" /\ arg[c].on = u
Asked(c) == IF pc[c] = "app" THEN CHOOSE ticks \in Delays : CoTickDelay(c, ticks) ELSE arg[c].val

DInit == Init /\ left = [t \in Tasks |-> 0]
DNext ==
  /\ Next
  /\ left' = [u \in Tasks |->
       IF \E c \in Tasks : Asks(c, u) THEN Asked(CHOOSE c \in Tasks : Asks(c, u))
       ELSE IF TickEnter /\ left[u] > 0 THEN left[u] - 1 ELSE left[u]]
DSpec == DInit /\ [][DNext]_<<vars, left>>

\* TimeDispose takes a task out of the delay list no earlier than the ticks it
\* asked for have passed, whatever ticks fell into locked sections and whoever
\* was inserted before or removed from the list (InsertDelayList,
\* RemoveDelayList, TimeDispose, CoResetTaskDelayTick).
NeverEarly ==
  [][\A c \in Contexts : pc[c] \in {"dispose", "tickdispose"} /\ pc'[c] \in {"unlink", "tickunlink"}
       => left[Head(DlyList)] = 0]_<<vars, left>>

\* The theorems about such applications speak of this one.
ASSUME TokenRules
=============================================================================
