------------------------------- MODULE MCCoOS -------------------------------
(***************************************************************************)
(* Small instances of CoOS.  Each .cfg picks an application (Api), the     *)
(* tasks created before CoStartOS and the events that exist.               *)
(***************************************************************************)
EXTENDS CoOS

CONSTANTS A, B, C, D,    \* tasks
          s, b,          \* a semaphore, a mailbox
          m              \* a mail

\* A above B and C, which are above idle; in PrioCB C is above B
Boot2 == <<A, B, Idle>>
Boot3 == <<A, B, C, Idle>>
BootCB == <<A, C, B, Idle>>
None == <<>>
FreeCD == <<C, D>>
Prio3 == [t \in Tasks |-> CASE t = A -> 0 [] t = B -> 1 [] t = C -> 1 [] OTHER -> 3]
PrioCB == [t \in Tasks |-> CASE t = A -> 0 [] t = C -> 1 [] t = B -> 2 [] OTHER -> 3]

ECB(type, sort, cnt, max) ==
  [eventType |-> type, eventSortType |-> sort, eventCounter |-> cnt, initialEventCounter |-> max]
SemWide == [e \in Events |-> ECB("SEM", "PRIO", 0, 9)]
SemTwo == [e \in Events |-> ECB("SEM", "FIFO", 1, 2)]
SemAndMbox == [e \in Events |-> IF e = b THEN ECB("MBOX", "PRIO", 0, 0) ELSE ECB("SEM", "PRIO", 0, 9)]
NoEvents == [e \in Events |-> ECB("INVALID", "FIFO", 0, 0)]
NewSems == {ECB("SEM", "PRIO", 0, 2), ECB("MBOX", "FIFO", 0, 0)}

\* How many posts may wait to be taken: one mail, two tokens; or one of each.
Few == [e \in Events |-> IF e = b THEN 1 ELSE 2]
OneEach == [e \in Events |-> 1]

Does(tasks, calls) == tasks \X calls

\* A manages itself, B and C; B and C only compute.
ManageApi == Does({A}, {"CoSchedLock", "CoSchedUnlock", "CreateTask", "CoDelTask", "CoSuspendTask",
                        "CoAwakeTask", "CoSetPriority", "CoTickDelay", "CoExitTask"})
\* A takes what B and the interrupt post; B waits for tokens as well.
EventApi == Does({A}, {"CoPendSem", "CoPendMail", "CoAcceptSem", "CoAcceptMail"})
            \cup Does({B}, {"CoPendSem", "CoPostSem"}) \cup Does({Isr}, {"isr_PostSem", "isr_PostMail"})
\* A sleeps and moves B, which sleeps or waits for the interrupt with a time-out.
LiveApi == Does({A}, {"CoTickDelay", "CoSetPriority"}) \cup Does({B}, {"CoPendSem", "CoTickDelay"}) \cup Does({Isr}, {"isr_PostSem"})
\* A, above the tasks that use the events, deletes and creates them.
DeleteApi == Does({A}, {"CoCreateSem", "CoCreateMbox", "CoDelSem", "CoDelMbox", "CoTickDelay",
                        "CoResetTaskDelayTick"})
             \cup Does({B}, {"CoPostMail", "CoPendSem"})
             \cup Does({C}, {"CoPendSem"})
\* A moves B, which waits for the semaphore as C does, under the lock.
MoveApi == Does({A}, {"CoSchedLock", "CoSchedUnlock", "CoResetTaskDelayTick", "CoSetPriority",
                      "CoDelTask", "CoTickDelay", "CoPostSem"})
           \cup Does({B, C}, {"CoPendSem"})

\* A takes, B and the interrupt post.
PendApi == Does({A}, {"CoPendSem"}) \cup Does({B, Isr}, {"CoPostSem", "isr_PostSem"})
=============================================================================
