------------------------------- MODULE MCSync -------------------------------
(***************************************************************************)
(* A small instance of CoSync.                                             *)
(***************************************************************************)
EXTENDS CoSync

CONSTANTS A, B, C,       \* tasks, A above B above C
          s, q,          \* a semaphore, a free event
          m1, m2         \* mails

Boot3 == <<A, B, C, Idle>>
None == <<>>
PrioABC == [t \in Tasks |-> CASE t = A -> 0 [] t = B -> 1 [] t = C -> 2 [] OTHER -> 3]
FreeQ == <<q>>
OneSem == [e \in Events |-> [eventType |-> IF e = s THEN "SEM" ELSE "INVALID", eventSortType |-> "PRIO",
                             eventCounter |-> 0, initialEventCounter |-> 1]]
MCCredit == [e \in Events |-> 1]

OneFlag == [flags |-> {0}, type |-> "ONE"]
BothFlags == [flags |-> {0, 1}, type |-> "ALL"]
MCWaits == {OneFlag, BothFlags}

MCNewFlags == {[bAutoReset |-> TRUE, bInitialState |-> TRUE], [bAutoReset |-> FALSE, bInitialState |-> FALSE]}

Does(tasks, calls) == tasks \X calls

\* Mutexes: all three tasks enter, A also sleeps, moves and deletes B, and B
\* sleeps or waits for a semaphore.
MutexApi ==
  Does({A}, {"CoCreateMutex", "CoTickDelay", "CoSetPriority", "CoDelTask", "CoPostSem"})
  \cup Does({A, B, C}, {"CoEnterMutexSection", "CoLeaveMutexSection"})
  \cup Does({B}, {"CoTickDelay", "CoPendSem"})
\* Queues: A creates, deletes and waits, B waits, C posts.
QueueApi ==
  Does({A}, {"CoCreateQueue", "CoDelQueue", "CoPendQueueMail"})
  \cup Does({B}, {"CoPendQueueMail", "CoAcceptQueueMail"})
  \cup Does({C}, {"CoPostQueueMail"}) \cup Does({Isr}, {"isr_PostQueueMail"})
\* Flags: A creates, deletes and sets, B and C wait.
FlagApi ==
  Does({A}, {"CoCreateFlag", "CoDelFlag", "CoSetFlag", "CoClearFlag", "CoTickDelay",
              "CoAcceptMultipleFlags"})
  \cup Does({B}, {"CoWaitForMultipleFlags", "CoAcceptSingleFlag"})
  \cup Does({C}, {"CoWaitForSingleFlag"})
  \cup Does({Isr}, {"isr_SetFlag"})
App(uses, also, tasks) == [uses |-> uses, also |-> also, tasks |-> tasks]
MCApps ==
  {App("mutex", {"delete", "sleep"}, {A, B, C}), App("mutex", {"priority"}, {A, B, C}),
   App("mutex", {"priority", "semaphore"}, {A, B}),
   App("queue", {"delete"}, {A, B, C}), App("queue", {"isr"}, {A}),
   App("flag", {}, {A, B, C}), App("flag", {"delete", "clear"}, {A, B}),
   App("flag", {"isr"}, {A, B})}
OnlyMutex == {App("mutex", {}, {A, B, C})}
SyncApi == MutexApi \cup QueueApi \cup FlagApi

\* Three tasks share one mutex, A sleeps now and then.
LeakApi == Does({A}, {"CoCreateMutex", "CoTickDelay"})
           \cup Does({A, B, C}, {"CoEnterMutexSection", "CoLeaveMutexSection"})

\* The theorems about mutexes speak of this application.
ASSUME Apps = OnlyMutex => MutexRules

MailSymmetry == Permutations(Mails)

\* The queue of event q keeps the promise of a bounded FIFO queue.
Ring == INSTANCE Fifo WITH
  open <- IsQueue(q), queue <- Contents(q), Users <- Tasks, Messages <- Mails, Room <- 2,
  inbox <- [t \in Tasks |-> IF pmail[t] \in Mails THEN pmail[t] ELSE got[t]]
QueuePromise == Ring!Spec
=============================================================================
