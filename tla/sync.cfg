SPECIFICATION SSpec
CONSTANTS
  A = A
  B = B
  C = C
  s = s
  q = q
  m1 = m1
  m2 = m2
  Idle = Idle
  SysTick = SysTick
  Isr = Isr
  NULL = NULL
  Tasks = {Idle, A, B, C}
  Events = {s, q}
  Mails = {m1, m2}
  BootOrder <- Boot3
  BootFree <- None
  BootPrio <- PrioABC
  BootEvents <- OneSem
  BootFreeEvents <- FreeQ
  CFG_LOWEST_PRIO = 3
  CFG_MAX_SERVICE_REQUEST = 1
  CFG_MAILBOX_EN = TRUE
  CFG_PAR_CHECKOUT_EN = TRUE
  INVALID_VALUE = 9
  TickRace = FALSE
  Api <- SyncApi
  Ids = {B}
  Delays = {1}
  Priorities = {1, 2}
  LockToManage = FALSE
  MaxLock = 1
  Timeouts = {1}
  NewEvents = {}
  MaxCredit <- MCCredit
  CFG_MAX_MUTEX = 1
  CFG_MAX_QUEUE = 1
  QueueSizes = {2}
  QueueSorts = {"FIFO"}
  Flags = {0, 1}
  Apps <- MCApps
  NewFlags <- MCNewFlags
  Waits <- MCWaits
SYMMETRY MailSymmetry
INVARIANTS SyncListsExact OneInside Inherits FlagsHeard
PROPERTIES QueuePromise
