SPECIFICATION FairSpec
CONSTANTS
  A = A
  B = B
  C = C
  D = D
  s = s
  b = b
  m = m
  Idle = Idle
  SysTick = SysTick
  Isr = Isr
  NULL = NULL
  Tasks = {Idle, A, B}
  Events = {s}
  Mails = {m}
  BootOrder <- Boot2
  BootFree <- None
  BootPrio <- Prio3
  BootEvents <- SemWide
  BootFreeEvents <- None
  CFG_LOWEST_PRIO = 3
  CFG_MAX_SERVICE_REQUEST = 1
  CFG_MAILBOX_EN = TRUE
  CFG_PAR_CHECKOUT_EN = TRUE
  INVALID_VALUE = 9
  TickRace = FALSE
  Api <- LiveApi
  Ids = {B}
  Delays = {2}
  Priorities = {2}
  LockToManage = FALSE
  MaxLock = 1
  Timeouts = {0, 1}
  NewEvents = {}
  MaxCredit <- OneEach
PROPERTIES DelayEnds RequestsServed TopTaskRuns
