SPECIFICATION DSpec
CONSTANTS
  A = A
  B = B
  C = C
  D = D
  s = s
  b = b
  m = m
  Idle = Idle
  SysTick = SysTick
  Isr = Isr
  NULL = NULL
  Tasks = {Idle, A, B, C}
  Events = {s}
  Mails = {m}
  BootOrder <- Boot3
  BootFree <- None
  BootPrio <- Prio3
  BootEvents <- SemWide
  BootFreeEvents <- None
  CFG_LOWEST_PRIO = 3
  CFG_MAX_SERVICE_REQUEST = 2
  CFG_MAILBOX_EN = TRUE
  CFG_PAR_CHECKOUT_EN = TRUE
  INVALID_VALUE = 9
  TickRace = FALSE
  Api <- MoveApi
  Ids = {B}
  Delays = {1}
  Priorities = {2}
  LockToManage = TRUE
  MaxLock = 1
  Timeouts = {0, 1}
  NewEvents = {}
  MaxCredit <- OneEach
INVARIANTS PriorityOrder
PROPERTIES NeverEarly
