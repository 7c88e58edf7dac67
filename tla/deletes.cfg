SPECIFICATION Spec
CONSTANTS
  A = A
  B = B
  C = C
  D = D
  s = s
  b = b
  m = m
  Idle = Idle
  SysTick = SysTick
  Isr = Isr
  NULL = NULL
  Tasks = {Idle, A, B, C}
  Events = {s}
  Mails = {m}
  BootOrder <- BootCB
  BootFree <- None
  BootPrio <- PrioCB
  BootEvents <- SemWide
  BootFreeEvents <- None
  CFG_LOWEST_PRIO = 3
  CFG_MAX_SERVICE_REQUEST = 2
  CFG_MAILBOX_EN = TRUE
  CFG_PAR_CHECKOUT_EN = TRUE
  INVALID_VALUE = 9
  TickRace = FALSE
  Api <- DeleteApi
  Ids = {C}
  Delays = {1}
  Priorities = {}
  LockToManage = FALSE
  MaxLock = 1
  Timeouts = {1}
  NewEvents <- NewSems
  MaxCredit <- OneEach
INVARIANTS ReadyListExact
CHECK_DEADLOCK FALSE
