SPECIFICATION Spec
CONSTANTS
  A = A
  B = B
  C = C
  D = D
  s = s
  b = b
  m = m
  Idle = Idle
  SysTick = SysTick
  Isr = Isr
  NULL = NULL
  Tasks = {Idle, A, B}
  Events = {s}
  Mails = {m}
  BootOrder <- Boot2
  BootFree <- None
  BootPrio <- Prio3
  BootEvents <- SemTwo
  BootFreeEvents <- None
  CFG_LOWEST_PRIO = 3
  CFG_MAX_SERVICE_REQUEST = 3
  CFG_MAILBOX_EN = FALSE
  CFG_PAR_CHECKOUT_EN = FALSE
  INVALID_VALUE = 9
  TickRace = FALSE
  Api <- PendApi
  Ids = {A, B}
  Delays = {}
  Priorities = {}
  LockToManage = FALSE
  MaxLock = 1
  Timeouts = {0}
  NewEvents = {}
  MaxCredit <- Few
INVARIANTS NeverOverdrawn
