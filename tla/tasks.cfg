SPECIFICATION Spec
CONSTANTS
  A = A
  B = B
  C = C
  D = D
  s = s
  b = b
  m = m
  Idle = Idle
  SysTick = SysTick
  Isr = Isr
  NULL = NULL
  Tasks = {Idle, A, B, C, D}
  Events = {}
  Mails = {}
  BootOrder <- Boot2
  BootFree <- FreeCD
  BootPrio <- Prio3
  BootEvents <- NoEvents
  BootFreeEvents <- None
  CFG_LOWEST_PRIO = 3
  CFG_MAX_SERVICE_REQUEST = 2
  CFG_MAILBOX_EN = TRUE
  CFG_PAR_CHECKOUT_EN = TRUE
  INVALID_VALUE = 9
  TickRace = FALSE
  Api <- ManageApi
  Ids = {A, B, C}
  Delays = {1}
  Priorities = {1, 2}
  LockToManage = FALSE
  MaxLock = 2
  Timeouts = {}
  NewEvents = {}
  MaxCredit <- Few
INVARIANTS LockInv ListsExact HighestRuns
