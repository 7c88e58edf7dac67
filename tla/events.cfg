SPECIFICATION Spec
CONSTANTS
  A = A
  B = B
  C = C
  D = D
  s = s
  b = b
  m = m
  Idle = Idle
  SysTick = SysTick
  Isr = Isr
  NULL = NULL
  Tasks = {Idle, A, B}
  Events = {s, b}
  Mails = {m}
  BootOrder <- Boot2
  BootFree <- None
  BootPrio <- Prio3
  BootEvents <- SemAndMbox
  BootFreeEvents <- None
  CFG_LOWEST_PRIO = 3
  CFG_MAX_SERVICE_REQUEST = 2
  CFG_MAILBOX_EN = TRUE
  CFG_PAR_CHECKOUT_EN = TRUE
  INVALID_VALUE = 9
  TickRace = FALSE
  Api <- EventApi
  Ids = {A, B}
  Delays = {}
  Priorities = {}
  LockToManage = FALSE
  MaxLock = 1
  Timeouts = {0, 1}
  NewEvents = {}
  MaxCredit <- Few
INVARIANTS TypeOK TokensConserved MailboxHonest
PROPERTIES LockKeepsCpu TokenPromise
