SPECIFICATION MainSpec
CONSTANTS
  taskA = taskA
  taskB = taskB
  Idle = Idle
  SysTick = SysTick
  Isr = Isr
  NULL = NULL
  BEAT = 16
  Tasks = {Idle, taskA, taskB}
  Events = {}
  Mails = {}
  BootOrder <- MainOrder
  BootFree <- None
  BootPrio <- MainPrio
  BootEvents <- NoEvents
  BootFreeEvents <- None
  CFG_LOWEST_PRIO = 64
  CFG_MAX_SERVICE_REQUEST = 3
  CFG_MAILBOX_EN = FALSE
  CFG_PAR_CHECKOUT_EN = FALSE
  INVALID_VALUE = 65535
  TickRace = TRUE
  Api <- MainApi
  Ids = {}
  Delays = {16}
  Priorities = {}
  LockToManage = FALSE
  MaxLock = 1
  Timeouts = {}
  NewEvents = {}
  MaxCredit <- NoEvents
PROPERTIES BeatsForever StackServed HeartbeatPreempts
