# A TLA+ verification of CoOS and the elliana firmware

The repository is the firmware of a small Ethernet device (STM32F0, Cortex-M0).
`src/main.c` starts two tasks on the CooCox **CoOS** kernel (`src/CoOS`): one
polls an ENC28J60 controller and feeds the **uIP** stack (`src/uip`), the other
sends a heartbeat on a USART. The vendor's drivers (`src/stm_lib`) are below
them. This directory models these parts, checks the models with TLC, and proves
the kernel's central properties, and those of some smaller parts, with TLAPS for
every value of the constants.

## Inventory

| component (source) | state it keeps | what makes it correct | modules |
|---|---|---|---|
| scheduler lock, start-up (`core.c`) | `OSSchedLock`, `OSIntNesting`, `TaskSchedReq`, `IsrReq` | one writer of the lists; no switch away from the holder | `CoKernel` `CoTask`, proved |
| tasks, scheduler (`task.c`) | the TCBs, `TCBRdy`, `FreeTCB`, `TCBRunning`, `TCBNext` | each task in exactly the lists its state says; the highest ready task runs | `CoKernel` `CoTask`, proved; `CoBinary` |
| delay list (`time.c`) | `DlyList`, the delays | never early; always in the end | `CoKernel` `CoTask` `MCDelay`, proved |
| service requests (`serviceReq.c`) | `ServiceReq`, `IsrReq`, `TimeReq` | bounded, none forgotten | `CoKernel` `CoSync` |
| event control blocks (`event.c`) | `EventTbl`, `FreeEventList`, waiting lists | waiting lists exact and in order | `CoKernel` `CoEvent`, proved |
| semaphores, mailboxes (`sem.c`, `mbox.c`) | counter, mail | an accepted post is taken by exactly one taker | `CoSem` `CoMbox` `Semaphore`, proved |
| mutexes (`mutex.c`) | `MutexTbl`, `mutexID` | one task inside; the owner runs at its waiters' priority | `CoMutex` `CoSync`, proved |
| message queues (`queue.c`) | `QueueTbl` and rings | a bounded FIFO queue | `CoQueue` `Fifo` |
| flags (`flag.c`) | flag bits, list of waiters | no satisfied waiter sleeps on | `CoFlag` |
| software timers (`timer.c`) | `TmrTbl`, `TmrList` | run out when promised | `CoTmr`, proved |
| heap, partitions (`kernelHeap.c`, `mm.c`) | block headers, free lists | blocks tile the memory, none in two hands | `CoHeap` `CoMemory`, proved |
| port (`portable/`) | pending exceptions | a tick or a switch never breaks a section | `CoKernel` |
| main program (`main.c`) | its two loops | the heartbeat preempts; the stack is served | `Elliana` |
| uIP TCP (`uip.c`) | connections, timers | streams agree, closes deliver, slots come back | `UipTcp` `UipNet`; `UipRtt`, proved |
| uIP IP layer (`uip.c`) | headers, counters | takes in what came whole, sends what is accepted | `UipIp` |
| uIP ports (`uip.c`) | slots, port numbers | one owner for a segment or datagram | `UipPorts`, proved |
| uIP ARP (`uip_arp.c`) | the table and its ages | answers with the latest claim heard | `UipArp`, proved |
| uIP forwarding (`uip-fw.c`) | interfaces, packet cache | young packets are remembered | `UipFw`, proved |
| protosockets, libraries (`psock.c`, `uip-timer.c`, `uip-split.c`) | protothreads, timers | what was sent is sent again; timers survive the clock's wrap | `HelloWorld` `UipLib`, the latter proved |
| hello-world (`hello-world.c`) | a protothread | answers with the line it read | `HelloWorld` |
| Ethernet driver (`enc28j60/`) | read pointer, bank, the controller's ring | driver and controller agree | `Enc28j60`, proved; `EncSpi` |
| clock and serial line (`system_stm32f0xx.c`, `usart_jose.c`) | clock tree, USART | every byte arrives, at the rate asked for | `Board`, proved |
| vendor drivers (`stm_lib/src`: USART, SPI, RCC, GPIO) | peripheral registers | a call changes what it names and nothing else | `Usart` `Spi` `Rcc` `Gpio` |
| utility, hooks, CMSIS core, build products | none | | left out |

`PROJECT.json` says for each what is modelled and what is not, which source
lines each definition stands for, and lists the hazards with their lines.

**How they interact.** A task calls the kernel's API from its own code. Every
call that touches a list does `OsSchedLock(); body; OsSchedUnlock();`. The
outermost unlock first works off what interrupts left behind while the lock was
held (`RespondSRQ`: expired delays, then queued posts), then calls `Schedule`,
which moves the chosen task out of the ready list and pends PendSV, then writes
`OSSchedLock = 0`. SysTick runs the same unlock; a user interrupt posts directly
when the lock is free and through the request queue when it is not, and
schedules in `CoExitISR`. PendSV switches `TCBRunning` to `TCBNext` and zeroes
the lock again. Above the kernel `taskA` takes a frame from the driver, gives it
to `uip_arp_*` or `uip_input`, which calls the application, and sends what the
call left in `uip_buf`.

**What is hard.** The lock is a counter without a test-and-set; the switch it
pends is taken *inside* the unlock; many calls test a task or an event before
they lock; a wake-up, a time-out and a deletion may hit the same waiter; the
configuration switch for mailboxes changes what a semaphore does. In the stack:
one unacknowledged segment without a copy, over a network that loses, repeats
and reorders; one connection slot for all peers; arithmetic in bytes and signed
chars. In the drivers: a ring both sides move through, register banks that
survive a restart on one side only, fields that share registers.

## Modules

| module | what it is |
|---|---|
| `CoKernel` | state of the kernel, the list operations, `OsSchedUnlock` in steps, the exceptions, the state `CoStartOS` leaves |
| `CoTask`, `CoEvent`, `CoSem`, `CoMbox` | the API: tasks and time, events, semaphores, mailboxes |
| `CoOS` | the composition: `Next`, fairness, properties, the rules an application can keep to |
| `Semaphore` | abstract: tokens are added by accepted posts and taken at most once |
| `CoMutex`, `CoQueue`, `CoFlag`, `CoSync` | mutexes, queues and flags over `CoOS`, and their composition, in which `app` says which of them a behaviour uses |
| `Fifo` | abstract: a bounded queue that loses, doubles and swaps nothing |
| `CoTmr`, `CoHeap`, `CoMemory`, `CoBinary` | timers, heap, partitions, the binary scheduler beside the ordered list |
| `Elliana` | `main.c` over `CoOS`, with the shipped configuration |
| `UipTcp`, `HelloWorld`, `UipNet` | TCP, the protosocket and its application as functions of an event, peers and wires |
| `UipRtt`, `UipIp`, `UipPorts`, `UipArp`, `UipFw`, `UipLib` | the other parts of uIP, each alone |
| `Enc28j60`, `EncSpi` | the Ethernet driver a register access at a time, and an SPI byte at a time |
| `Board`, `Usart`, `Spi`, `Rcc`, `Gpio`, `Peripheral`, `Registers` | clocks and serial line; the vendor drivers, registers as sets of bits |
| `MCCoOS`, `MCDelay`, `MCSync`, `MCUip`, `MCParts` | instances for TLC; `MCDelay` adds a history of ticks |
| `CoOSProofs`, `CoOSExact`, `CoOSTokens`, `CoOSDelay`, `CoSyncProofs`, `PartsProofs` | the proofs |

**State of the kernel.** TCBs and ECBs are functions of a task or event; lists
are sequences of them, head first. `delay[t]` is the sum of the `delayTick`
differences up to `t`. `pc[c]` is where context `c` (a task, `SysTick`, `Isr`)
is: `"app"` and `"off"` outside the kernel, a label behind each unlocked test,
and labels for the steps of the unlock (`respond`, `dispose`, `unlink`,
`timeclr`, `cells`, `isrclr`, `sched`, `clear`); `ret[c]` is where the unlock
returns to. `credit` is the history variable of `CoOS`: per event, the posts
minus the takes that were told `E_OK`. Lists are sequences, so what a list
operation reads from the links has to be said beside them where the code leaves a
link that does not fit: `stalePrev` are the tasks whose `waitPrev` names a task
that `DeleteEvent` took out of the list before them (event.c:184), and
`staleHead` says of a mutex that the first of its list still names the task in front
of it, which owns the mutex now (mutex.c:255-272). `Misled` and `LinksMislead` say
when a removal takes the wrong branch because of them. `"fault"` is where a context
stops that does a list operation on such a TCB, or on one that is linked elsewhere:
the lists are corrupt from there on, and the model ends. `ListsExact` says it is
never reached. In `UipNet` the wires are sets of segments, from which one is
taken (received) or dropped, and where a segment that is sent again meets its
own copy; `peer` is TCP as a client has it, and external.

**Granularity, and why it is sound.** While the lock is held an interrupt can
only append to the request queue, and a tick can only count down the head of
the delay list and raise flags; no other task runs, and the body in the lock
reads none of the flags. So the body between lock and unlock is one step.
Everything else is split: each unlocked test from what follows it, each step of
the unlock, the two assignments of `TimeDispose` that a tick can fall between
(`TickRace` says whether it may), `ReleaseECB`'s mark from its locked part. The
test of a call's parameters is merged with the call's first step. SysTick and
PendSV have the same, lowest priority (`InitInt`), the interrupt a higher one,
and a pended PendSV is taken before the interrupted task's next instruction:
`OnCPU`. `InsertToTCBRdyList` keeps the order of equal priorities, and so does
`InsertBy`. Events in use are deleted only with `CFG_PAR_CHECKOUT_EN`: without
it no call tests an event's type (`EventApiAssumption`). `Api` says which task
makes which call, so an instance is an application; in it every call may come
at any time with any of the enumerated arguments. `LockToManage` says whether
the application manages another task only under `CoSchedLock`. uIP runs in one
task and no interrupt enters it, so a call of `uip_process` is one step.

**Rules for an application** (`CoOS`, at its end). `Disciplined`: other tasks are
managed under `CoSchedLock` and with their state checked, and no call is used that
leaves a task or an event where another call does not expect it. A tick may fall
between time.c:335 and 336 (`TickRace`), which no application can prevent; what it
can do is to wait for events with a time-out only and not to reset delays
(`TimedWaits`), and where the tick may fall there the rules ask for that. `TypedCalls` adds the parameter checks.
`TokenRules` adds mailboxes compiled in and no `CoAcceptSem`. `MutexRules`
(`CoSync`) is `Disciplined` where mutexes are used: since no such task calls
`CoSchedLock`, each manages only itself. Tasks that also wait for semaphores
do so without a time-out there, so with them `TickRace` has to be FALSE; in the other
mutex applications it may be TRUE. The theorems on lists, tokens and mutexes
assume them, and `MCDelay`, `Elliana` and `MCSync` assert them of their instances,
so that the shipped program and the run `locked` are cases of the theorems on
lists, `locked` of those on tokens, and the application of `mutexleak` of those on
mutexes. The application of `tasks`
is outside: its manager relies on being above the tasks it manages instead of
locking, which TLC checks. So is that of `events`, which uses `CoAcceptSem`, and
that of `sync`, where one task deletes and re-prioritises others without a lock. `TmrRules`
(`PartsProofs`) are the application's habits with software timers that keep the list
whole: it stops and deletes them under the lock, and sets no count of 0 and none of a
timer that has expired. `RttRules` are the numbers of the code: bytes of 8 bits,
UIP_RTO 3, and answers within 31 calls of the timer; the run `parts` uses smaller ones.

## Runs

Deadlock is checked but for the two runs of `UipNet`, where everybody may be
done, and `deletes`, where the model may stop at a list operation that the links
mislead: a task stops at `"fault"`, and `DisposeHead`, which a task or the tick
may be in, is not taken.

| run | instance | checks | shows |
|---|---|---|---|
| `events` | two tasks and idle, a semaphore both pend on, a mailbox, posts by the lower task and by an interrupt, request queue of 2, time-outs 0 and 1 | `TypeOK TokensConserved MailboxHonest LockKeepsCpu TokenPromise` | blocking, time-outs and deferred posts neither lose nor double a token; the kernel implements `Semaphore` |
| `tasks` | five TCBs, two free, no events, lock nesting 2 | `LockInv ListsExact HighestRuns` | creation, deletion, suspension, priorities by one manager under ticks |
| `deletes` | a deleter above two tasks that wait for the semaphore, one of which posts mail; semaphore and mailbox are created again in the same block | `ReadyListExact` | calls on deleted events never break the ready list, up to the step that a stale link of a waiting list misleads |
| `locked` | two tasks pend with and without a time-out; a manager moves, re-prioritises and deletes one of them under `CoSchedLock` | `PriorityOrder NeverEarly` | lists stay in order and nobody wakes early, across ticks in locked sections |
| `live` | a waiter with a time-out, a sleeper, an interrupt | `DelayEnds RequestsServed TopTaskRuns` | progress under hardware fairness |
| `elliana` | the shipped program and `OsConfig.h`, with ticks between time.c:335 and 336 | `BeatsForever StackServed HeartbeatPreempts` | heartbeat and stack both live |
| `sync` | eight small programs of two or three tasks and an interrupt over one mutex, one queue of two mails or two flags, deletions included | `SyncListsExact OneInside Inherits FlagsHeard QueuePromise` | owners, waiting lists, inheritance and flags agree; the queue implements `Fifo` |
| `tcp` | two peers, one slot, wires of one segment; one impatient peer, wires of two | `StreamsAgree CloseMeansDelivered AckedLineRead EndIsTheEnd SlotsComeBack` | streams survive loss, repetition and reordering; slots come back when `uip_periodic` is called |
| `parts` | seventeen parts, one in each behaviour | `TimersKeepTime MemoryExact SameOrder DriverAgrees LatestClaim RemembersTheYoung LibraryIsRight EstimateFits LineIsRight SettingsKept RatesAreRight RightRegister StackIsSound` | one property for each part |
| `shipped` | a semaphore, mailboxes compiled out as shipped | `NeverOverdrawn`, violated | event.c:346: waking a waiter does not take the token back |
| `mutexleak` | three tasks, one mutex | `PriorityGivenBack`, violated | mutex.c:220: a task that left keeps the priority it was lent |
| `noperiodic` | `tcp` with the main loop as shipped | `SlotsComeBack`, violated | main.c:58: without `uip_periodic` one lost segment takes the slot for ever |

In `parts` a behaviour chooses one part; the variables of the parts it has not
chosen stay as they start, and those of the instances that it has not chosen are
0. The view (`MCView`) drops them, so that two states of one part differ only in
that part's variables.

**Bounds.** Two or three tasks with two priorities and idle give every relation
of a preempting and a preempted task; a third TCB behind another is what the
list insertions tell apart. One mail suffices where the properties only ask
whether there is one; the queue has two, which may be swapped (the symmetry of
`sync`). A request queue of two fills up, and with `MaxCredit` = 2 both cells
may be for one event. Delays of 0 to 2 reach every order of two neighbours in the
list. `INVALID_VALUE` (0xffffffff) is any number above the delays. `MaxCredit`
bounds the posts that are out, `MaxLock` the nesting. In `tcp` sequence numbers
are counted modulo 8 (`SeqSpace`), which is more than a connection's stream, and
start beside the wrap; two retransmissions, of one allowed, reach the abort. In
`parts` each counter wraps at a small power of two (`ArpTimes`, `ClockRange`,
`SeqRange`, `ByteRange`, `OctetRange`); `UsartCalls`, `SpiCalls`, `AnyCalls`,
`TreeCalls` and `GpioCalls` bound the length of a sequence of driver calls, and
two calls are enough for one to undo the other; what a second `SPI_Init` wipes was set
behind a first, so sequences without I2S and flags go on to three (`ModeCalls`). The
masks that each call writes with are the numbers of the code, written out, where it
has numbers (`CR1_CLEAR_MASK` and the like), and the bits of the field where it names
the field's own mask; so the first are what can be too wide in the model; `MaxFrames` and `MaxSent` bound
frames and bytes. Five frames (`EncSpi`) and a ring of four cells with frames of one
and two (`Enc28j60`) wrap the receive ring; in `EncSpi` the frame that is cut to the
buffer is answered and the short one is not.

**Fairness.** `Fairness` in `CoOS`: the tick comes again and again (strong,
because it is held off while another handler or a pended switch is active);
active handlers and a pended PendSV are served (weak: nothing disables them but
a higher exception that ends); a task that has the CPU again and again finishes
the call it is in (strong: ticks interrupt it). No task has to make a call and
the user's interrupt need not come. `Elliana` adds that the two loops are
executed when they have the CPU again and again, and a timing assumption,
`ticked`: between two ticks the task on the CPU gets one step of its own done.
The tick is 100 Hz and the CPU 48 MHz (`OsConfig.h:45,50`). Without it ticks
could starve the tasks, which no fairness excludes. `LiveSpec` of `UipNet` has
`uip_periodic` called for each slot again and again (weak: nothing disables it),
as uip.h:264 asks, and nothing of the network or the peers. `ShippedSpec` has only
what main.c does: segments that have arrived are taken.

Each property has a mutant of the code that breaks it, next to the definition it
replaces ("A slip to rule out").

**Disagreements with the comments** are the three violation runs. Others were
seen while the properties were found, by a run of the same models with one
constant or one bound changed:

- `CoAcceptSem` decrements after it unlocked (sem.c:140): two tasks that accept
  take one token and the counter wraps to 65535.
- A handler is told `E_OK` for a post that is refused when the request is worked
  off (serviceReq.c:132 ignores the result), if the event is full by then.
- A post between the pend's test and its blocking (sem.c:206, mbox.c:203,
  queue.c:262) leaves a task asleep beside a token.
- `TickRace` = TRUE: a tick between time.c:335 and 336 turns the mark "not
  delayed" of the task that is taken out of the list into a delay (`Spoilt`). A
  later time-out or `CoTickDelay` writes a good one over it. A task that waits
  without a time-out instead, or whose delay is reset (time.c:243), is taken out of a
  delay list it is not in when it is woken: as its links say, it is the only one,
  and the list is emptied (time.c:115-118).
- Deleting an event that several tasks wait for leaves the `waitPrev` of all but the
  first (event.c:184). Once such a task is the head of a list again, a time-out or
  a deletion takes it for a later one (event.c:394, 399): it stays the head of the
  list, and a task that waits nowhere is linked to. `deletes` reaches the state and
  stops there, and at a task that went on waiting for a deleted event whose block was
  created anew (event.c:134): it has no links, so its removal empties the new list
  (event.c:384).
- `Delays` with 0: `CoResetTaskDelayTick(id, 0)` readies a task that still is in
  an event's list; its test (time.c:236) is made without the lock.
- Deleting the first of several waiters of a mutex corrupts its list
  (mutex.c:310). So does deleting a waiter that came to be the first when the one
  before it became the owner: its `TCBprev` still names the owner
  (mutex.c:255-272), so it is taken for the last one, or for one in the middle. The
  owner's link in the ready list is overwritten, which cuts that list, and
  `waittingList` still names the deleted task, which gets the mutex next (mutex.c:304,
  316). `Undeletable` in `CoSync` keeps the application of `sync` from both, so
  `SyncListsExact`, `OneInside` and `Inherits` are checked for deletions of owners, of
  the only waiter that has stood behind nobody, and of waiters behind the first.
- `SPI_Init` clears the CRC length (bit 11 of the mask at spi.c:106) although the
  comment at spi.c:245 does not list it and `SPI_InitTypeDef` has no member for it: a
  length of 16 bits set before is lost. `SettingsKept` says so of that field, and that
  it is the only one.
- `Habits` without `"lock"`: stopping or deleting a timer that has expired and
  waits to be disposed of loses every timer behind it (timer.c:124-127); the
  test at timer.c:268 is made without the lock.
- `Managers` of two: a partition's id is free before its block is cleared
  (mm.c:118-126), and the clearing hits the next owner's partition.
- `PriorityOfReady` = TRUE: with the binary scheduler `CoSetPriority` renumbers
  the priorities, without the lock, while the task still is on the ready list
  under its old one (task.c:627-637), and the list loses its order.
- `MaxRtt` of 8 with `ByteRange` 64 (32 with 256): the round-trip estimate wraps
  a signed char.
- The reply to a ping whose octets are all 0 goes out with checksum 0x0000
  instead of 0xffff (uip.c:998).

The passing runs keep clear of these by a named constant or a guard with a
comment; the hazards in `PROJECT.json` name the property that is affected.

## Proofs

`tlapm` proves the following for any tasks, events, priorities, configuration and
application that meet the assumptions named in the modules.

| theorem | statement | for |
|---|---|---|
| `LockInvariant`, `LockIsExclusive` | `Spec => []LockInv`, and from it: at most one context is in a locked section, and the lock is taken while one is | every application |
| `LockHoldsCpu` | `Spec => LockKeepsCpu`: a switch never takes the CPU from a task that holds the lock | every application |
| `TypeCorrect` | `Spec => []TypeOK` | every application |
| `ListsStayExact` | `Spec => []ListsExact`, also with ticks between time.c:335 and 336 | `Disciplined` |
| `ReadyListStaysExact` | `Spec => []ReadyListExact` | `Disciplined` |
| `PriorityOrderKept` | `Spec => []PriorityOrder` | `Disciplined` |
| `HighestPriorityRuns` | `Spec => []HighestRuns` | `Disciplined` |
| `NeverWokenEarly` | `DSpec => NeverEarly`: a delay or time-out is never over before its ticks have passed | `Disciplined` |
| `MailboxStaysHonest` | `Spec => []MailboxHonest` | `TypedCalls` |
| `TokensKeepPromise` | `Spec => TokenPromise`: `CoOS` implements `Semaphore` | `TokenRules` |
| `NoneOverdrawn` | `Spec => []NeverOverdrawn`, what `shipped` refutes without mailboxes | `TokenRules` |
| `MutualExclusion` | `SSpec => []OneInside` | `MutexRules` |
| `PriorityInherited` | `SSpec => []Inherits` | `MutexRules` |
| `MutexListsStayExact` | `SSpec => [](app.uses = "mutex" => SyncListsExact)` | `MutexRules` |
| `ArpLatestClaim` | `ArpSpec => []LatestClaim` | any hosts, table, frames |
| `CacheRemembers` | `FwSpec => []RemembersTheYoung` | any packets, slots, times |
| `SerialLineIsRight` | `BoardSpec => []LineIsRight` | any bytes, clocks, delays of the crystal |
| `DriverFollowsTheChip` | `EncSpec => []DriverAgrees` | any frames, ring, restarts |
| `SmallLibraries` | `LibSpec => []LibraryIsRight` | any clock range, intervals, segments |
| `BlocksAreExact` | `MemorySpec => []PartitionsExact` | any memory and tasks, `OneManager` |
| `HeapIsTiled` | `HeapSpec => []HeapTiles` | any heap and sizes |
| `KernelMemoryExact` | `HeapSpec /\ MemorySpec => []MemoryExact` | the same, `OneManager` |
| `TimersStayOnTime` | `TmrSpec => []TimersKeepTime` | any timers, counts and delays of the idle task, `TmrRules` |
| `EstimateStaysExact` | `RttSpec => []EstimateFits` | any round trips, `RttRules` |
| `PortsHaveOneOwner` | `PortsSpec => []OneOwner` (of `UipPorts`, a part of `StackIsSound`) | any slots, ports and calls |

**The lock** (`CoOSProofs`). `OneWriter` alone is not inductive: a task that
resumes behind a switch could find the lock it then zeroes taken by another.
`LockInv` adds what excludes it: while PendSV is pending no task is in a section,
and the lock is zero, or the task just scheduled is about to clear it, or a
handler is; and an unlock returns to a label outside the lock. A step of the
task on the CPU has a *shape* (`TaskStepShape`) that keeps the invariant whatever
the call does to the data; the steps of the unlock are treated once for all
contexts; each exception has a lemma. `TypeCorrect` needs `LockInv`, because
`UnlinkHead` takes the head of the delay list that `DisposeHead` has looked at
before, and nothing else may unlink it in between (`HeadThere`).

**The lists** (`CoOSExact`). `ListsExact` says of each task which lists it is
in; that a step keeps it depends on what the call has found out about the task
before its last unlocked step. `KernelInv` is the conjunction of the types,
`HeadThere`, the lock, and `OrderInv`: where tasks can be at all (`ControlInv`), who
has the CPU (`CpuInv`), each of the lists (`ListInv`, `PoolInv`, `BoxInv`), and
what each label of `pc` has tested of its argument (`ManageInv`: a task about
to be deleted is not dormant, and the task that tested it holds the lock).
`PriorityOrder` and `HighestRuns` follow from `KernelInv` and `OrderKept`, which
adds `Served`: no ready task goes before `TCBNext`, unless `TaskSchedReq` is set or
the caller is about to set it. That is what makes `HighestRuns` inductive:
`Schedule` returns early while a switch is pending, and the request has to
survive until the next unlock. The lemmas on lists say what `InsertBy` and
`Unlink` do to membership, injectivity and order. The tick that falls between
time.c:335 and 336 is one of the steps: it leaves a task outside the delay list with
a valid delay, which every later test of that delay believes. `DelayInv` says that such
a task is `Spoilt`: it is not WAITING, or waits for a mutex, where nobody tests its
delay before it is given a new one. A wait with a time-out gives it a new one; that is
why `TimedWaits` is needed there, and enough. Without the rules the theorems are
false: the list above gives the behaviours.

**The tokens** (`CoOSTokens`). `MailInv` says that a mailbox holds a mail and
its counter is one, or `NULL` and zero, that requests for a mailbox carry a
mail, and that a call at a semaphore's label is about a semaphore. For
`TokenPromise` each step of `CoOS` is shown to post to, take from or leave alone the
abstract tokens. The step that is hard is the take by a task that was woken: it
is told `E_OK` many steps after the post. `WakeInv` says that a task that
returns from its pend without a time-out was given a token, and which tasks
have one; `Covered`, that for each event what is in the counter, with the tasks
that were given a token and the queued requests, is at most `credit`.

**The delays** (`CoOSDelay`). The history `left[u]` counts down with the ticks from
what `u` asked for. `LeftInv` says that no task is in the delay list for less than
what it still has to sleep. It needs `KernelInv`, because only that says who can be
put into the list by a step: a step either puts in the one task that asks, with
the delay it asks for, or takes tasks out, or is the tick that counts the head of
the list and every `left` down by one. A head is taken out only at delay 0.

**The mutexes** (`CoSyncProofs`). `OneInside` says who is inside, and its proof
has to say who will be. `OwnerInv`: a mutex that is occupied has an owner, who is
inside or on its way in, and a free one has no list; `EntryInv`: a task on its way
in owns the mutex or is in its list, and a task with a `mutexID` is in one of the
two places; `QueueInv`: a task in a mutex's list is in no other list, the
delay list included, and is not the owner. The last is what makes hand-over safe: the task that is
made READY is in neither the ready list nor the delay list, so that
`InsertToTCBRdyList` is not given a task that is linked elsewhere, and no time-out
or post wakes it first. `Lent` is `Inherits` without its exception, for the label
it names is never reached here. At a hand-over the new owner takes the lent
priority or the lowest of the list, and the proof shows that either is below
all that wait, although `hipriTaskID` may name a task that left the list long ago.
A step of the mutexes moves other tasks in the kernel's lists, so `KernelInv` is
shown again for each (`EnterKeepsKernel`, `LeaveKeepsKernel`,
`PriorityKeepsKernel`); every other step is one of `CoOS` that wakes no task that
waits for a mutex (`Spares`), and keeps `KernelInv` by the proof in `CoOSExact`. The
theorems need that tasks manage only themselves: `CoSetPriority` of an owner by
another task follows it from an unlocked read of `taskID` (task.c:672), and `Lent`
is then broken in between. TLC checks that case, and deletions, in `sync`. They
need that INVALID_ID is no mutex (`MutexAssumption`), and nothing else.

**The parts** (`PartsProofs`). `ArpInv` and `FwInv` add the shape of the tables
to the properties; the lemmas say that the entry thrown out is the oldest one,
from the well-foundedness of the naturals. `LineInv` follows a byte from the
data register through the shift register onto the line, and says of each stage of
`SetSysClock` and `USART_Init` which clock is in use and that the divider is that
clock's. `EncInv` says that the frames that wait lie one behind the other between
the read pointer and the write pointer, each in cells of its own and each where
the one before it ends, as long as none came in while the read pointer was outside
the ring; and how far the driver's pointer is ahead of the controller's between
reading a frame and giving its cells back. `LibInv` says that the clock minus a
timer's start is what has lapsed and the interval, up to whole ranges of the clock.
`MemoryInv` says that a block that is out belongs to a partition that is ready, that
no area is two partitions, and what is left of a manager's call: a list to build on an
area nobody has, or a control block to clear whose id is free. With two managers the
last is not an invariant, and the theorem is false, as told above.

`HeapInv` says of every block what its links must be: where it ends the next one
starts or the heap does (`Up`), where it starts the one before ends (`Down`), and
nothing lies between; the list is said in the same way (`FreeUp`). Stated block by
block it is changed only where a call writes. `CoKmalloc` comes to two lemmas, the
block given whole and the block split, and the four cases of `CoKfree` to one
(`FreedIs`, `KfreeKeeps`): the block grows down over a free one before it and up over
a free one after it. What a merged block may be linked behind rests on the loop of
`GetPreFMB`, and the first fit on the list; both loops, and the two over the heap that
check a pointer, are recursive functions that exist and have one value because the
addresses along the links only rise or only fall (`PreFMBIs`, `ChainIs`, `WalkIs`).
That a header of a free block always fits into a block given back needs that nobody
is given 0 bytes: `HeapSizes` leaves them out, as `CoKmalloc` refuses them where the
parameter checks are compiled in (`kernelHeap.c:73`) and relies on its callers where
they are not, which is the repository's setting (`OsConfig.h:120`).

`TmrInv` turns what `TimersKeepTime` says of sums into something a step can keep: the
count of an entry is the difference between its end, `due` plus `late`, and the end of
the entry before it (`Steps`). Inserting or taking out a timer changes two
differences, the tick the first one. `CallSound` says what a call half way knows of
its timer; it is the lock that keeps an expired timer out of there. `RttInv` bounds the
recurrence of the estimate, which divides and is not linear, by a polygon of `sa` and
`sv` that no sample leads out of and in which no byte wraps. `PortsHaveOneOwner` needs
that the loop of `uip_connect` ends at a number not in use: the numbers it tries are
different until they come round (`TriedOnce`), there are more of them than slots, and
so one is free (`UnusedIsFree`). What the loop computes is shown by an induction over
the numbers it has tried, put as a set that has no least element (`SetInduction`).

**Only model-checked.** TLAPS proves neither liveness under fairness nor
`ENABLED`, so the properties of `live`, `BeatsForever`, `StackServed` and
`SlotsComeBack` stay with TLC. The library's induction
theorems cannot be cited either; `SetInduction` stands in for them where the statement
is about a set of numbers and the definition a recursive function. Not done that way:
the bits and lists of `CoBinary` (`SameOrder`), and `CoSetFlag`, which
wakes whoever is satisfied by a fold over the list of flags (`FlagsHeard`, and the flags
of `SyncListsExact`). `TokensConserved`, the equality of which `Covered` is one
half, is true only while no counter wraps, no request is refused and no task
that was given a token is deleted, which bounds the instances and not the code.
The properties of `UipNet`, the queue's `QueuePromise`, the checksums of
`StackIsSound`, the properties of `EncSpi` and of the vendor drivers, and those of
`CoSync` with tasks that manage each other are within reach and not proved.

## Not modelled, and known from reading

*Kernel.* Links of the lists (they are sequences; a list operation on a wrong TCB
is `"fault"`), the difference encoding of the delay list and delays of 2^31
ticks and more, the stack check, round robin, the wrap of the 8-bit lock counter,
`CoTickToTime` (which multiplies ticks and truncates). Known: the last TCB starts in
state READY (task.c:82). A task that enters a mutex it owns waits for itself; leaving a
FREE mutex indexes `TCBTbl[INVALID_ID]`; nested mutexes overwrite `mutexID`.
`CoCreateQueue` that finds no event leaks the queue's id; `CoDelQueue` frees the
id and clears the block afterwards. `CoDelFlag` may satisfy a waiter for all of its
flags and leave it asleep (flag.c:121). `CoSetTmrCnt` changes the next timer's
count (timer.c:371-377), counts of 2^31 and more compare as negative. A double
free walks off the heap's list.

*uIP.* Reassembly is compiled out (read: it hands packets on 20 bytes short, line
652, and its bitmap loop skips a byte, line 636), as are UDP and IPv6 where
`uip-conf.h` says so; `UipIp` and `UipPorts` model UDP as it would be. Urgent
data, a window that closes, `uip_stop`, `uip_udp_bind`, `psock_readbuf` and
`psock_generator_send` are left out. Known: data that comes before the greeting
is acknowledged is lost; a SYN without an MSS option keeps the slot's old MSS; a
protosocket send that is longer than a segment loses its middle; the initial
sequence number counts calls of a timer that main.c never calls, nor does it call
`uip_arp_timer`: entries of the ARP table never age; `uip_neighbor_add` compares an
IP address with a link address (uip-neighbor.c:102); replies to unbound UDP go to port
0; an address of 0 skips the destination test; `uip_connect` uses up a port
number when no slot is free; `uip_listen` of a full table is ignored silently, and
a port listened to twice has to be given up twice; an ARP eviction among equals hits
entry 0; addresses half of which is zero are entered twice.

*Board.* Data registers and everything the vendor libraries only pass through.
Known: when the crystal times out the chip runs at 8 MHz and `CFG_CPU_FREQ` and
`SystemCoreClock` still say 48; a read pointer of 0 makes the driver write
0x1FFF, outside the receive ring; `TXERIF` is never cleared; `enc28j60_read_phy` sets
bits of an MII register with a command that works on ETH registers alone;
changing OverSampling8 after `USART_Init` makes the rate wrong (usart.c:434);
`I2S_Init` falls back to a divider of 2; `RCC_HSEConfig` clears `CSSON`.

## Plan

Left to prove, in this order: the flags, the order of
`CoBinary`, the queue's refinement of `Fifo` (for one task that posts: a post tests
for a full queue before it locks), the banks of `EncSpi`, the streams of `UipNet`. Left
to model: the difference encoding of the delay list, and the mutex calls the
application of `sync` leaves out because they are known to fail.
