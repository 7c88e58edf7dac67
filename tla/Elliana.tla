------------------------------ MODULE Elliana -------------------------------
(***************************************************************************)
(* The program of main.c: taskA polls the Ethernet controller and feeds    *)
(* the uIP stack in a loop that never blocks, taskB, above it, sends a     *)
(* byte on the USART every BEAT ticks.  No user interrupt is enabled.      *)
(***************************************************************************)
EXTENDS CoOS

CONSTANTS taskA, taskB,
          BEAT           \* the argument of CoTickDelay in taskB

ASSUME EllianaAssumption ==
  /\ taskA \in Tasks /\ taskB \in Tasks /\ Cardinality({taskA, taskB, Idle}) = 3
  /\ BootOrder = <<taskB, taskA, Idle>> /\ BootPrio[taskB] < BootPrio[taskA]
  /\ Api = {<<taskB, "CoTickDelay">>} /\ BEAT \in Delays

VARIABLES
  stage,    \* what taskA and taskB do next in their loops
  ticked    \* has a tick come since a task last did something of its own?

mainVars == <<vars, stage, ticked>>

MainInit ==
  /\ Init
  /\ stage = [t \in {taskA, taskB} |-> IF t = taskA THEN "recv" ELSE "beat"]
  /\ ticked = FALSE

Loop(t, from, to) ==
  /\ At(t, "app") /\ stage[t] = from
  /\ stage' = [stage EXCEPT ![t] = to]
  /\ ticked' = FALSE

\* enc28j60_recv_packet: nothing, an IP frame, an ARP frame or another one.
Receive == \E next \in {"recv", "ip", "arp"} : Loop(taskA, "recv", next) /\ UNCHANGED vars

\* uip_arp_ipin and uip_input, uip_arp_arpin: uip_len says whether to answer.
Input ==
  \/ Loop(taskA, "ip", "recv") \/ Loop(taskA, "ip", "arpout")
  \/ Loop(taskA, "arp", "recv") \/ Loop(taskA, "arp", "send")

Answer == Loop(taskA, "arpout", "send") \/ Loop(taskA, "send", "recv")

IPstackIdle == Receive \/ ((Input \/ Answer) /\ UNCHANGED vars)

\* A slip to rule out: the beat does not wait.
SleepNot == Loop(taskB, "delay", "beat") /\ UNCHANGED vars

\* usartSend(0xC1) waits for the transmitter, CoTickDelay(16) follows.
Beat == Loop(taskB, "beat", "delay") /\ UNCHANGED vars
Sleep == Loop(taskB, "delay", "beat") /\ CoTickDelay(taskB, BEAT)

\* A task in the middle of a long poll or transfer, or idle in its loop.
Work == \E t \in Tasks : At(t, "app") /\ ticked' = FALSE /\ UNCHANGED <<vars, stage>>

Kernel ==
  /\ \/ \E t \in Tasks : Step(t)
     \/ UnlockStep(SysTick) \/ PendSV_Handler
  /\ UNCHANGED <<stage, ticked>>

\* Timing: a tick is many times longer than any path through the kernel, so
\* the task that has the CPU gets something of its own done between two ticks.
Tick == TickEnter /\ ~ticked /\ ticked' = TRUE /\ UNCHANGED stage

MainNext == IPstackIdle \/ Beat \/ Sleep \/ Work \/ Kernel \/ Tick

MainSpec ==
  /\ MainInit /\ [][MainNext]_mainVars /\ Fairness
  /\ SF_mainVars(IPstackIdle) /\ SF_mainVars(Beat) /\ SF_mainVars(Sleep)

---------------------------------------------------------------------------
\* The heartbeat comes again and again although taskA never blocks, and the
\* stack gets back to the controller although taskB preempts it anywhere.
BeatsForever == []<>(stage[taskB] = "beat") /\ []<>(stage[taskB] = "delay")
StackServed == []<>(stage[taskA] = "recv" /\ OnCPU(taskA))

\* taskA takes no step of its loop while taskB is ready: the tick that ends
\* the delay switches tasks before the interrupted code goes on (TimeDispose,
\* Schedule, PendSV_Handler).
HeartbeatPreempts == [][stage'[taskA] # stage[taskA] => state[taskB] = "WAITING"]_mainVars
---------------------------------------------------------------------------
(* The shipped program: two tasks and idle, no events, OsConfig.h.         *)

MainOrder == <<taskB, taskA, Idle>>
MainPrio == [t \in Tasks |-> CASE t = taskB -> 0 [] t = taskA -> 1 [] OTHER -> CFG_LOWEST_PRIO]
MainApi == {<<taskB, "CoTickDelay">>}
None == <<>>
NoEvents == [e \in Events |-> <<>>]

\* The theorems about applications that use the API as it can be used speak of
\* this one.
ASSUME MainDisciplined == Disciplined
=============================================================================
