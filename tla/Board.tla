-------------------------------- MODULE Board ------------------------------
(***************************************************************************)
(* From reset to a byte on the serial line: the clocks SystemInit sets up  *)
(* (system_stm32f0xx.c), what USART_Init makes of them, and usartSend.     *)
(* The oscillators, the PLL and the USART are external: the crystal may    *)
(* start late or never.  Frequencies are counted in a unit of the board's. *)
(***************************************************************************)
EXTENDS Integers, Sequences

CONSTANTS
  HSI_VALUE, HSE_VALUE, PllMul,   \* 8 MHz, 8 MHz and 6
  HSE_STARTUP_TIMEOUT,
  BaudRate,
  Data, MaxSent,                  \* what is sent, and a bound: bytes since reset
  NoByte

ASSUME BoardAssumption ==
  /\ {HSI_VALUE, HSE_VALUE, PllMul, HSE_STARTUP_TIMEOUT, BaudRate} \subseteq Nat \ {0}
  /\ MaxSent \in Nat
  /\ NoByte \notin Data   \* the mark of an empty register is no byte

VARIABLES
  bootPc, StartUpCounter,
  hse, pll,      \* "off", "starting" or "ready"
  SW, SWS,       \* the clock asked for and the clock in use: "hsi" or "pll"
  clocked,       \* peripherals whose clock is on
  pinAF,         \* are the pins with the USART?
  usart,         \* [UE, TE, BRR]
  TDR, shift,    \* the byte to be sent, and the one on the line
  handed, heard  \* history: bytes given to the USART, and those received at BaudRate
boardVars == <<bootPc, StartUpCounter, hse, pll, SW, SWS, clocked, pinAF, usart, TDR, shift,
               handed, heard>>
lineVars == <<TDR, shift, handed, heard>>
clockVars == <<hse, pll, SW, SWS>>
ioVars == <<clocked, pinAF, usart>>

UsartOff == [UE |-> FALSE, TE |-> FALSE, BRR |-> 0]
BoardInit ==
  /\ bootPc = "init" /\ StartUpCounter = 0 /\ hse = "off" /\ pll = "off" /\ SW = "hsi" /\ SWS = "hsi"
  /\ clocked = {} /\ pinAF = FALSE /\ usart = UsartOff
  /\ TDR = NoByte /\ shift = NoByte /\ handed = <<>> /\ heard = <<>>
PowerCycle ==
  /\ bootPc # "init" /\ bootPc' = "init" /\ StartUpCounter' = 0
  /\ hse' = "off" /\ pll' = "off" /\ SW' = "hsi" /\ SWS' = "hsi"
  /\ clocked' = {} /\ pinAF' = FALSE /\ usart' = UsartOff
  /\ TDR' = NoByte /\ shift' = NoByte /\ handed' = <<>> /\ heard' = <<>>

---------------------------------------------------------------------------
(* The hardware *)

HseStarts == hse = "starting" /\ hse' = "ready" /\ UNCHANGED <<bootPc, StartUpCounter, pll, SW, SWS, ioVars, lineVars>>
PllLocks == pll = "starting" /\ pll' = "ready" /\ UNCHANGED <<bootPc, StartUpCounter, hse, SW, SWS, ioVars, lineVars>>
Switches ==
  /\ SW # SWS /\ pll = "ready" /\ SWS' = SW
  /\ UNCHANGED <<bootPc, StartUpCounter, hse, pll, SW, ioVars, lineVars>>

Frequency(source) == IF source = "pll" THEN HSE_VALUE * PllMul ELSE HSI_VALUE
SYSCLK == Frequency(SWS)

\* A bit lasts BRR cycles of the clock, and a byte is received at the rate that is
\* nearest to the one expected; a peripheral without its clock or pins is silent.
Rounded(f) == f \div BaudRate + (IF f % BaudRate >= BaudRate \div 2 THEN 1 ELSE 0)
Sending == "USART2" \in clocked /\ usart.UE /\ usart.TE
Shifts ==
  /\ Sending /\ TDR # NoByte /\ shift = NoByte /\ shift' = TDR /\ TDR' = NoByte
  /\ UNCHANGED <<bootPc, StartUpCounter, clockVars, ioVars, handed, heard>>
Leaves ==
  /\ Sending /\ shift # NoByte /\ shift' = NoByte
  /\ heard' = IF pinAF /\ usart.BRR = Rounded(SYSCLK) THEN Append(heard, shift) ELSE heard
  /\ UNCHANGED <<bootPc, StartUpCounter, clockVars, ioVars, TDR, handed>>

---------------------------------------------------------------------------
(* SystemInit and SetSysClock *)

AtBoot(step, next) == bootPc = step /\ bootPc' = next

\* The registers are set back to the internal oscillator, and the crystal started.
SystemInit ==
  /\ AtBoot("init", "hse") /\ SW' = "hsi" /\ SWS' = "hsi" /\ pll' = "off" /\ hse' = "starting"
  /\ StartUpCounter' = 0 /\ UNCHANGED <<ioVars, lineVars>>

\* One turn of the wait for the crystal; after it, ready or not is read once more.
WaitHse ==
  /\ bootPc = "hse" /\ StartUpCounter' = StartUpCounter + 1
  /\ bootPc' = IF hse # "ready" /\ StartUpCounter' # HSE_STARTUP_TIMEOUT THEN "hse" ELSE "chosen"
  /\ UNCHANGED <<clockVars, ioVars, lineVars>>
UseCrystal ==
  /\ AtBoot("chosen", "pll") /\ hse = "ready" /\ pll' = "starting"
  /\ UNCHANGED <<StartUpCounter, hse, SW, SWS, ioVars, lineVars>>
KeepHsi ==
  /\ AtBoot("chosen", "main") /\ hse # "ready"
  /\ UNCHANGED <<StartUpCounter, clockVars, ioVars, lineVars>>
SelectPll ==
  /\ AtBoot("pll", "switch") /\ pll = "ready" /\ SW' = "pll"
  /\ UNCHANGED <<StartUpCounter, hse, pll, SWS, ioVars, lineVars>>
PllInUse ==
  /\ AtBoot("switch", "main") /\ SWS = "pll"
  /\ UNCHANGED <<StartUpCounter, clockVars, ioVars, lineVars>>

---------------------------------------------------------------------------
(* usartInit *)

ClocksOn ==
  /\ AtBoot("main", "pins") /\ clocked' = clocked \union {"GPIOA", "USART2"}
  /\ UNCHANGED <<StartUpCounter, clockVars, pinAF, usart, lineVars>>

\* GPIO_PinAFConfig and GPIO_Init: a register written without its clock stays.
Pins ==
  /\ AtBoot("pins", "usart") /\ pinAF' = ("GPIOA" \in clocked)
  /\ UNCHANGED <<StartUpCounter, clockVars, clocked, usart, lineVars>>

\* A slip to rule out: the frequency is taken from SystemCoreClock, which says 48 MHz.
SystemCoreClock == HSE_VALUE * PllMul

\* The frequency is worked out from the clock that is in use.
RCC_GetClocksFreq == Frequency(SWS)
USART_Init ==
  /\ AtBoot("usart", "enable")
  /\ usart' = IF "USART2" \in clocked
              THEN [UE |-> FALSE, TE |-> TRUE, BRR |-> Rounded(RCC_GetClocksFreq)] ELSE usart
  /\ UNCHANGED <<StartUpCounter, clockVars, clocked, pinAF, lineVars>>

USART_Cmd ==
  /\ AtBoot("enable", "send") /\ usart' = [usart EXCEPT !.UE = "USART2" \in clocked]
  /\ UNCHANGED <<StartUpCounter, clockVars, clocked, pinAF, lineVars>>

\* usartSend waits until the data register is empty.
usartSend(byte) ==
  /\ bootPc = "send" /\ TDR = NoByte /\ Len(handed) < MaxSent
  /\ TDR' = byte /\ handed' = Append(handed, byte)
  /\ UNCHANGED <<bootPc, StartUpCounter, clockVars, ioVars, shift, heard>>

BoardNext ==
  \/ HseStarts \/ PllLocks \/ Switches \/ Shifts \/ Leaves \/ PowerCycle
  \/ SystemInit \/ WaitHse \/ UseCrystal \/ KeepHsi \/ SelectPll \/ PllInUse
  \/ ClocksOn \/ Pins \/ USART_Init \/ USART_Cmd
  \/ \E byte \in Data : usartSend(byte)
BoardSpec == BoardInit /\ [][BoardNext]_boardVars

---------------------------------------------------------------------------
\* Every byte given to usartSend is received, in order and at the rate asked for,
\* but for those still on their way: whether the crystal started in time, late or
\* never, and after every restart.
LineIsRight ==
  LET onTheWay == (IF shift = NoByte THEN <<>> ELSE <<shift>>) \o (IF TDR = NoByte THEN <<>> ELSE <<TDR>>)
  IN handed = heard \o onTheWay
=============================================================================
