--------------------------------- MODULE Gpio -------------------------------
(***************************************************************************)
(* The pins (stm32f0xx_gpio.c): what each call leaves in the registers of  *)
(* a port, and the three places that set up the pins of this board:        *)
(* LED_init (main.c), usartInit (usart_jose.c) and enc28j60_init.          *)
(***************************************************************************)
EXTENDS Registers, TLC

CONSTANTS
  Pins,          \* the pins that calls other than those three name, of 0..15
  GpioCalls      \* a bound: calls since the reset

GpioAssumption == Pins \subseteq 0..15 /\ GpioCalls \in Nat

\* What a pin is asked to be; the names of the header and their numbers.
GPIO_Mode == [IN |-> 0, OUT |-> 1, AF |-> 2, AN |-> 3]
GPIO_OType == [PP |-> 0, OD |-> 1]
GPIO_Speed == [Level_1 |-> 1, Level_2 |-> 2, Level_3 |-> 3]
GPIO_PuPd == [NOPULL |-> 0, UP |-> 1, DOWN |-> 2]
Ports == {"A", "B"}
AllPins == 0..15

VARIABLES
  port,          \* the registers of each port
  pin,           \* history: what each pin of each port was last asked to be
  frozen,        \* history: the pins of each port that have been locked
  driven,        \* the pins of each port that the outside pulls high
  gpioCalls
gpioVars == <<port, pin, frozen, driven, gpioCalls>>

---------------------------------------------------------------------------
(* The registers *)

Two(p) == {2 * p, 2 * p + 1}
Four(p) == {4 * (p % 8) + k : k \in 0..3}
AFR(p) == IF p < 8 THEN "AFRL" ELSE "AFRH"
NoPort ==
  [MODER |-> {}, OTYPER |-> {}, OSPEEDR |-> {}, PUPDR |-> {}, ODR |-> {}, AFRL |-> {}, AFRH |-> {}, LCKR |-> {}]
ResetPin == [MODER |-> 0, OTYPER |-> 0, OSPEEDR |-> 0, PUPDR |-> 0, AFR |-> 0, ODR |-> FALSE]
GpioInit ==
  /\ port = [x \in Ports |-> NoPort] /\ pin = [x \in Ports |-> [p \in AllPins |-> ResetPin]]
  /\ frozen = [x \in Ports |-> {}] /\ driven \in {[x \in Ports |-> ps] : ps \in {{}, Pins}} /\ gpioCalls = 0

\* The hardware keeps the configuration of a locked pin as it is.
Locked(x) == IF 16 \in port[x].LCKR THEN port[x].LCKR \ {16} ELSE {}
Remembers(x, ps, asks) ==
  [pin EXCEPT ![x] = [p \in AllPins |-> IF p \in ps \ frozen[x] THEN asks @@ @[p] ELSE @[p]]]

---------------------------------------------------------------------------
(* The calls *)

\* The loop over the pins: speed and output type of outputs and alternate
\* functions only, then mode and pull of each.
\* A slip to rule out: the field is not cleared before it is set.
FillUncleared(reg, ps, n) == reg \union UNION {Shl(BitsOf(n), 2 * p) : p \in ps}
Fill(reg, ps, n) == MODIFY_REG(reg, UNION {Two(p) : p \in ps}, UNION {Shl(BitsOf(n), 2 * p) : p \in ps})
InitPins(regs, ps, init) ==
  LET drives == init.Mode \in {"OUT", "AF"} IN
  [regs EXCEPT !.OSPEEDR = IF drives THEN Fill(@, ps, GPIO_Speed[init.Speed]) ELSE @,
               !.OTYPER = IF drives THEN MODIFY_REG(@, ps, IF init.OType = "OD" THEN ps ELSE {}) ELSE @,
               !.MODER = Fill(@, ps, GPIO_Mode[init.Mode]),
               !.PUPDR = Fill(@, ps, GPIO_PuPd[init.PuPd])]
AsksOf(init) ==
  LET always == ("MODER" :> GPIO_Mode[init.Mode]) @@ ("PUPDR" :> GPIO_PuPd[init.PuPd])
  IN IF init.Mode \in {"OUT", "AF"}
     THEN ("OSPEEDR" :> GPIO_Speed[init.Speed]) @@ ("OTYPER" :> GPIO_OType[init.OType]) @@ always
     ELSE always
GPIO_Init(x, ps, init) ==
  /\ port' = [port EXCEPT ![x] = InitPins(@, ps \ Locked(x), init)]
  /\ pin' = Remembers(x, ps, AsksOf(init)) /\ UNCHANGED frozen
GPIO_StructInit == [Mode |-> "IN", Speed |-> "Level_2", OType |-> "PP", PuPd |-> "NOPULL"]
GPIO_InitTypeDef ==
  [Mode : DOMAIN GPIO_Mode, Speed : DOMAIN GPIO_Speed, OType : DOMAIN GPIO_OType, PuPd : DOMAIN GPIO_PuPd]

\* Pin p is in the register AFR[p >> 3], four bits from (p & 7) * 4 on.
PinAF(regs, p, af) ==
  [regs EXCEPT ![AFR(p)] = MODIFY_REG(@, Four(p), Shl(BitsOf(af), 4 * (p % 8)))]
GPIO_PinAFConfig(x, p, af) ==
  /\ port' = IF p \in Locked(x) THEN port ELSE [port EXCEPT ![x] = PinAF(@, p, af)]
  /\ pin' = Remembers(x, {p}, "AFR" :> af) /\ UNCHANGED frozen

\* The key bit is written one, zero, one with the pins: the port is locked, until
\* its reset, unless it was before.
GPIO_PinLockConfig(x, ps) ==
  /\ port' = IF 16 \in port[x].LCKR THEN port ELSE [port EXCEPT ![x].LCKR = ps \union {16}]
  /\ frozen' = IF frozen[x] = {} THEN [frozen EXCEPT ![x] = ps] ELSE frozen
  /\ UNCHANGED pin

\* BSRR sets and BRR resets the pins written as one; the others stay.
Drive(x, ps, high) ==
  /\ port' = [port EXCEPT ![x].ODR = SwitchBits(@, ps, high)]
  /\ pin' = [pin EXCEPT ![x] = [p \in AllPins |-> IF p \in ps THEN [@[p] EXCEPT !.ODR = high] ELSE @[p]]]
  /\ UNCHANGED frozen
GPIO_SetBits(x, ps) == Drive(x, ps, TRUE)
GPIO_ResetBits(x, ps) == Drive(x, ps, FALSE)
GPIO_WriteBit(x, p, val) == IF val THEN GPIO_SetBits(x, {p}) ELSE GPIO_ResetBits(x, {p})
GPIO_Write(x, val) ==
  /\ port' = [port EXCEPT ![x].ODR = val]
  /\ pin' = [pin EXCEPT ![x] = [p \in AllPins |-> [@[p] EXCEPT !.ODR = p \in val]]] /\ UNCHANGED frozen
GPIO_DeInit(x) ==
  /\ port' = [port EXCEPT ![x] = NoPort] /\ pin' = [pin EXCEPT ![x] = [p \in AllPins |-> ResetPin]]
  /\ frozen' = [frozen EXCEPT ![x] = {}]

\* A pin that is an output is read as it is driven.
IDR(x) == {p \in AllPins : IF Two(p) \intersect port[x].MODER = {2 * p} THEN p \in port[x].ODR ELSE p \in driven[x]}
GPIO_ReadInputDataBit(x, p) == IDR(x) \intersect {p} # {}
GPIO_ReadInputData(x) == IDR(x)
GPIO_ReadOutputDataBit(x, p) == port[x].ODR \intersect {p} # {}
GPIO_ReadOutputData(x) == port[x].ODR

---------------------------------------------------------------------------
(* The pins of the board *)

OutputPin == [Mode |-> "OUT", Speed |-> "Level_1", OType |-> "PP", PuPd |-> "NOPULL"]
LedPins == {10, 11}
LED_init ==
  /\ port' = [port EXCEPT !["B"] = InitPins(InitPins(@, {10} \ Locked("B"), OutputPin), {11} \ Locked("B"), OutputPin)]
  /\ pin' = Remembers("B", LedPins, AsksOf(OutputPin)) /\ UNCHANGED frozen

SerialPins == {14, 15}
AfPin == [Mode |-> "AF", Speed |-> "Level_3", OType |-> "PP", PuPd |-> "UP"]
usartInit ==
  /\ SerialPins \intersect Locked("A") = {}
  /\ port' = [port EXCEPT !["A"] = InitPins(PinAF(PinAF(@, 14, 1), 15, 1), SerialPins, AfPin)]
  /\ pin' = Remembers("A", SerialPins, ("AFR" :> 1) @@ AsksOf(AfPin)) /\ UNCHANGED frozen

\* enc28j60_init: the chip select is an output, high at the end (enc28j60_release).
SelectPin == 12
SpiPins == {13, 14, 15}
SelectOutput == [Mode |-> "OUT", Speed |-> "Level_3", OType |-> "PP", PuPd |-> "UP"]
EthernetPins(regs) ==
  LET on == InitPins(InitPins(regs, {SelectPin}, SelectOutput), SpiPins, AfPin)
  IN [PinAF(PinAF(PinAF(on, 13, 0), 15, 0), 14, 0) EXCEPT !.ODR = @ \union {SelectPin}]
enc28j60_init ==
  /\ Locked("B") \intersect (SpiPins \union {SelectPin}) = {}
  /\ port' = [port EXCEPT !["B"] = EthernetPins(@)]
  /\ pin' = [pin EXCEPT !["B"] = [p \in AllPins |->
       IF p \in SpiPins THEN ("AFR" :> 0) @@ AsksOf(AfPin) @@ @[p]
       ELSE IF p = SelectPin THEN ("ODR" :> TRUE) @@ AsksOf(SelectOutput) @@ @[p] ELSE @[p]]]
  /\ UNCHANGED frozen
enc28j60_select == GPIO_ResetBits("B", {SelectPin})
enc28j60_release == GPIO_SetBits("B", {SelectPin})

---------------------------------------------------------------------------
\* Each member of the structure, changed alone from the default, and all at once.
GpioInits ==
  {[GPIO_StructInit EXCEPT !.Mode = m, !.PuPd = u] : m \in DOMAIN GPIO_Mode, u \in DOMAIN GPIO_PuPd}
  \union {[Mode |-> m, Speed |-> s, OType |-> o, PuPd |-> "DOWN"] :
           m \in {"OUT", "AN"}, s \in DOMAIN GPIO_Speed, o \in DOMAIN GPIO_OType}

\* GPIO_PinAFConfig and GPIO_PinLockConfig are for the ports A and B.
GpioNext ==
  /\ gpioCalls < GpioCalls /\ gpioCalls' = gpioCalls + 1 /\ UNCHANGED driven
  /\ \/ LED_init \/ usartInit \/ enc28j60_init \/ enc28j60_select \/ enc28j60_release
     \/ \E x \in Ports :
          \/ GPIO_DeInit(x)
          \/ \E ps \in SUBSET Pins \ {{}} :
               \/ \E init \in GpioInits : GPIO_Init(x, ps, init)
               \/ GPIO_PinLockConfig(x, ps) \/ GPIO_SetBits(x, ps) \/ GPIO_ResetBits(x, ps) \/ GPIO_Write(x, ps)
          \/ \E p \in Pins : \/ \E af \in {1, 7} : GPIO_PinAFConfig(x, p, af)
                            \/ \E val \in BOOLEAN : GPIO_WriteBit(x, p, val)
GpioSpec == GpioInit /\ [][GpioNext]_gpioVars

---------------------------------------------------------------------------
\* Whatever is called in whatever order, for each pin the registers of its port hold
\* what the last call that named it asked for, and a locked pin what it was asked
\* for before; a pin that is an output is read as it was last written, whichever
\* call wrote it, and another as it is driven.
NumberAt(x, reg, bits, shift) == NumberOf(Shr(port[x][reg] \intersect bits, shift))
GpioKept ==
  \A x \in Ports, p \in AllPins :
    /\ pin[x][p].MODER = NumberAt(x, "MODER", Two(p), 2 * p)
    /\ pin[x][p].OSPEEDR = NumberAt(x, "OSPEEDR", Two(p), 2 * p)
    /\ pin[x][p].PUPDR = NumberAt(x, "PUPDR", Two(p), 2 * p)
    /\ pin[x][p].OTYPER = NumberAt(x, "OTYPER", {p}, p)
    /\ pin[x][p].AFR = NumberAt(x, AFR(p), Four(p), 4 * (p % 8))
    /\ GPIO_ReadOutputDataBit(x, p) = pin[x][p].ODR
    /\ GPIO_ReadInputDataBit(x, p) =
         IF pin[x][p].MODER = GPIO_Mode["OUT"] THEN pin[x][p].ODR ELSE p \in driven[x]
=============================================================================
