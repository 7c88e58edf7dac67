------------------------------- MODULE Usart --------------------------------
(***************************************************************************)
(* The USART driver (stm32f0xx_usart.c): what each call leaves in the      *)
(* registers of the peripheral, beside what the program asked for.         *)
(***************************************************************************)
EXTENDS Registers, TLC, FiniteSets

CONSTANTS
  USARTCLK,        \* frequencies the peripheral may be clocked at
  Bauds,           \* the rates asked for
  Bytes,           \* the settings that are one byte wide
  UsartCalls       \* a bound: calls and hardware events since the reset

UsartAssumption ==
  /\ USARTCLK \subseteq Nat \ {0} /\ Bauds \subseteq Nat \ {0} /\ UsartCalls \in Nat
  /\ Bytes \subseteq 0..255
  /\ \A f \in USARTCLK, b \in Bauds : b <= f /\ (2 * f) \div b < 65535

VARIABLES
  clk,             \* the frequency RCC_GetClocksFreq tells
  regs,            \* the registers
  asked,           \* history: the bits each field was last asked to have
  rate,            \* history: the baud rate asked for, 0 before USART_Init
  raised,          \* history: the flags that are up
  usartCalls
usartVars == <<clk, regs, asked, rate, raised, usartCalls>>

---------------------------------------------------------------------------
(* The map of the registers *)

\* The fields of the registers the driver writes: the register and its bits.
UsartField ==
  [UE |-> <<"CR1", {0}>>, UESM |-> <<"CR1", {1}>>, RE |-> <<"CR1", {2}>>, TE |-> <<"CR1", {3}>>,
   IDLEIE |-> <<"CR1", {4}>>, RXNEIE |-> <<"CR1", {5}>>, TCIE |-> <<"CR1", {6}>>,
   TXEIE |-> <<"CR1", {7}>>, PEIE |-> <<"CR1", {8}>>, PS |-> <<"CR1", {9}>>, PCE |-> <<"CR1", {10}>>,
   WAKE |-> <<"CR1", {11}>>, M |-> <<"CR1", {12}>>, MME |-> <<"CR1", {13}>>, CMIE |-> <<"CR1", {14}>>,
   OVER8 |-> <<"CR1", {15}>>, DEDT |-> <<"CR1", 16..20>>, DEAT |-> <<"CR1", 21..25>>,
   RTOIE |-> <<"CR1", {26}>>, EOBIE |-> <<"CR1", {27}>>,
   ADDM7 |-> <<"CR2", {4}>>, LBDL |-> <<"CR2", {5}>>, LBDIE |-> <<"CR2", {6}>>, LBCL |-> <<"CR2", {8}>>,
   CPHA |-> <<"CR2", {9}>>, CPOL |-> <<"CR2", {10}>>, CLKEN |-> <<"CR2", {11}>>,
   STOP |-> <<"CR2", 12..13>>, LINEN |-> <<"CR2", {14}>>, SWAP |-> <<"CR2", {15}>>,
   RXINV |-> <<"CR2", {16}>>, TXINV |-> <<"CR2", {17}>>, DATAINV |-> <<"CR2", {18}>>,
   MSBFIRST |-> <<"CR2", {19}>>, ABREN |-> <<"CR2", {20}>>, ABRMODE |-> <<"CR2", 21..22>>,
   RTOEN |-> <<"CR2", {23}>>, ADD |-> <<"CR2", 24..31>>,
   EIE |-> <<"CR3", {0}>>, IREN |-> <<"CR3", {1}>>, IRLP |-> <<"CR3", {2}>>, HDSEL |-> <<"CR3", {3}>>,
   NACK |-> <<"CR3", {4}>>, SCEN |-> <<"CR3", {5}>>, DMAR |-> <<"CR3", {6}>>, DMAT |-> <<"CR3", {7}>>,
   RTSE |-> <<"CR3", {8}>>, CTSE |-> <<"CR3", {9}>>, CTSIE |-> <<"CR3", {10}>>,
   ONEBIT |-> <<"CR3", {11}>>, OVRDIS |-> <<"CR3", {12}>>, DDRE |-> <<"CR3", {13}>>,
   DEM |-> <<"CR3", {14}>>, DEP |-> <<"CR3", {15}>>, SCARCNT |-> <<"CR3", 17..19>>,
   WUS |-> <<"CR3", 20..21>>, WUFIE |-> <<"CR3", {22}>>,
   PSC |-> <<"GTPR", 0..7>>, GT |-> <<"GTPR", 8..15>>, RTO |-> <<"RTOR", 0..23>>,
   BLEN |-> <<"RTOR", 24..31>>,
   ABRRQ |-> <<"RQR", {0}>>, SBKRQ |-> <<"RQR", {1}>>, MMRQ |-> <<"RQR", {2}>>,
   RXFRQ |-> <<"RQR", {3}>>, TXFRQ |-> <<"RQR", {4}>>]
LOCAL INSTANCE Peripheral WITH Field <- UsartField

\* The bits of the flags in ISR, and of those that can be cleared, in ICR.
UsartFlag ==
  [PE |-> 0, FE |-> 1, NE |-> 2, ORE |-> 3, IDLE |-> 4, RXNE |-> 5, TC |-> 6, TXE |-> 7, LBD |-> 8,
   CTS |-> 9, nCTSS |-> 10, RTO |-> 11, EOB |-> 12, ABRE |-> 14, ABRF |-> 15, BUSY |-> 16, CM |-> 17,
   SBK |-> 18, RWU |-> 19, WU |-> 20, TEACK |-> 21, REACK |-> 22]
UsartClear ==
  [PE |-> 0, FE |-> 1, NE |-> 2, ORE |-> 3, IDLE |-> 4, TC |-> 6, LBD |-> 8, CTS |-> 9, RTO |-> 11,
   EOB |-> 12, CM |-> 17, WU |-> 20]

\* The interrupts: <<position of the flag, register of the enable bit, its position>>.
UsartIT ==
  [WU |-> <<20, 3, 22>>, CM |-> <<17, 1, 14>>, EOB |-> <<12, 1, 27>>, RTO |-> <<11, 1, 26>>,
   PE |-> <<0, 1, 8>>, TXE |-> <<7, 1, 7>>, TC |-> <<6, 1, 6>>, RXNE |-> <<5, 1, 5>>,
   IDLE |-> <<4, 1, 4>>, LBD |-> <<8, 2, 6>>, CTS |-> <<9, 3, 10>>, ERR |-> <<0, 3, 0>>,
   ORE |-> <<3, 3, 0>>, NE |-> <<2, 3, 0>>, FE |-> <<1, 3, 0>>]
UsartConfigIT == {"PE", "TXE", "TC", "RXNE", "IDLE", "LBD", "CTS", "ERR", "RTO", "EOB", "CM", "WU"}
UsartGetIT == {"PE", "TXE", "TC", "RXNE", "IDLE", "LBD", "CTS", "ORE", "NE", "FE", "RTO", "EOB", "CM", "WU"}
UsartClearIT == {"TC", "PE", "FE", "NE", "ORE", "IDLE", "LBD", "CTS", "RTO", "EOB", "CM", "WU"}

---------------------------------------------------------------------------
(* The calls *)

NoRegisters == [CR1 |-> {}, CR2 |-> {}, CR3 |-> {}, GTPR |-> {}, RTOR |-> {}, RQR |-> {}, BRR |-> {}, ISR |-> {}]
UsartInit ==
  /\ clk \in USARTCLK /\ regs = NoRegisters /\ asked = AllOff /\ rate = 0 /\ raised = {}
  /\ usartCalls = 0
USART_DeInit ==
  regs' = NoRegisters /\ asked' = AllOff /\ rate' = 0 /\ raised' = {} /\ UNCHANGED clk

CR1_CLEAR_MASK == Mask({"M", "PCE", "PS", "TE", "RE"})
CR2_CLOCK_CLEAR_MASK == Mask({"CLKEN", "CPOL", "CPHA", "LBCL"})
CR3_CLEAR_MASK == Mask({"RTSE", "CTSE"})

\* The members of USART_InitTypeDef, each a set of fields that are to be one.
WordLengths == {{}, {"M"}}
StopBits == {{}, {13}, {12, 13}}
Parities == {{}, {"PCE"}, {"PCE", "PS"}}
Modes == {{"RE"}, {"TE"}, {"RE", "TE"}}
FlowControls == {{}, {"RTSE"}, {"CTSE"}, {"RTSE", "CTSE"}}
USART_StructInit ==
  [BaudRate |-> 9600, WordLength |-> {}, StopBits |-> {}, Parity |-> {}, Mode |-> {"RE", "TE"},
   HardwareFlowControl |-> {}]
UsartInitTypeDef ==
  [BaudRate : Bauds, WordLength : WordLengths, StopBits : StopBits, Parity : Parities, Mode : Modes,
   HardwareFlowControl : FlowControls]

\* A slip to rule out: the quotient is cut.
DividerCut(f, baud, over8) == BitsOf((IF over8 THEN 2 * f ELSE f) \div baud)
\* The clock divided by the rate, rounded; with oversampling by 8 the low four
\* bits are shifted right, behind the others, and the result is cut to 16 bits.
Divider(f, baud, over8) ==
  LET twice == IF over8 THEN 2 * f ELSE f
      d == twice \div baud + (IF twice % baud >= baud \div 2 THEN 1 ELSE 0)
      bits == BitsOf(d)
  IN (IF over8 THEN MODIFY_REG(bits, 0..3, Shr(bits \intersect 0..3, 1)) ELSE bits) \intersect 0..15

\* The stop bits, the frame and the flow control replace what was there, the USART
\* is left disabled, and the rate is for the oversampling that is set now.
USART_Init(init) ==
  LET frame == init.WordLength \union init.Parity \union init.Mode
      over8 == Bits("OVER8") \subseteq regs.CR1
  IN /\ regs' = [regs EXCEPT
           !.CR2 = MODIFY_REG(@, Bits("STOP"), init.StopBits),
           !.CR1 = MODIFY_REG(@ \ Bits("UE"), CR1_CLEAR_MASK, Mask(frame)),
           !.CR3 = MODIFY_REG(@, CR3_CLEAR_MASK, Mask(init.HardwareFlowControl)),
           !.BRR = Divider(clk, init.BaudRate, over8)]
     /\ Asks(Ones({"M", "PCE", "PS", "TE", "RE", "UE", "RTSE", "CTSE"}, frame \union init.HardwareFlowControl)
             @@ ("STOP" :> init.StopBits))
     /\ rate' = init.BaudRate
     /\ UNCHANGED <<clk, raised>>

\* The four members of USART_ClockInitTypeDef are bits, zero in the default.
USART_ClockInit(ones) ==
  /\ Write("CR2", MODIFY_REG(regs.CR2, CR2_CLOCK_CLEAR_MASK, Mask(ones)))
  /\ Asks(Ones({"CLKEN", "CPOL", "CPHA", "LBCL"}, ones))

USART_Cmd(on) == Turns("CR1", {"UE"}, on)
USART_DirectionModeCmd(mode, on) == Turns("CR1", mode, on)

\* The header asks for this call before USART_Init, whose divider depends on it.
USART_OverSampling8Cmd(on) == rate = 0 /\ Turns("CR1", {"OVER8"}, on)

USART_OneBitMethodCmd(on) == Turns("CR3", {"ONEBIT"}, on)
USART_MSBFirstCmd(on) == Turns("CR2", {"MSBFIRST"}, on)
USART_DataInvCmd(on) == Turns("CR2", {"DATAINV"}, on)
USART_InvPinCmd(pins, on) == Turns("CR2", pins, on)
USART_SWAPPinCmd(on) == Turns("CR2", {"SWAP"}, on)
USART_ReceiverTimeOutCmd(on) == Turns("CR2", {"RTOEN"}, on)
USART_SetReceiverTimeOut(n) == Stores("RTOR", Bits("RTO"), "RTO", n, 0)
USART_SetPrescaler(n) == Stores("GTPR", 0..15 \ Bits("GT"), "PSC", n, 0)
USART_STOPModeCmd(on) == Turns("CR1", {"UESM"}, on)
USART_StopModeWakeUpSourceConfig(bits) == Picks("CR3", "WUS", bits)
USART_AutoBaudRateCmd(on) == Turns("CR2", {"ABREN"}, on)
USART_AutoBaudRateConfig(bits) == Picks("CR2", "ABRMODE", bits)
USART_SetAddress(n) == Stores("CR2", Bits("ADD"), "ADD", n, 24)
USART_MuteModeCmd(on) == Turns("CR1", {"MME"}, on)
USART_MuteModeWakeUpConfig(bits) == Picks("CR1", "WAKE", bits)
USART_AddressDetectionConfig(bits) == Picks("CR2", "ADDM7", bits)
USART_LINBreakDetectLengthConfig(bits) == Picks("CR2", "LBDL", bits)
USART_LINCmd(on) == Turns("CR2", {"LINEN"}, on)
USART_HalfDuplexCmd(on) == Turns("CR3", {"HDSEL"}, on)
USART_SetGuardTime(n) == Stores("GTPR", 0..15 \ Bits("PSC"), "GT", n, 8)
USART_SmartCardCmd(on) == Turns("CR3", {"SCEN"}, on)
USART_SmartCardNACKCmd(on) == Turns("CR3", {"NACK"}, on)
USART_SetAutoRetryCount(n) == Stores("CR3", Bits("SCARCNT"), "SCARCNT", n, 17)
USART_SetBlockLength(n) == Stores("RTOR", Bits("BLEN"), "BLEN", n, 24)
USART_IrDAConfig(bits) == Picks("CR3", "IRLP", bits)
USART_IrDACmd(on) == Turns("CR3", {"IREN"}, on)
USART_DECmd(on) == Turns("CR3", {"DEM"}, on)
USART_DEPolarityConfig(bits) == Picks("CR3", "DEP", bits)
USART_SetDEAssertionTime(n) == Stores("CR1", Bits("DEAT"), "DEAT", n, 21)
USART_SetDEDeassertionTime(n) == Stores("CR1", Bits("DEDT"), "DEDT", n, 16)
USART_DMACmd(requests, on) == Turns("CR3", requests, on)
USART_DMAReceptionErrorConfig(bits) == Picks("CR3", "DDRE", bits)
USART_OverrunDetectionConfig(bits) == Picks("CR3", "OVRDIS", bits)
USART_RequestCmd(request, on) == Turns("RQR", {request}, on)

---------------------------------------------------------------------------
(* Interrupts and flags *)

ITRegister(it) == CASE UsartIT[it][2] = 2 -> "CR2" [] UsartIT[it][2] = 3 -> "CR3" [] OTHER -> "CR1"

\* The enable bit that the interrupt's name stands for.
EnableOf(it) == CASE it \in {"ERR", "ORE", "NE", "FE"} -> "EIE" [] it = "WU" -> "WUFIE" [] it = "PE" -> "PEIE"
                  [] it = "CM" -> "CMIE" [] it = "EOB" -> "EOBIE" [] it = "RTO" -> "RTOIE"
                  [] it = "TXE" -> "TXEIE" [] it = "TC" -> "TCIE" [] it = "RXNE" -> "RXNEIE"
                  [] it = "IDLE" -> "IDLEIE" [] it = "LBD" -> "LBDIE" [] it = "CTS" -> "CTSIE"
USART_ITConfig(it, on) ==
  /\ Write(ITRegister(it), SwitchBits(regs[ITRegister(it)], {UsartIT[it][3]}, on))
  /\ Asks(EnableOf(it) :> (IF on THEN Bits(EnableOf(it)) ELSE {}))

USART_GetFlagStatus(flag) == UsartFlag[flag] \in regs.ISR
USART_GetITStatus(it) == UsartIT[it][3] \in regs[ITRegister(it)] /\ UsartIT[it][1] \in regs.ISR

\* The peripheral raises a flag, and drops those whose bit is written to ICR.
HwRaises(flag) ==
  /\ raised' = raised \union {flag} /\ Write("ISR", regs.ISR \union {UsartFlag[flag]})
  /\ UNCHANGED <<clk, asked, rate>>
WriteICR(bit) == Write("ISR", regs.ISR \ ({bit} \intersect {UsartClear[f] : f \in DOMAIN UsartClear}))
USART_ClearFlag(flag) ==
  /\ WriteICR(UsartFlag[flag]) /\ raised' = raised \ {flag} /\ UNCHANGED <<clk, asked, rate>>
USART_ClearITPendingBit(it) ==
  /\ WriteICR(UsartIT[it][1]) /\ raised' = raised \ {it} /\ UNCHANGED <<clk, asked, rate>>

---------------------------------------------------------------------------
OnOffCall(on) ==
  \/ USART_Cmd(on) \/ USART_OverSampling8Cmd(on) \/ USART_OneBitMethodCmd(on) \/ USART_MSBFirstCmd(on)
  \/ USART_DataInvCmd(on) \/ USART_SWAPPinCmd(on) \/ USART_ReceiverTimeOutCmd(on) \/ USART_STOPModeCmd(on)
  \/ USART_AutoBaudRateCmd(on) \/ USART_MuteModeCmd(on) \/ USART_LINCmd(on) \/ USART_HalfDuplexCmd(on)
  \/ USART_SmartCardCmd(on) \/ USART_SmartCardNACKCmd(on) \/ USART_IrDACmd(on) \/ USART_DECmd(on)
  \/ \E mode \in Modes : USART_DirectionModeCmd(mode, on)
  \/ \E pins \in SUBSET {"TXINV", "RXINV"} \ {{}} : USART_InvPinCmd(pins, on)
  \/ \E requests \in SUBSET {"DMAT", "DMAR"} \ {{}} : USART_DMACmd(requests, on)
  \/ \E request \in {"ABRRQ", "SBKRQ", "MMRQ", "RXFRQ", "TXFRQ"} : USART_RequestCmd(request, on)
  \/ \E it \in UsartConfigIT : USART_ITConfig(it, on)

ConfigCall ==
  \/ \E bits \in {{}, {21}, {20, 21}} : USART_StopModeWakeUpSourceConfig(bits)
  \/ \E bits \in {{}, {21}} : USART_AutoBaudRateConfig(bits)
  \/ \E bits \in {{}, {11}} : USART_MuteModeWakeUpConfig(bits)
  \/ \E bits \in {{}, {4}} : USART_AddressDetectionConfig(bits)
  \/ \E bits \in {{}, {5}} : USART_LINBreakDetectLengthConfig(bits)
  \/ \E bits \in {{}, {2}} : USART_IrDAConfig(bits)
  \/ \E bits \in {{}, {15}} : USART_DEPolarityConfig(bits)
  \/ \E bits \in {{}, {13}} : USART_DMAReceptionErrorConfig(bits)
  \/ \E bits \in {{}, {12}} : USART_OverrunDetectionConfig(bits)

NumberCall ==
  \/ \E n \in Bytes : \/ USART_SetPrescaler(n) \/ USART_SetAddress(n) \/ USART_SetGuardTime(n)
                      \/ USART_SetBlockLength(n) \/ USART_SetReceiverTimeOut(65536 * n + n)
  \/ \E n \in {0, 2, 7} : USART_SetAutoRetryCount(n)
  \/ \E n \in {0, 1, 30, 31} : USART_SetDEAssertionTime(n) \/ USART_SetDEDeassertionTime(n)

FlagStep ==
  \/ \E flag \in DOMAIN UsartFlag : HwRaises(flag)
  \/ \E flag \in DOMAIN UsartClear : USART_ClearFlag(flag)
  \/ \E it \in UsartClearIT : USART_ClearITPendingBit(it)

\* The settings that differ from the default ones in one member, or in all.
UsartInits ==
  LET default == [USART_StructInit EXCEPT !.BaudRate = CHOOSE b \in Bauds : \A c \in Bauds : c <= b] IN
  {init \in UsartInitTypeDef : \/ \A k \in DOMAIN init : init[k] # default[k]
                               \/ Cardinality({k \in DOMAIN init : init[k] # default[k]}) <= 1}

Setting ==
  \/ \E ones \in SUBSET {"CLKEN", "CPOL", "CPHA", "LBCL"} : USART_ClockInit(ones)
  \/ \E on \in BOOLEAN : OnOffCall(on)
  \/ ConfigCall \/ NumberCall
UsartNext ==
  /\ usartCalls < UsartCalls /\ usartCalls' = usartCalls + 1
  /\ \/ USART_DeInit \/ \E init \in UsartInits : USART_Init(init)
     \/ FlagStep
     \/ Setting /\ UNCHANGED <<clk, rate, raised>>
UsartSpec == UsartInit /\ [][UsartNext]_usartVars

---------------------------------------------------------------------------
\* Whatever is called in whatever order: each field of each register holds what its
\* own last call asked for, so no call disturbs a setting made by another; and an
\* interrupt is reported if and only if it is enabled and its flag is up.
UsartKept ==
  /\ FieldsKept
  /\ \A flag \in DOMAIN UsartFlag : USART_GetFlagStatus(flag) <=> flag \in raised
  /\ \A it \in UsartGetIT : USART_GetITStatus(it) <=> asked[EnableOf(it)] # {} /\ it \in raised

\* The hardware divides by what the register says, which is the rate asked for up to
\* half a cycle, or one and a half with oversampling by 8.
BaudIsRight ==
  rate # 0 =>
    LET over8 == asked.OVER8 # {}
        low == regs.BRR \intersect 0..3
        d == NumberOf(IF over8 THEN MODIFY_REG(regs.BRR, 0..3, Shl(low \ {3}, 1)) ELSE regs.BRR)
        wanted == IF over8 THEN 2 * clk ELSE clk
        error == IF d * rate > wanted THEN d * rate - wanted ELSE wanted - d * rate
    IN 2 * error <= (IF over8 THEN 3 ELSE 1) * rate + 1
=============================================================================
