--------------------------------- MODULE Spi --------------------------------
(***************************************************************************)
(* The SPI and I2S driver (stm32f0xx_spi.c): what each call leaves in the  *)
(* registers of the peripheral, beside what the program asked for.         *)
(***************************************************************************)
EXTENDS Registers, TLC, FiniteSets

CONSTANTS
  SYSCLKs,       \* frequencies the peripheral may be clocked at
  AudioFreqs,    \* sample rates asked for; 2 stands for the default
  SpiCalls,      \* a bound: calls and hardware events since the reset
  ModeCalls      \* the same, when SPI_Init is called only in two ways and I2S_Init never

SpiAssumption == SYSCLKs \subseteq Nat \ {0} /\ AudioFreqs \subseteq Nat \ {0} /\ {SpiCalls, ModeCalls} \subseteq Nat

VARIABLES
  clk,           \* the frequency RCC_GetClocksFreq tells
  regs,          \* the registers
  asked,         \* history: the bits each field was last asked to have
  inited,        \* history: has SPI_Init been called?
  wiped,         \* history: fields cleared by an SPI_Init that no member of its structure names
  audio,         \* history: the last I2S_Init, or NoAudio
  raised,        \* history: the flags that are up
  spiCalls       \* which calls are made, and how many are left
spiVars == <<clk, regs, asked, inited, wiped, audio, raised, spiCalls>>

---------------------------------------------------------------------------
(* The map of the registers *)

SpiField ==
  [CPHA |-> <<"CR1", {0}>>, CPOL |-> <<"CR1", {1}>>, MSTR |-> <<"CR1", {2}>>, BR |-> <<"CR1", 3..5>>,
   SPE |-> <<"CR1", {6}>>, LSBFIRST |-> <<"CR1", {7}>>, SSI |-> <<"CR1", {8}>>, SSM |-> <<"CR1", {9}>>,
   RXONLY |-> <<"CR1", {10}>>, CRCL |-> <<"CR1", {11}>>, CRCNEXT |-> <<"CR1", {12}>>,
   CRCEN |-> <<"CR1", {13}>>, BIDIOE |-> <<"CR1", {14}>>, BIDIMODE |-> <<"CR1", {15}>>,
   RXDMAEN |-> <<"CR2", {0}>>, TXDMAEN |-> <<"CR2", {1}>>, SSOE |-> <<"CR2", {2}>>,
   NSSP |-> <<"CR2", {3}>>, FRF |-> <<"CR2", {4}>>, ERRIE |-> <<"CR2", {5}>>,
   RXNEIE |-> <<"CR2", {6}>>, TXEIE |-> <<"CR2", {7}>>, DS |-> <<"CR2", 8..11>>,
   FRXTH |-> <<"CR2", {12}>>, LDMARX |-> <<"CR2", {13}>>, LDMATX |-> <<"CR2", {14}>>,
   CRCPOLY |-> <<"CRCPR", 0..15>>,
   CHLEN |-> <<"I2SCFGR", {0}>>, DATLEN |-> <<"I2SCFGR", 1..2>>, CKPOL |-> <<"I2SCFGR", {3}>>,
   I2SSTD |-> <<"I2SCFGR", 4..5>>, PCMSYNC |-> <<"I2SCFGR", {7}>>, I2SCFG |-> <<"I2SCFGR", 8..9>>,
   I2SE |-> <<"I2SCFGR", {10}>>, I2SMOD |-> <<"I2SCFGR", {11}>>, MCKOE |-> <<"I2SPR", {9}>>]
LOCAL INSTANCE Peripheral WITH Field <- SpiField

SpiFlag == [RXNE |-> 0, TXE |-> 1, CHSIDE |-> 2, UDR |-> 3, CRCERR |-> 4, MODF |-> 5, OVR |-> 6, BSY |-> 7, FRE |-> 8]

\* The interrupts: <<position of the enable bit in CR2, position of the flag in SR>>.
SpiIT ==
  [TXE |-> <<7, 1>>, RXNE |-> <<6, 0>>, ERR |-> <<5, 0>>, UDR |-> <<5, 3>>, MODF |-> <<5, 5>>,
   OVR |-> <<5, 6>>, FRE |-> <<5, 8>>]
SpiConfigIT == {"TXE", "RXNE", "ERR"}
SpiGetIT == {"RXNE", "TXE", "UDR", "MODF", "OVR", "FRE"}

---------------------------------------------------------------------------
(* The calls *)

NoAudio == [AudioFreq |-> 2, MCLKOutput |-> FALSE, DataFormat |-> {}]
NoRegisters == [CR1 |-> {}, CR2 |-> {}, CRCPR |-> {}, I2SCFGR |-> {}, I2SPR |-> {}, SR |-> {}]
SpiInit ==
  /\ clk \in SYSCLKs /\ regs = NoRegisters /\ asked = AllOff /\ inited = FALSE
  /\ wiped = {} /\ audio = NoAudio /\ raised = {}
  /\ spiCalls \in {[kind |-> "any", left |-> SpiCalls], [kind |-> "mode", left |-> ModeCalls]}
SPI_I2S_DeInit ==
  /\ regs' = NoRegisters /\ asked' = AllOff /\ inited' = FALSE /\ wiped' = {} /\ audio' = NoAudio
  /\ raised' = {} /\ UNCHANGED clk

\* The members of SPI_InitTypeDef, as the fields that are to be one or as bits.
Directions == {{}, {"RXONLY"}, {"BIDIMODE"}, {"BIDIMODE", "BIDIOE"}}
SpiModes == {{"MSTR", "SSI"}, {}}
DataSizes == {Shl(BitsOf(n), 8) : n \in 3..15}
BaudRatePrescalers == {Shl(BitsOf(n), 3) : n \in 0..7}
SPI_StructInit ==
  [Direction |-> {}, Mode |-> {}, DataSize |-> Shl(BitsOf(7), 8), CPOL |-> {}, CPHA |-> {}, NSS |-> {},
   BaudRatePrescaler |-> {}, FirstBit |-> {}, CRCPolynomial |-> 7]
SpiInitTypeDef ==
  [Direction : Directions, Mode : SpiModes, DataSize : DataSizes, CPOL : {{}, {"CPOL"}},
   CPHA : {{}, {"CPHA"}}, NSS : {{}, {"SSM"}}, BaudRatePrescaler : BaudRatePrescalers,
   FirstBit : {{}, {"LSBFIRST"}}, CRCPolynomial : {7, 65535}]

\* 0x3040, 0xFFFB, 0x9FFF and 0xF040 name the bits that are kept.
\* A slip to rule out: the mask is wider than the settings of the structure.
CR1_CLEAR_MASK_Wide == {6, 12}
CR1_CLEAR_MASK == {6, 12, 13}
CR1_CLEAR_MASK2 == 0..15 \ {2}
CR2_LDMA_MASK == 0..15 \ {13, 14}
I2SCFGR_CLEAR_Mask == {6} \union 12..15

\* CR1 is written anew but for SPE, CRCEN and CRCNEXT.  Of the bits that go, the
\* comment in the code names all but the CRC length, which no member of the structure
\* gives: a length of 16 bits set before is 8 bits again.
SPI_Init(init) ==
  LET line == init.Direction \union init.FirstBit \union init.CPOL \union init.CPHA \union init.NSS
      cr1 == MODIFY_REG(regs.CR1, 0..15 \ CR1_CLEAR_MASK, Mask(line) \union init.BaudRatePrescaler)
  IN /\ regs' = [regs EXCEPT
           !.CR1 = (cr1 \intersect CR1_CLEAR_MASK2) \union Mask(init.Mode),
           !.CR2 = MODIFY_REG(@, Bits("DS"), init.DataSize),
           !.CRCPR = BitsOf(init.CRCPolynomial),
           !.I2SCFGR = @ \ Bits("I2SMOD")]
     /\ Asks(Ones({"RXONLY", "BIDIMODE", "BIDIOE", "LSBFIRST", "CPOL", "CPHA", "SSM", "MSTR", "SSI", "I2SMOD"},
                  line \union init.Mode)
             @@ ("DS" :> init.DataSize) @@ ("BR" :> init.BaudRatePrescaler)
             @@ ("CRCPOLY" :> BitsOf(init.CRCPolynomial)))
     /\ inited' = TRUE /\ wiped' = {"CRCL"} /\ UNCHANGED <<clk, audio, raised>>

\* The members of I2S_InitTypeDef.
I2SModes == {Shl(BitsOf(n), 8) : n \in 0..3}
Standards == {{}, {4}, {5}, {4, 5}, {4, 5, 7}}
DataFormats == {{}, {0}, {0, 1}, {0, 2}}
I2S_StructInit ==
  [Mode |-> {}, Standard |-> {}, DataFormat |-> {}, MCLKOutput |-> FALSE, AudioFreq |-> 2, CPOL |-> {}]
I2SInitTypeDef ==
  [Mode : I2SModes, Standard : Standards, DataFormat : DataFormats, MCLKOutput : BOOLEAN,
   AudioFreq : AudioFreqs, CPOL : {{}, {3}}]

\* Cycles of the clock per bit pair: the quotient in tenths, rounded, in 16 bits.
PerSample(init) ==
  LET frame == IF init.MCLKOutput THEN 256 ELSE IF init.DataFormat = {} THEN 32 ELSE 64
  IN ((((clk \div frame) * 10) \div init.AudioFreq + 5) % 65536) \div 10

\* A divider below 2 or above 255 is replaced by the default.
Prescaler(init) ==
  LET n == PerSample(init)
  IN IF init.AudioFreq = 2 \/ n \div 2 < 2 \/ n \div 2 > 255 THEN BitsOf(2)
     ELSE BitsOf(n \div 2) \union (IF n % 2 = 1 THEN {8} ELSE {})
I2S_Init(init) ==
  LET config == Bits("I2SMOD") \union init.Mode \union init.Standard \union init.DataFormat \union init.CPOL
  IN /\ regs' = [regs EXCEPT
           !.I2SCFGR = (@ \intersect I2SCFGR_CLEAR_Mask) \union config,
           !.I2SPR = Prescaler(init) \union (IF init.MCLKOutput THEN Bits("MCKOE") ELSE {})]
     /\ Asks([f \in {"CHLEN", "DATLEN", "CKPOL", "I2SSTD", "PCMSYNC", "I2SCFG", "I2SE", "I2SMOD"} |->
                config \intersect Bits(f)]
             @@ Ones({"MCKOE"}, IF init.MCLKOutput THEN {"MCKOE"} ELSE {}))
     /\ audio' = [f \in DOMAIN NoAudio |-> init[f]] /\ UNCHANGED <<clk, inited, wiped, raised>>

SPI_Cmd(on) == Turns("CR1", {"SPE"}, on)
I2S_Cmd(on) == Turns("I2SCFGR", {"I2SE"}, on)
SPI_DataSizeConfig(bits) == Picks("CR2", "DS", bits)
SPI_RxFIFOThresholdConfig(bits) == Picks("CR2", "FRXTH", bits)
SPI_I2S_DMACmd(requests, on) == Turns("CR2", requests, on)
SPI_LastDMATransferCmd(ones) ==
  /\ Write("CR2", (regs.CR2 \intersect CR2_LDMA_MASK) \union Mask(ones))
  /\ Asks(Ones({"LDMARX", "LDMATX"}, ones))

\* &= SPI_Direction_Rx, 0xBFFF.
SPI_BiDirectionalLineConfig(tx) ==
  /\ Write("CR1", IF tx THEN regs.CR1 \union {14} ELSE regs.CR1 \intersect (0..15 \ {14}))
  /\ Asks(Ones({"BIDIOE"}, IF tx THEN {"BIDIOE"} ELSE {}))

\* &= SPI_NSSInternalSoft_Reset, 0xFEFF.
SPI_NSSInternalSoftwareConfig(set) ==
  /\ inited
  /\ Write("CR1", IF set THEN regs.CR1 \union Bits("SSI") ELSE regs.CR1 \intersect (0..15 \ {8}))
  /\ Asks(Ones({"SSI"}, IF set THEN {"SSI"} ELSE {}))

\* The header allows these after SPI_Init only.
SPI_TIModeCmd(on) == inited /\ Turns("CR2", {"FRF"}, on)
SPI_SSOutputCmd(on) == inited /\ Turns("CR2", {"SSOE"}, on)
SPI_NSSPulseModeCmd(on) == inited /\ Turns("CR2", {"NSSP"}, on)
SPI_CRCLengthConfig(bits) == inited /\ Picks("CR1", "CRCL", bits) /\ wiped' = {}
SPI_CalculateCRC(on) == inited /\ Turns("CR1", {"CRCEN"}, on)
SPI_TransmitCRC == Turns("CR1", {"CRCNEXT"}, TRUE)

---------------------------------------------------------------------------
(* Interrupts and flags *)

EnableOf(it) == CASE it = "TXE" -> "TXEIE" [] it = "RXNE" -> "RXNEIE" [] OTHER -> "ERRIE"
SPI_I2S_ITConfig(it, on) ==
  /\ Write("CR2", SwitchBits(regs.CR2, {SpiIT[it][1]}, on))
  /\ Asks(Ones({EnableOf(it)}, IF on THEN {EnableOf(it)} ELSE {}))
SPI_I2S_GetFlagStatus(flag) == SpiFlag[flag] \in regs.SR
SPI_I2S_GetITStatus(it) == SpiIT[it][2] \in regs.SR /\ SpiIT[it][1] \in regs.CR2

\* The peripheral raises a flag; of SR only the CRC error is cleared by writing zero.
HwRaises(flag) ==
  /\ raised' = raised \union {flag} /\ Write("SR", regs.SR \union {SpiFlag[flag]})
  /\ UNCHANGED <<clk, asked, inited, wiped, audio>>
SPI_I2S_ClearFlag(flag) ==
  /\ Write("SR", regs.SR \ ({4} \ (0..15 \ {SpiFlag[flag]})))
  /\ raised' = raised \ {flag} /\ UNCHANGED <<clk, asked, inited, wiped, audio>>

---------------------------------------------------------------------------
OnOffCall(on) ==
  \/ SPI_Cmd(on) \/ I2S_Cmd(on) \/ SPI_TIModeCmd(on) \/ SPI_SSOutputCmd(on) \/ SPI_NSSPulseModeCmd(on)
  \/ SPI_CalculateCRC(on) \/ SPI_BiDirectionalLineConfig(on) \/ SPI_NSSInternalSoftwareConfig(on)
  \/ \E requests \in SUBSET {"TXDMAEN", "RXDMAEN"} \ {{}} : SPI_I2S_DMACmd(requests, on)
  \/ \E it \in SpiConfigIT : SPI_I2S_ITConfig(it, on)
ConfigCall ==
  \/ \E bits \in DataSizes : SPI_DataSizeConfig(bits)
  \/ \E bits \in {{}, {12}} : SPI_RxFIFOThresholdConfig(bits)
  \/ \E ones \in SUBSET {"LDMARX", "LDMATX"} : SPI_LastDMATransferCmd(ones)
  \/ SPI_TransmitCRC
FlagStep == (\E flag \in DOMAIN SpiFlag : HwRaises(flag)) \/ SPI_I2S_ClearFlag("CRCERR")

\* The settings that differ from the default ones in one member, and one that
\* differs in all.
Near(inits, default) ==
  {init \in inits : Cardinality({k \in DOMAIN init : init[k] # default[k]}) <= 1}
  \union {CHOOSE init \in inits : \A k \in DOMAIN init : init[k] # default[k]}
SpiInits == Near(SpiInitTypeDef, SPI_StructInit)
TwoInits == {SPI_StructInit, CHOOSE init \in SpiInits : \A k \in DOMAIN init : init[k] # SPI_StructInit[k]}
I2SInits == Near(I2SInitTypeDef, I2S_StructInit)

SpiNext ==
  /\ spiCalls.left > 0 /\ spiCalls' = [spiCalls EXCEPT !.left = @ - 1]
  /\ \/ SPI_I2S_DeInit
     \/ \E init \in IF spiCalls.kind = "any" THEN SpiInits ELSE TwoInits : SPI_Init(init)
     \/ spiCalls.kind = "any" /\ (FlagStep \/ \E init \in I2SInits : I2S_Init(init))
     \/ (ConfigCall \/ \E on \in BOOLEAN : OnOffCall(on)) /\ UNCHANGED <<clk, inited, wiped, audio, raised>>
     \/ (\E bits \in {{}, {11}} : SPI_CRCLengthConfig(bits)) /\ UNCHANGED <<clk, inited, audio, raised>>
SpiSpec == SpiInit /\ [][SpiNext]_spiVars

---------------------------------------------------------------------------
\* Whatever is called in whatever order, each field of each register holds what the
\* last call that names it asked for; but a CRC length asked for before the last
\* SPI_Init is cleared by it, and the CRC length only.  An interrupt is reported if
\* and only if it is enabled and its flag is up.
SpiKept ==
  /\ KeptBut(wiped)
  /\ \A flag \in DOMAIN SpiFlag : SPI_I2S_GetFlagStatus(flag) <=> flag \in raised
  /\ \A it \in SpiGetIT : SPI_I2S_GetITStatus(it) <=> asked[EnableOf(it)] # {} /\ it \in raised

\* The sample clock is the nearest to the rate asked for that the prescaler reaches
\* (twice I2SDIV and the odd bit, from 4 to 511), to a tenth of a step.
AudioIsRight ==
  audio.AudioFreq # 2 =>
    LET div == 2 * NumberOf(regs.I2SPR \intersect 0..7) + (IF 8 \in regs.I2SPR THEN 1 ELSE 0)
        frame == IF audio.MCLKOutput THEN 256 ELSE IF audio.DataFormat = {} THEN 32 ELSE 64
        step == frame * audio.AudioFreq
        reachable == clk \div step \in 4..510
        error == IF div * step > clk THEN div * step - clk ELSE clk - div * step
    IN reachable => 10 * error <= 6 * step
=============================================================================
