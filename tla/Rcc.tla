--------------------------------- MODULE Rcc --------------------------------
(***************************************************************************)
(* The reset and clock controller (stm32f0xx_rcc.c, system_stm32f0xx.c):   *)
(* what each call leaves in the registers, the oscillators that follow     *)
(* them in their own time, and the frequencies the program is told.        *)
(***************************************************************************)
EXTENDS Registers, TLC

CONSTANTS
  HSI, HSE, LSE, HSI14,   \* the frequencies of the oscillators
  PllMuls, Predivs, SysDivs, HclkDivs,   \* the factors tried, of those of the header
  AnyCalls, TreeCalls     \* bounds: calls of any kind, and calls to the clock tree alone

RccAssumption ==
  /\ {HSI, HSE, LSE, HSI14} \subseteq Nat \ {0} /\ PllMuls \subseteq 2..16 /\ Predivs \subseteq 1..16
  /\ SysDivs \subseteq {1, 2, 4, 8, 16, 64, 128, 256, 512} /\ HclkDivs \subseteq {1, 2, 4, 8, 16}
  /\ {AnyCalls, TreeCalls} \subseteq Nat

VARIABLES
  regs,        \* the registers
  asked,       \* history: the bits each field was last asked to have
  pending,     \* history: the interrupts that wait to be cleared
  rccCalls     \* calls left: [kind, left]
rccVars == <<regs, asked, pending, rccCalls>>

---------------------------------------------------------------------------
(* The map of the registers *)

\* The bit of each peripheral in the enable and in the reset register of its bus.
AHBPeriph == [DMA1 |-> 0, SRAM |-> 2, FLITF |-> 4, CRC |-> 6, GPIOA |-> 17, GPIOB |-> 18, GPIOC |-> 19,
              GPIOD |-> 20, GPIOF |-> 22, TS |-> 24]
APB2Periph == [SYSCFG |-> 0, ADC1 |-> 9, TIM1 |-> 11, SPI1 |-> 12, USART1 |-> 14, TIM15 |-> 16,
               TIM16 |-> 17, TIM17 |-> 18, DBGMCU |-> 22]
APB1Periph == [TIM2 |-> 0, TIM3 |-> 1, TIM6 |-> 4, TIM14 |-> 8, WWDG |-> 11, SPI2 |-> 14, USART2 |-> 17,
               I2C1 |-> 21, I2C2 |-> 22, PWR |-> 28, DAC |-> 29, CEC |-> 30]
Enabled == 0..30   \* all the peripherals of a bus
RccField ==
  [HSION |-> <<"CR", {0}>>, HSITRIM |-> <<"CR", 3..7>>, HSEON |-> <<"CR", {16}>>, HSEBYP |-> <<"CR", {18}>>,
   CSSON |-> <<"CR", {19}>>, PLLON |-> <<"CR", {24}>>,
   SW |-> <<"CFGR", 0..1>>, HPRE |-> <<"CFGR", 4..7>>, PPRE |-> <<"CFGR", 8..10>>,
   ADCPRE |-> <<"CFGR", {14}>>, PLLSRC |-> <<"CFGR", {16}>>, PLLXTPRE |-> <<"CFGR", {17}>>,
   PLLMULL |-> <<"CFGR", 18..21>>, MCO |-> <<"CFGR", 24..26>>,
   PREDIV1 |-> <<"CFGR2", 0..3>>, USART1SW |-> <<"CFGR3", 0..1>>, I2C1SW |-> <<"CFGR3", {4}>>,
   CECSW |-> <<"CFGR3", {6}>>, ADCSW |-> <<"CFGR3", {8}>>,
   HSI14ON |-> <<"CR2", {0}>>, HSI14DIS |-> <<"CR2", {2}>>, HSI14TRIM |-> <<"CR2", 3..7>>,
   LSEON |-> <<"BDCR", {0}>>, LSEBYP |-> <<"BDCR", {2}>>, LSEDRV |-> <<"BDCR", 3..4>>,
   RTCSEL |-> <<"BDCR", 8..9>>, RTCEN |-> <<"BDCR", {15}>>, BDRST |-> <<"BDCR", {16}>>,
   LSION |-> <<"CSR", {0}>>, IE |-> <<"CIR", 8..13>>,
   AHBEN |-> <<"AHBENR", Enabled>>, APB2EN |-> <<"APB2ENR", Enabled>>, APB1EN |-> <<"APB1ENR", Enabled>>,
   AHBRST |-> <<"AHBRSTR", Enabled>>, APB2RST |-> <<"APB2RSTR", Enabled>>,
   APB1RST |-> <<"APB1RSTR", Enabled>>]
LOCAL INSTANCE Peripheral WITH Field <- RccField

\* The flags: where each is, and the code RCC_GetFlagStatus is given for it.
RccFlagBit ==
  [HSIRDY |-> <<"CR", 1>>, HSERDY |-> <<"CR", 17>>, PLLRDY |-> <<"CR", 25>>, LSERDY |-> <<"BDCR", 1>>,
   LSIRDY |-> <<"CSR", 1>>, V18PWRRSTF |-> <<"CSR", 23>>, OBLRST |-> <<"CSR", 25>>, PINRST |-> <<"CSR", 26>>,
   PORRST |-> <<"CSR", 27>>, SFTRST |-> <<"CSR", 28>>, IWDGRST |-> <<"CSR", 29>>, WWDGRST |-> <<"CSR", 30>>,
   LPWRRST |-> <<"CSR", 31>>, HSI14RDY |-> <<"CR2", 1>>]
RccFlag ==
  [HSIRDY |-> 1, HSERDY |-> 17, PLLRDY |-> 25, LSERDY |-> 33, LSIRDY |-> 65, V18PWRRSTF |-> 87,
   OBLRST |-> 89, PINRST |-> 90, PORRST |-> 91, SFTRST |-> 92, IWDGRST |-> 93, WWDGRST |-> 94,
   LPWRRST |-> 95, HSI14RDY |-> 97]
RccIT == [LSI |-> 0, LSE |-> 1, HSI |-> 2, HSE |-> 3, PLL |-> 4, HSI14 |-> 5]

\* Each oscillator: its register, and the bits that turn it on and say it runs.
Oscillator ==
  [HSI |-> <<"CR", 0, 1>>, HSE |-> <<"CR", 16, 17>>, PLL |-> <<"CR", 24, 25>>, LSE |-> <<"BDCR", 0, 1>>,
   LSI |-> <<"CSR", 0, 1>>, HSI14 |-> <<"CR2", 0, 1>>]
Runs(osc) == Oscillator[osc][3] \in regs[Oscillator[osc][1]]

\* The factors, by the bits the header gives them.
RCC_SYSCLK_Div ==
  (1 :> {}) @@ (2 :> {7}) @@ (4 :> {4, 7}) @@ (8 :> {5, 7}) @@ (16 :> {4, 5, 7}) @@ (64 :> {6, 7})
  @@ (128 :> {4, 6, 7}) @@ (256 :> {5, 6, 7}) @@ (512 :> {4, 5, 6, 7})
RCC_HCLK_Div == (1 :> {}) @@ (2 :> {10}) @@ (4 :> {8, 10}) @@ (8 :> {9, 10}) @@ (16 :> {8, 9, 10})
RCC_PLLMul == [m \in 2..16 |-> Shl(BitsOf(m - 2), 18)]
RCC_PREDIV1_Div == [d \in 1..16 |-> BitsOf(d - 1)]
RCC_SYSCLKSource == [HSI |-> {}, HSE |-> {0}, PLL |-> {1}]

---------------------------------------------------------------------------
(* After a power-on, and after SystemInit with a crystal that starts *)

PowerOn ==
  [CR |-> {0, 1, 7}, CFGR |-> {}, CFGR2 |-> {}, CFGR3 |-> {}, CR2 |-> {7}, BDCR |-> {}, CIR |-> {},
   CSR |-> {26, 27}, AHBENR |-> {2, 4}, APB2ENR |-> {}, APB1ENR |-> {}, AHBRSTR |-> {}, APB2RSTR |-> {},
   APB1RSTR |-> {}]
SetSysClock == [PowerOn EXCEPT !.CR = {0, 1, 7, 16, 17, 24, 25}, !.CFGR = {1, 3, 16} \union RCC_PLLMul[6]]
RccInit ==
  /\ regs \in {PowerOn, SetSysClock} /\ asked = [f \in DOMAIN RccField |-> regs[RccField[f][1]] \intersect Bits(f)]
  /\ pending = {}
  /\ rccCalls \in {[kind |-> "any", left |-> AnyCalls], [kind |-> "tree", left |-> TreeCalls]}

\* The masks 0xF8FFB80C, 0xFEF6FFFF and so on name the bits that are kept.
RCC_DeInit ==
  /\ regs' = [regs EXCEPT !.CR = (@ \union {0}) \ {16, 18, 19, 24},
                         !.CFGR = @ \ ({0, 1, 14} \union 4..10 \union 16..21 \union 24..26),
                         !.CFGR2 = @ \ 0..3, !.CFGR3 = @ \ {0, 1, 4, 6, 8}, !.CR2 = @ \ {0}, !.CIR = {}]
  /\ Asks(("HSION" :> {0})
          @@ [f \in {"HSEON", "HSEBYP", "CSSON", "PLLON", "SW", "HPRE", "PPRE", "ADCPRE", "PLLSRC", "PLLXTPRE",
                     "PLLMULL", "MCO", "PREDIV1", "USART1SW", "I2C1SW", "CECSW", "ADCSW", "HSI14ON", "IE"} |-> {}])
  /\ pending' = {}

---------------------------------------------------------------------------
(* The clock tree *)

SourceInUse == CHOOSE s \in DOMAIN RCC_SYSCLKSource :
  Shl(RCC_SYSCLKSource[s], 2) = regs.CFGR \intersect {2, 3}
Feeds(osc) ==
  \/ SourceInUse = osc
  \/ SourceInUse = "PLL" /\ osc = (IF 16 \in regs.CFGR THEN "HSE" ELSE "HSI")
PllOff == 24 \notin regs.CR /\ ~Runs("PLL") /\ SourceInUse # "PLL"

\* The byte of CR that holds HSEON is written as a whole: the security system is
\* off after it.  The header wants HSE, HSI and the PLL left alone while in use.
RCC_HSEConfig(bits) ==
  /\ ~Feeds("HSE")
  /\ Write("CR", MODIFY_REG(regs.CR, 16..23 \ {17}, bits))
  /\ Asks([f \in {"HSEON", "HSEBYP", "CSSON"} |-> bits \intersect Bits(f)])
RCC_HSICmd(on) == (on \/ ~Feeds("HSI")) /\ Turns("CR", {"HSION"}, on)
RCC_PLLConfig(source, mul) ==
  /\ PllOff
  /\ Write("CFGR", MODIFY_REG(regs.CFGR, Bits("PLLMULL") \union Bits("PLLSRC"), source \union RCC_PLLMul[mul]))
  /\ Asks(("PLLSRC" :> source) @@ ("PLLMULL" :> RCC_PLLMul[mul]))
RCC_PREDIV1Config(div) == PllOff /\ Picks("CFGR2", "PREDIV1", RCC_PREDIV1_Div[div])
RCC_PLLCmd(on) == (on \/ SourceInUse # "PLL") /\ Turns("CR", {"PLLON"}, on)
RCC_SYSCLKConfig(source) == Picks("CFGR", "SW", RCC_SYSCLKSource[source])
RCC_HCLKConfig(div) == Picks("CFGR", "HPRE", RCC_SYSCLK_Div[div])
RCC_PCLKConfig(div) == Picks("CFGR", "PPRE", RCC_HCLK_Div[div])
RCC_GetSYSCLKSource == regs.CFGR \intersect {2, 3}

---------------------------------------------------------------------------
(* The other clocks *)

RCC_AdjustHSICalibrationValue(n) == Stores("CR", 3..7, "HSITRIM", n, 3)
RCC_AdjustHSI14CalibrationValue(n) == Stores("CR2", 3..7, "HSI14TRIM", n, 3)
RCC_HSI14Cmd(on) == Turns("CR2", {"HSI14ON"}, on)
RCC_HSI14ADCRequestCmd(on) == Turns("CR2", {"HSI14DIS"}, ~on)
RCC_LSEConfig(bits) ==
  /\ Write("BDCR", (regs.BDCR \ {0, 2}) \union bits)
  /\ Asks([f \in {"LSEON", "LSEBYP"} |-> bits \intersect Bits(f)])
RCC_LSEDriveConfig(bits) == Picks("BDCR", "LSEDRV", bits)
RCC_LSICmd(on) == Turns("CSR", {"LSION"}, on)
RCC_ClockSecuritySystemCmd(on) == Turns("CR", {"CSSON"}, on)

\* The highest byte of CFGR is written as a whole.
RCC_MCOConfig(n) ==
  Write("CFGR", MODIFY_REG(regs.CFGR, 24..31, Shl(BitsOf(n), 24))) /\ Asks("MCO" :> Shl(BitsOf(n), 24))

\* One constant for two registers: its halves.
RCC_ADCCLKConfig(low, high) ==
  /\ regs' = [regs EXCEPT !.CFGR = MODIFY_REG(@, {14}, low), !.CFGR3 = MODIFY_REG(@, {8}, high)]
  /\ Asks(("ADCPRE" :> low) @@ ("ADCSW" :> high))
RCC_CECCLKConfig(bits) == Picks("CFGR3", "CECSW", bits)
RCC_I2CCLKConfig(bits) == Picks("CFGR3", "I2C1SW", bits)
RCC_USARTCLKConfig(bits) == Picks("CFGR3", "USART1SW", bits)

\* The source of the real-time clock is chosen once: the bits are only set.
RCC_RTCCLKConfig(bits) ==
  /\ asked.RTCSEL = {} /\ Write("BDCR", regs.BDCR \union bits) /\ Asks("RTCSEL" :> bits)
RCC_RTCCLKCmd(on) == Turns("BDCR", {"RTCEN"}, on)

\* The backup domain is held in reset: all but the reset bit is off.
RCC_BackupResetCmd(on) ==
  IF on
  THEN /\ Write("BDCR", {16})
       /\ Asks([f \in {"LSEON", "LSEBYP", "LSEDRV", "RTCSEL", "RTCEN"} |-> {}] @@ ("BDRST" :> {16}))
  ELSE Turns("BDCR", {"BDRST"}, FALSE)

SwitchPeriph(reg, f, bits, on) ==
  Write(reg, SwitchBits(regs[reg], bits, on)) /\ Asks(f :> SwitchBits(asked[f], bits, on))
RCC_AHBPeriphClockCmd(ps, on) == SwitchPeriph("AHBENR", "AHBEN", {AHBPeriph[p] : p \in ps}, on)
RCC_APB2PeriphClockCmd(ps, on) == SwitchPeriph("APB2ENR", "APB2EN", {APB2Periph[p] : p \in ps}, on)
RCC_APB1PeriphClockCmd(ps, on) == SwitchPeriph("APB1ENR", "APB1EN", {APB1Periph[p] : p \in ps}, on)
RCC_AHBPeriphResetCmd(ps, on) == SwitchPeriph("AHBRSTR", "AHBRST", {AHBPeriph[p] : p \in ps}, on)
RCC_APB2PeriphResetCmd(ps, on) == SwitchPeriph("APB2RSTR", "APB2RST", {APB2Periph[p] : p \in ps}, on)
RCC_APB1PeriphResetCmd(ps, on) == SwitchPeriph("APB1RSTR", "APB1RST", {APB1Periph[p] : p \in ps}, on)

---------------------------------------------------------------------------
(* Interrupts and flags *)

\* The second byte of CIR enables, the third clears, the first tells.
RCC_ITConfig(its, on) ==
  SwitchPeriph("CIR", "IE", {RccIT[i] + 8 : i \in its}, on) /\ UNCHANGED pending
RCC_GetITStatus(it) == RccIT[it] \in regs.CIR
RCC_ClearITPendingBit(it) ==
  /\ Write("CIR", regs.CIR \ {RccIT[it]}) /\ pending' = pending \ {it} /\ UNCHANGED asked
RCC_GetFlagStatus(code) ==
  LET reg == CASE code \div 32 = 0 -> "CR" [] code \div 32 = 1 -> "BDCR" [] code \div 32 = 2 -> "CSR" [] OTHER -> "CR2"
  IN code % 32 \in regs[reg]
RCC_ClearFlag == Write("CSR", regs.CSR \ (25..31 \union {23})) /\ UNCHANGED <<asked, pending>>

\* An oscillator follows its bit; the PLL waits for its source.  An interrupt is
\* raised when it is enabled.
HwReady(osc) ==
  LET reg == Oscillator[osc][1]
      on == Oscillator[osc][2] \in regs[reg]
      rings == on /\ RccIT[osc] + 8 \in regs.CIR
      ready == [regs EXCEPT ![reg] = SwitchBits(@, {Oscillator[osc][3]}, on)]
  IN /\ on # Runs(osc) /\ (osc = "PLL" /\ on => Runs(IF 16 \in regs.CFGR THEN "HSE" ELSE "HSI"))
     /\ on \/ ~Feeds(osc)
     /\ regs' = IF rings THEN [ready EXCEPT !.CIR = @ \union {RccIT[osc]}] ELSE ready
     /\ pending' = IF rings THEN pending \union {osc} ELSE pending
     /\ UNCHANGED asked

\* The clock asked for is used once it runs.
HwSwitches ==
  \E s \in DOMAIN RCC_SYSCLKSource :
    /\ RCC_SYSCLKSource[s] = regs.CFGR \intersect {0, 1} /\ SourceInUse # s /\ Runs(s)
    /\ Write("CFGR", MODIFY_REG(regs.CFGR, {2, 3}, Shl(RCC_SYSCLKSource[s], 2)))
    /\ UNCHANGED <<asked, pending>>

---------------------------------------------------------------------------
(* What the program is told *)

NumberIn(reg, f, shift) == NumberOf(Shr(regs[reg] \intersect Bits(f), shift))
APBAHBPrescTable == <<0, 0, 0, 0, 1, 2, 3, 4, 1, 2, 3, 4, 6, 7, 8, 9>>
AHBPrescTable == <<0, 0, 0, 0, 0, 0, 0, 0, 1, 2, 3, 4, 6, 7, 8, 9>>

SYSCLK_Frequency ==
  LET mul == NumberIn("CFGR", "PLLMULL", 18) + 2 IN
  CASE RCC_GetSYSCLKSource = {2} -> HSE
    [] RCC_GetSYSCLKSource = {3} ->
         IF 16 \notin regs.CFGR THEN (HSI \div 2) * mul
         ELSE (HSE \div (NumberOf(regs.CFGR2 \intersect 0..3) + 1)) * mul
    [] OTHER -> HSI
RCC_GetClocksFreq ==
  LET hclk == SYSCLK_Frequency \div 2 ^ APBAHBPrescTable[NumberIn("CFGR", "HPRE", 4) + 1]
      pclk == hclk \div 2 ^ APBAHBPrescTable[NumberIn("CFGR", "PPRE", 8) + 1]
      usart == regs.CFGR3 \intersect 0..1
  IN [SYSCLK |-> SYSCLK_Frequency, HCLK |-> hclk, PCLK |-> pclk,
      ADCCLK |-> IF 8 \notin regs.CFGR3 THEN HSI14 ELSE IF 14 \notin regs.CFGR THEN pclk \div 2 ELSE pclk \div 4,
      CECCLK |-> IF 6 \notin regs.CFGR3 THEN HSI \div 244 ELSE LSE,
      I2C1CLK |-> IF 4 \notin regs.CFGR3 THEN HSI ELSE SYSCLK_Frequency,
      USART1CLK |-> CASE usart = {} -> pclk [] usart = {0} -> SYSCLK_Frequency [] usart = {1} -> LSE [] OTHER -> HSI]
SystemCoreClock == SYSCLK_Frequency \div 2 ^ AHBPrescTable[NumberIn("CFGR", "HPRE", 4) + 1]

---------------------------------------------------------------------------
TreeCall ==
  \/ \E bits \in {{}, {16}, {16, 18}} : RCC_HSEConfig(bits)
  \/ \E on \in BOOLEAN : RCC_HSICmd(on) \/ RCC_PLLCmd(on)
  \/ \E source \in {{}, {16}}, mul \in PllMuls : RCC_PLLConfig(source, mul)
  \/ \E div \in Predivs : RCC_PREDIV1Config(div)
  \/ \E source \in DOMAIN RCC_SYSCLKSource : RCC_SYSCLKConfig(source)
  \/ \E div \in SysDivs : RCC_HCLKConfig(div)
  \/ \E div \in HclkDivs : RCC_PCLKConfig(div)
ClockCall ==
  \/ \E n \in {0, 21, 31} : RCC_AdjustHSICalibrationValue(n) \/ RCC_AdjustHSI14CalibrationValue(n)
  \/ \E on \in BOOLEAN : RCC_HSI14Cmd(on) \/ RCC_HSI14ADCRequestCmd(on) \/ RCC_LSICmd(on)
                         \/ RCC_ClockSecuritySystemCmd(on) \/ RCC_RTCCLKCmd(on) \/ RCC_BackupResetCmd(on)
  \/ \E bits \in {{}, {0}, {0, 2}} : RCC_LSEConfig(bits)
  \/ \E bits \in SUBSET {3, 4} : RCC_LSEDriveConfig(bits)
  \/ \E n \in 0..7 : RCC_MCOConfig(n)
  \/ \E halves \in {<<{}, {}>>, <<{}, {8}>>, <<{14}, {8}>>} : RCC_ADCCLKConfig(halves[1], halves[2])
  \/ \E bits \in {{}, {6}} : RCC_CECCLKConfig(bits)
  \/ \E bits \in {{}, {4}} : RCC_I2CCLKConfig(bits)
  \/ \E bits \in SUBSET {0, 1} : RCC_USARTCLKConfig(bits)
  \/ \E bits \in {{8}, {9}, {8, 9}} : RCC_RTCCLKConfig(bits)
PeriphCall ==
  \E on \in BOOLEAN :
    \/ \E ps \in {{"GPIOA", "GPIOB"}, {"DMA1"}} : RCC_AHBPeriphClockCmd(ps, on) \/ RCC_AHBPeriphResetCmd(ps, on)
    \/ \E ps \in {{"USART1"}, {"SYSCFG", "DBGMCU"}} :
         RCC_APB2PeriphClockCmd(ps, on) \/ RCC_APB2PeriphResetCmd(ps, on)
    \/ \E ps \in {{"USART2", "SPI2"}, {"CEC"}} : RCC_APB1PeriphClockCmd(ps, on) \/ RCC_APB1PeriphResetCmd(ps, on)
ItCall ==
  \/ \E its \in {{"HSE"}, {"PLL", "LSI"}}, on \in BOOLEAN : RCC_ITConfig(its, on)
  \/ \E it \in DOMAIN RccIT : RCC_ClearITPendingBit(it)
  \/ RCC_ClearFlag

RccCall ==
  /\ rccCalls.left > 0 /\ rccCalls' = [rccCalls EXCEPT !.left = @ - 1]
  /\ \/ TreeCall /\ UNCHANGED pending
     \/ rccCalls.kind = "any" /\ (ClockCall \/ PeriphCall) /\ UNCHANGED pending
     \/ rccCalls.kind = "any" /\ ItCall
     \/ RCC_DeInit
Hardware == (HwSwitches \/ \E osc \in DOMAIN Oscillator : HwReady(osc)) /\ UNCHANGED rccCalls
RccNext == RccCall \/ Hardware
RccSpec == RccInit /\ [][RccNext]_rccVars

---------------------------------------------------------------------------
\* Whatever is called in whatever order, each field holds what was last asked of
\* it; each flag is read where the hardware has it, and an interrupt is reported
\* from when it is raised until it is cleared.
RccKept ==
  /\ FieldsKept
  /\ \A flag \in DOMAIN RccFlag :
       RCC_GetFlagStatus(RccFlag[flag]) <=> RccFlagBit[flag][2] \in regs[RccFlagBit[flag][1]]
  /\ \A it \in DOMAIN RccIT : RCC_GetITStatus(it) <=> it \in pending

\* The frequencies told are those of the factors that were asked for, once the
\* clock that was asked for is in use; a crystal divided by a number that does not
\* divide it is told too low, by less than one per multiple.
FactorOf(table, bits) == CHOOSE d \in DOMAIN table : table[d] = bits
ClocksAreTold ==
  LET source == FactorOf(RCC_SYSCLKSource, asked.SW)
      mul == FactorOf(RCC_PLLMul, asked.PLLMULL)
      div == FactorOf(RCC_PREDIV1_Div, asked.PREDIV1)
      pll == IF asked.PLLSRC = {} THEN (HSI * mul) \div 2 ELSE (HSE * mul) \div div
      sysclk == CASE source = "HSI" -> HSI [] source = "HSE" -> HSE [] OTHER -> pll
      told == RCC_GetClocksFreq
      hclk == told.SYSCLK \div FactorOf(RCC_SYSCLK_Div, asked.HPRE)
      pclk == hclk \div FactorOf(RCC_HCLK_Div, asked.PPRE)
  IN SourceInUse = source =>
       /\ sysclk - told.SYSCLK \in 0 .. mul - 1
       /\ told.HCLK = hclk /\ told.PCLK = pclk /\ SystemCoreClock = hclk
       /\ told.ADCCLK = CASE asked.ADCSW = {} -> HSI14 [] asked.ADCPRE = {} -> pclk \div 2 [] OTHER -> pclk \div 4
       /\ told.USART1CLK = CASE asked.USART1SW = {} -> pclk [] asked.USART1SW = {0} -> told.SYSCLK
                             [] asked.USART1SW = {1} -> LSE [] OTHER -> HSI
=============================================================================
