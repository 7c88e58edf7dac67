------------------------------ MODULE MCParts ------------------------------
(***************************************************************************)
(* The parts that work alone: a behaviour is one of the part it has        *)
(* chosen, and leaves the variables of the other parts as they start.  The *)
(* parts share no variable.  The vendor drivers and the two models of the  *)
(* Ethernet driver name their variables alike, so they are instances with  *)
(* variables of their own.                                                 *)
(***************************************************************************)
EXTENDS CoTmr, CoHeap, CoBinary, Enc28j60, UipArp, UipFw, UipLib, UipRtt,
        UipIp, Board

CONSTANTS
  USARTCLK, Bauds, Bytes, UsartCalls,
  SYSCLKs, AudioFreqs, SpiCalls, ModeCalls,
  HSI, HSE, LSE, HSI14, PllMuls, Predivs, SysDivs, HclkDivs, AnyCalls, TreeCalls,
  PinsTried, GpioCalls,
  LengthOf, UIP_BUFSIZE, MaxFrames,
  FirstPort, WrapPort, LastPort, UIP_CONNS, UIP_UDP_CONNS, UIP_LISTENPORTS, Callers, CallerPorts,
  WellKnown, TimeWait

VARIABLES
  part,
  serialClk, serialRegs, serialAsked, serialRate, serialRaised, usartCalls,
  spiClk, spiRegs, spiAsked, inited, wiped, audio, spiRaised, spiCalls,
  rccRegs, rccAsked, pending, rccCalls,
  port, pin, frozen, driven, gpioCalls,
  chip, driver, told, misread, cameIn,
  conns, udpPorts, listenPorts, lastport

Serial ==
  INSTANCE Usart WITH clk <- serialClk, regs <- serialRegs, asked <- serialAsked, rate <- serialRate,
                      raised <- serialRaised
Spis ==
  INSTANCE Spi WITH clk <- spiClk, regs <- spiRegs, asked <- spiAsked, raised <- spiRaised
Clocks == INSTANCE Rcc WITH regs <- rccRegs, asked <- rccAsked
Pads == INSTANCE Gpio WITH Pins <- PinsTried
\* One of the two good frames is answered: the one cut to the size of the buffer.
Bus ==
  INSTANCE EncSpi WITH asked <- told, Replies <- Answered \ {"ask"}, BadFrames <- Broken

Numbers == INSTANCE UipPorts WITH Remotes <- Callers, RemotePorts <- CallerPorts

ASSUME DriversAssumption ==
  /\ Serial!UsartAssumption /\ Spis!SpiAssumption /\ Clocks!RccAssumption
  /\ Pads!GpioAssumption /\ Bus!EncSpiAssumption
ASSUME NetAssumption == Numbers!PortsAssumption

---------------------------------------------------------------------------
\* What a configuration file cannot give.
BlocksOfArea == [area \in Areas |-> IF area = "small" THEN 2 ELSE 3]
CellsOf == [f \in Frames |-> IF f = "big" THEN 2 ELSE 1]
FrameOctets == [f \in Frames |-> IF f = "big" THEN 1518 ELSE 64]
HostsOn == [n \in Nets |-> IF n = "eth" THEN {"p"} ELSE {"q", "exceeded"}]
TriedOctets ==
  {<<>>} \union {<<a>> : a \in 0 .. OctetRange - 1}
  \union {<<a, b>> : a \in 0 .. OctetRange - 1, b \in {0, 1, 8, 30, 31}}
  \union {<<a, b, c>> : a, b, c \in {0, 31}}
FewOctets == {<<>>, <<1>>, <<0, 0>>, <<31, 0, 31>>}
UdpOpened ==
  << [lport |-> 7, rport |-> 0, ripaddr |-> 0], [lport |-> 3, rport |-> 7, ripaddr |-> RemoteWord] >>
Notices == [p \in FwPackets |-> "exceeded"]

---------------------------------------------------------------------------
kernelVars == <<tmrVars, heapVars, memoryVars, binaryVars>>
serialVars == <<serialClk, serialRegs, serialAsked, serialRate, serialRaised, usartCalls>>
spiVars == <<spiClk, spiRegs, spiAsked, inited, wiped, audio, spiRaised, spiCalls>>
rccVars == <<rccRegs, rccAsked, pending, rccCalls>>
gpioVars == <<port, pin, frozen, driven, gpioCalls>>
numberVars == <<conns, udpPorts, listenPorts, lastport>>
busVars == <<chip, driver, told, misread, cameIn>>
stackVars == <<arpVars, fwVars, libVars, rttVars, ipVars, numberVars>>
vendorVars == <<serialVars, spiVars, rccVars, gpioVars>>
boardSideVars == <<encVars, boardVars, busVars, vendorVars>>

\* The instances that have not been chosen are not there: their variables are 0.
MCInit ==
  /\ part \in {"Timers", "Heap", "Memory", "Binary", "Controller", "Arp", "Forwarding", "Library",
               "RoundTrip", "Board", "Serial", "Spi", "Clocks", "Pins", "Bus", "Ip", "Ports"}
  /\ TmrInit /\ CoCreateKheap /\ MemoryInit /\ BinaryInit /\ EncInit
  /\ ArpInit /\ FwInit /\ LibInit /\ RttInit /\ IpInit /\ BoardInit
  /\ IF part = "Serial" THEN Serial!UsartInit
     ELSE /\ serialClk = 0 /\ serialRegs = 0 /\ serialAsked = 0 /\ serialRate = 0 /\ serialRaised = 0
          /\ usartCalls = 0
  /\ IF part = "Spi" THEN Spis!SpiInit
     ELSE /\ spiClk = 0 /\ spiRegs = 0 /\ spiAsked = 0 /\ inited = 0 /\ wiped = 0 /\ audio = 0 /\ spiRaised = 0
          /\ spiCalls = 0
  /\ IF part = "Clocks" THEN Clocks!RccInit
     ELSE rccRegs = 0 /\ rccAsked = 0 /\ pending = 0 /\ rccCalls = 0
  /\ IF part = "Pins" THEN Pads!GpioInit
     ELSE port = 0 /\ pin = 0 /\ frozen = 0 /\ driven = 0 /\ gpioCalls = 0
  /\ IF part = "Bus" THEN Bus!EncSpiInit
     ELSE chip = 0 /\ driver = 0 /\ told = 0 /\ misread = 0 /\ cameIn = 0
  /\ IF part = "Ports" THEN Numbers!PortsInit
     ELSE conns = 0 /\ udpPorts = 0 /\ listenPorts = 0 /\ lastport = 0

TimersStep ==
  part = "Timers" /\ TmrNext /\ UNCHANGED <<part, heapVars, memoryVars, binaryVars, stackVars, boardSideVars>>
HeapStep ==
  part = "Heap" /\ HeapNext /\ UNCHANGED <<part, tmrVars, memoryVars, binaryVars, stackVars, boardSideVars>>
MemoryStep ==
  part = "Memory" /\ MemoryNext /\ UNCHANGED <<part, tmrVars, heapVars, binaryVars, stackVars, boardSideVars>>
BinaryStep ==
  part = "Binary" /\ BinaryNext /\ UNCHANGED <<part, tmrVars, heapVars, memoryVars, stackVars, boardSideVars>>
ArpStep ==
  /\ part = "Arp" /\ ArpNext
  /\ UNCHANGED <<part, kernelVars, fwVars, libVars, rttVars, ipVars, numberVars, boardSideVars>>
ForwardingStep ==
  /\ part = "Forwarding" /\ FwNext
  /\ UNCHANGED <<part, kernelVars, arpVars, libVars, rttVars, ipVars, numberVars, boardSideVars>>
LibraryStep ==
  /\ part = "Library" /\ LibNext
  /\ UNCHANGED <<part, kernelVars, arpVars, fwVars, rttVars, ipVars, numberVars, boardSideVars>>
RoundTripStep ==
  /\ part = "RoundTrip" /\ RttNext
  /\ UNCHANGED <<part, kernelVars, arpVars, fwVars, libVars, ipVars, numberVars, boardSideVars>>
ControllerStep ==
  part = "Controller" /\ EncNext /\ UNCHANGED <<part, kernelVars, stackVars, boardVars, busVars, vendorVars>>
BoardStep ==
  part = "Board" /\ BoardNext /\ UNCHANGED <<part, kernelVars, stackVars, encVars, busVars, vendorVars>>
BusStep ==
  part = "Bus" /\ Bus!EncSpiNext /\ UNCHANGED <<part, kernelVars, stackVars, encVars, boardVars, vendorVars>>
IpStep ==
  /\ part = "Ip" /\ IpNext
  /\ UNCHANGED <<part, kernelVars, arpVars, fwVars, libVars, rttVars, numberVars, boardSideVars>>
PortsStep ==
  /\ part = "Ports" /\ Numbers!PortsNext
  /\ UNCHANGED <<part, kernelVars, arpVars, fwVars, libVars, rttVars, ipVars, boardSideVars>>
SerialStep ==
  /\ part = "Serial" /\ Serial!UsartNext
  /\ UNCHANGED <<part, kernelVars, stackVars, encVars, boardVars, busVars, spiVars, rccVars, gpioVars>>
SpiStep ==
  /\ part = "Spi" /\ Spis!SpiNext
  /\ UNCHANGED <<part, kernelVars, stackVars, encVars, boardVars, busVars, serialVars, rccVars, gpioVars>>
ClocksStep ==
  /\ part = "Clocks" /\ Clocks!RccNext
  /\ UNCHANGED <<part, kernelVars, stackVars, encVars, boardVars, busVars, serialVars, spiVars, gpioVars>>
PinsStep ==
  /\ part = "Pins" /\ Pads!GpioNext
  /\ UNCHANGED <<part, kernelVars, stackVars, encVars, boardVars, busVars, serialVars, spiVars, rccVars>>

\* The calls to a vendor driver are bounded, and end.
CallsEnd ==
  /\ \/ part = "Serial" /\ usartCalls = UsartCalls
     \/ part = "Spi" /\ spiCalls.left = 0
     \/ part = "Clocks" /\ rccCalls.left = 0
     \/ part = "Pins" /\ gpioCalls = GpioCalls
  /\ UNCHANGED <<part, kernelVars, stackVars, boardSideVars>>

MCNext ==
  \/ TimersStep \/ HeapStep \/ MemoryStep \/ BinaryStep
  \/ ArpStep \/ ForwardingStep \/ LibraryStep \/ RoundTripStep
  \/ IpStep \/ PortsStep
  \/ ControllerStep \/ BusStep \/ BoardStep
  \/ SerialStep \/ SpiStep \/ ClocksStep \/ PinsStep \/ CallsEnd
MCSpec == MCInit /\ [][MCNext]_<<part, kernelVars, stackVars, boardSideVars>>

\* Two states of one part differ in the variables of that part.
MCView ==
  <<part,
    CASE part = "Timers" -> tmrVars [] part = "Heap" -> heapVars [] part = "Memory" -> memoryVars
      [] part = "Binary" -> binaryVars [] part = "Arp" -> arpVars [] part = "Forwarding" -> fwVars
      [] part = "Library" -> libVars [] part = "RoundTrip" -> rttVars [] part = "Controller" -> encVars
      [] part = "Board" -> boardVars [] part = "Bus" -> busVars [] part = "Serial" -> serialVars
      [] part = "Spi" -> spiVars [] part = "Clocks" -> rccVars [] part = "Pins" -> gpioVars
      [] part = "Ip" -> ipVars [] part = "Ports" -> numberVars>>

---------------------------------------------------------------------------
\* Whatever the calls made of the vendor drivers before, in whatever order, every
\* field of a register that a call did not name is as it was last asked to be, and
\* one it named is as it asked, but for what the reference manual has the hardware
\* change, and for the CRC length, which SPI_Init clears though its mask is said to
\* name other bits (stm32f0xx_usart.c, _spi.c, _rcc.c, _gpio.c).
SettingsKept ==
  /\ part = "Serial" => Serial!UsartKept
  /\ part = "Spi" => Spis!SpiKept
  /\ part = "Clocks" => Clocks!RccKept
  /\ part = "Pins" => Pads!GpioKept

\* The baud rate and the audio rate the registers make of the clock are those asked
\* for, to the nearest divider, and RCC_GetClocksFreq and SystemCoreClockUpdate tell
\* the clocks that the clock tree feeds.
RatesAreRight ==
  /\ part = "Serial" => Serial!BaudIsRight
  /\ part = "Spi" => Spis!AudioIsRight
  /\ part = "Clocks" => Clocks!ClocksAreTold

\* The IP layer takes in only what came whole and sends only what its receiver will
\* take in, and a segment or a datagram has one owner (uip.c, uip-fw.c).
StackIsSound ==
  /\ PacketsVerify
  /\ part = "Ports" => Numbers!OneOwner

\* The Ethernet driver reaches the register, the PHY and the frame it means to,
\* through banks, restarts, frames that come in and transmissions that fail
\* (enc28j60.c).
RightRegister == part = "Bus" => Bus!RightRegister
=============================================================================
