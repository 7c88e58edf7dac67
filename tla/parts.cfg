\* The parts that work alone, each on an instance of its own.
SPECIFICATION MCSpec
VIEW MCView
CONSTANTS
  NULL = NULL
  NoArea = NoArea
  NoFrame = NoFrame
  NoByte = NoByte
  CFG_MAX_TMR = 3
  Counts = {1, 2}
  Habits = {"lock", "count", "stopped"}
  MaxLate = 0
  KHEAP_SIZE = 18
  HeapSizes = {1, 2, 3, 5}
  CFG_MAX_MM = 2
  Users = {a, b}
  Managers = {a}
  Areas = {"large", "small"}
  blockNum <- BlocksOfArea
  Ids = {t1, t2, t3, t4}
  Prios = {1, 2, 3}
  WordSize = 2
  PriorityOfReady = FALSE
  INVALID_ID = INVALID_ID
  BUFSIZE = 8
  RingSize = 4
  Frames = {"big", "ask", "bad"}
  SizeOf <- CellsOf
  Answered = {"ask", "big"}
  Broken = {"bad"}
  UIP_ARPTAB_SIZE = 2
  UIP_ARP_MAXAGE = 2
  ArpTimes = 4
  Hosts = {h1, router, half}
  HalfZero = {half}
  Zero = Zero
  uip_draddr = router
  Remote = Remote
  Macs = {m1, m2}
  BroadcastMac = BroadcastMac
  ZeroMac = ZeroMac
  FWCACHE_SIZE = 2
  FW_TIME = 2
  Nets = {"eth", "slip"}
  OnNet <- HostsOn
  TimeExceeded <- Notices
  FwPackets = {"p", "q", "exceeded", "all", "own"}
  Local = {"own"}
  Icmp = {"exceeded"}
  ToAll = {"all"}
  NoPacket = NoPacket
  NoNet = NoNet
  ClockRange = 16
  Intervals = {0, 2, 5}
  MaxLapse = 7
  SeqRange = 8
  FullSegment = 5
  TcpLengths = {1, 4, 5}
  TCPIP_HLEN = 2
  ByteRange = 64
  UIP_RTO = 3
  UIP_MAXRTX = 6
  UIP_TIME_WAIT_TIMEOUT = 30
  MaxRtt = 7
  HSI_VALUE = 8
  HSE_VALUE = 8
  PllMul = 6
  HSE_STARTUP_TIMEOUT = 2
  BaudRate = 3
  Data = {"C0", "C1"}
  MaxSent = 3
  USARTCLK = {8000000, 48000000}
  Bauds = {9600, 115200}
  Bytes = {0, 1, 170, 255}
  UsartCalls = 2
  SYSCLKs = {8000000, 48000000}
  AudioFreqs = {2, 44100, 192000}
  SpiCalls = 2
  ModeCalls = 3
  HSI = 8000000
  HSE = 8000000
  LSE = 32768
  HSI14 = 14000000
  PllMuls = {2, 6}
  Predivs = {1, 3}
  SysDivs = {1, 2, 64}
  HclkDivs = {1, 16}
  AnyCalls = 2
  TreeCalls = 7
  PinsTried = {7, 14}
  GpioCalls = 2
  LengthOf <- FrameOctets
  UIP_BUFSIZE = 420
  MaxFrames = 5
  OctetRange = 32
  IPV4 = 5
  UIP_TTL = 20
  uip_hostaddr = 40
  RemoteWord = 77
  OtherWord = 901
  RestsTried <- TriedOctets
  FewRests <- FewOctets
  Ttls = {1, 9}
  UdpBound <- UdpOpened
  UdpPorts = {3, 7}
  MaxIpid = 1
  FirstPort = 2
  WrapPort = 4
  LastPort = 7
  UIP_CONNS = 2
  UIP_UDP_CONNS = 2
  UIP_LISTENPORTS = 2
  Callers = {h1}
  CallerPorts = {1}
  WellKnown = {5}
  TimeWait = 2
INVARIANTS TimersKeepTime MemoryExact SameOrder DriverAgrees LatestClaim RemembersTheYoung LibraryIsRight EstimateFits LineIsRight SettingsKept RatesAreRight RightRegister StackIsSound
