SPECIFICATION LiveSpec
CONSTANTS
  Peers = {p1, p2}
  Slots = {1}
  ISS = {7}
  SeqSpace = 8
  Rtos = {1}
  UIP_TCP_MSS = 3
  UIP_RECEIVE_WINDOW = 3
  UIP_MAXRTX = 1
  UIP_MAXSYNRTX = 1
  UIP_TIME_WAIT_TIMEOUT = 2
  p1 = p1
  p2 = p2
  Wires <- MCWires
  BufSize = 3
  Greeting <- MCGreeting
  Hello <- MCHello
  Line <- MCLine
  PeerISS = 6
  Windows = {3}
  MssOptions = {3}
  Eager = {p2}
CHECK_DEADLOCK FALSE
INVARIANTS StreamsAgree CloseMeansDelivered AckedLineRead EndIsTheEnd
PROPERTIES SlotsComeBack
