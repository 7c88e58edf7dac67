------------------------------- MODULE UipTcp -------------------------------
(***************************************************************************)
(* TCP of uIP (uip.c) as the server of hello-world: the connection table,  *)
(* uip_process() for a segment and for the periodic timer, the calls to    *)
(* the application.  An action is one call of uip_process().  It takes the *)
(* segment from rx and leaves its answer, if any, in tx.                   *)
(*                                                                         *)
(* The initial sequence number is any of ISS: the code counts timer calls. *)
(* The time-out of a connection with outstanding data is any call of the   *)
(* timer: UipRtt models how rto, timer and the round trip estimate run.    *)
(* uip_stop() and urgent data, which the application does not use, IPv6,   *)
(* UDP and reassembly, which uip-conf.h leaves out, are not here.          *)
(***************************************************************************)
EXTENDS HelloWorld, FiniteSets

CONSTANTS
  Peers,             \* a remote address and port
  Slots,             \* the indices of uip_conns, 1 .. UIP_CONNS
  ISS, SeqSpace,     \* sequence numbers are counted modulo SeqSpace
  UIP_TCP_MSS, UIP_RECEIVE_WINDOW,
  Rtos,              \* the values rto can have: see UipRtt
  UIP_MAXRTX, UIP_MAXSYNRTX, UIP_TIME_WAIT_TIMEOUT,
  Wires              \* bounds on the segments in flight to and from the server

ASSUME TcpAssumption ==
  /\ Slots = 1 .. Cardinality(Slots)
  /\ SeqSpace \in Nat \ {0} /\ ISS \subseteq 0 .. SeqSpace - 1
  /\ UIP_TCP_MSS \in Nat \ {0} /\ UIP_RECEIVE_WINDOW \in Nat
  /\ UIP_MAXSYNRTX \in Nat /\ UIP_MAXRTX \in Nat /\ UIP_TIME_WAIT_TIMEOUT \in Nat \ {0}
  /\ Rtos \subseteq 0 .. UIP_TIME_WAIT_TIMEOUT - 1
  /\ Wires \subseteq [rx : Nat \ {0}, tx : Nat \ {0}, peers : SUBSET Peers]

VARIABLES
  uip_conns, appstate,
  rx, tx,            \* the segments in flight
  wires              \* how many there may be and whose, one of Wires for ever
tcpVars == <<uip_conns, appstate, rx, tx, wires>>

Seqs == 0 .. SeqSpace - 1
uip_add32(n, k) == (n + k) % SeqSpace

\* peer is lport, rport and ripaddr; timer only counts in TIME_WAIT and FIN_WAIT_2.
Unused == [state |-> "CLOSED", peer |-> "none", snd_nxt |-> 0, rcv_nxt |-> 0, len |-> 0,
           timer |-> 0, nrtx |-> 0, mss |-> 0, initialmss |-> 0]

uip_init ==
  /\ uip_conns = [i \in Slots |-> Unused]
  /\ appstate = [i \in Slots |-> NewSocket]
  /\ rx = {} /\ tx = {} /\ wires \in Wires

---------------------------------------------------------------------------
(* Segments *)

\* mss is the option of a SYN, 0 when there is none.
Segment(p, flags, seq, ack, data, wnd, mss) ==
  [peer |-> p, flags |-> flags, seq |-> seq, ack |-> ack, data |-> data, wnd |-> wnd, mss |-> mss]

\* The segments an answer adds to the wire, which loses what is too much for it.
Carried(answer) ==
  IF answer = <<>> \/ Cardinality(tx) = wires.tx THEN tx ELSE tx \cup {answer[1]}

Takes(s, answer) == rx' = rx \ {s} /\ tx' = Carried(answer)

\* tcp_send: the header is filled in from the connection.
Reply(c, flags, data) ==
  <<Segment(c.peer, flags, c.snd_nxt, c.rcv_nxt, data, UIP_RECEIVE_WINDOW, 0)>>
SynAck(c) == <<Segment(c.peer, {"SYN", "ACK"}, c.snd_nxt, c.rcv_nxt, <<>>, UIP_RECEIVE_WINDOW, UIP_TCP_MSS)>>
FinAck(c) == Reply(c, {"FIN", "ACK"}, <<>>)
Ack(c) == Reply(c, {"ACK"}, <<>>)
Silence == <<>>

\* label reset: sequence and acknowledge number change places.
Reset(s) ==
  IF "RST" \in s.flags THEN Silence
  ELSE <<Segment(s.peer, {"RST", "ACK"}, s.ack, uip_add32(s.seq, 1), <<>>, UIP_RECEIVE_WINDOW, 0)>>

---------------------------------------------------------------------------
(* The connection table *)

Open(c) == c.state # "CLOSED"
Matches(s) == {i \in Slots : Open(uip_conns[i]) /\ uip_conns[i].peer = s.peer}
First(indices) == CHOOSE i \in indices : \A j \in indices : i <= j

\* found_listen: the first CLOSED slot, or the oldest in TIME_WAIT before it.
Spare ==
  LET closed == {i \in Slots : ~Open(uip_conns[i])}
      waiting == {i \in Slots : uip_conns[i].state = "TIME_WAIT"}
      oldest == {i \in waiting : \A j \in waiting : uip_conns[i].timer >= uip_conns[j].timer}
  IN IF closed # {} THEN {First(closed)} ELSE IF oldest # {} THEN {First(oldest)} ELSE {}

\* The connection becomes c, the application's state ps.
Becomes(i, c, ps) ==
  /\ uip_conns' = [uip_conns EXCEPT ![i] = c]
  /\ appstate' = [appstate EXCEPT ![i] = ps]

---------------------------------------------------------------------------
(* Segments that match no connection *)

\* Any segment but a SYN alone, of a connection that is not there.
RcvStray(s) ==
  /\ Matches(s) = {} /\ s.flags # {"SYN"}
  /\ Takes(s, Reset(s))
  /\ UNCHANGED <<uip_conns, appstate>>

\* A SYN for the listening port when no connection is to be had: dropped in
\* the hope that the remote end will send it again.
RcvSynBusy(s) ==
  /\ Matches(s) = {} /\ s.flags = {"SYN"} /\ Spare = {}
  /\ Takes(s, Silence)
  /\ UNCHANGED <<uip_conns, appstate>>

\* Without the option the last connection's mss stays (0 at first).
RcvSyn(s) ==
  /\ Matches(s) = {} /\ s.flags = {"SYN"}
  /\ \E i \in Spare, iss \in ISS :
       LET old == uip_conns[i]
           mss == IF s.mss = 0 THEN old.mss ELSE IF s.mss > UIP_TCP_MSS THEN UIP_TCP_MSS ELSE s.mss
           c == [state |-> "SYN_RCVD", peer |-> s.peer, snd_nxt |-> iss,
                 rcv_nxt |-> uip_add32(s.seq, 1), len |-> 1, timer |-> 0, nrtx |-> 0, mss |-> mss,
                 initialmss |-> IF s.mss = 0 THEN old.initialmss ELSE mss]
       IN Becomes(i, c, appstate[i]) /\ Takes(s, SynAck(c))

---------------------------------------------------------------------------
(* What the application made of an event: label appsend *)

\* The bytes at uip_sappdata when n bytes of it are sent: what the application
\* put there, and what the buffer held behind it.
Payload(out, n) == [k \in 1 .. n |-> IF k <= Len(out) THEN out[k] ELSE NUL]

\* apprexmit: data if the application gave some, else an ACK for new data.
AppRexmit(c, x) ==
  IF x.out # <<>> /\ c.len > 0 THEN Reply(c, {"ACK"}, Payload(x.out, c.len))
  ELSE IF "NEWDATA" \in x.flags THEN Ack(c) ELSE Silence

Sending(c, x) ==
  LET len == IF "ACKDATA" \in x.flags THEN 0 ELSE c.len
  IN [c EXCEPT !.len = IF x.out = <<>> THEN @ ELSE IF len = 0 THEN Len(FirstBytes(x.out, c.mss)) ELSE len,
               !.nrtx = 0]
Aborting(c) == [c EXCEPT !.state = "CLOSED"]
Closing(c) == [c EXCEPT !.state = "FIN_WAIT_1", !.len = 1, !.nrtx = 0]

AfterApp(c, x) ==
  IF "ABORT" \in x.flags THEN Aborting(c) ELSE IF "CLOSE" \in x.flags THEN Closing(c) ELSE Sending(c, x)
AppAnswer(c, x) ==
  IF "ABORT" \in x.flags THEN Reply(c, {"RST", "ACK"}, <<>>)
  ELSE IF "CLOSE" \in x.flags THEN FinAck(c) ELSE AppRexmit(AfterApp(c, x), x)

---------------------------------------------------------------------------
(* Segments of a connection: label found *)

Expected(c, s) == (s.data # <<>> \/ s.flags \cap {"SYN", "FIN"} # {}) => s.seq = c.rcv_nxt

\* A slip to rule out: an acknowledgement of less, or of old data, will do.
AcksAnything(c, s) == "ACK" \in s.flags /\ c.len > 0

\* All outstanding data is acknowledged, or none: nothing between is looked at.
AcksAll(c, s) == "ACK" \in s.flags /\ c.len > 0 /\ s.ack = uip_add32(c.snd_nxt, c.len)
AckData(c, s) == IF AcksAll(c, s) THEN {"ACKDATA"} ELSE {}
Acked(c, s) == IF AcksAll(c, s) THEN [c EXCEPT !.snd_nxt = s.ack, !.len = 0] ELSE c
uip_add_rcv_nxt(c, n) == [c EXCEPT !.rcv_nxt = uip_add32(@, n)]
NewDataFlag(s) == IF s.data # <<>> THEN {"NEWDATA"} ELSE {}

Found(i, s) == Matches(s) # {} /\ i = First(Matches(s))
InState(i, s, state) ==
  /\ Found(i, s) /\ uip_conns[i].state = state
  /\ "RST" \notin s.flags /\ Expected(uip_conns[i], s)

\* Any reset is accepted.
RcvRst(i, s) ==
  /\ Found(i, s) /\ "RST" \in s.flags
  /\ LET c == uip_conns[i] IN
     Becomes(i, [c EXCEPT !.state = "CLOSED"], AppCall(appstate[i], {"ABORT"}, <<>>, c.mss).ps)
  /\ Takes(s, Silence)

RcvUnexpected(i, s) ==
  /\ Found(i, s) /\ "RST" \notin s.flags /\ ~Expected(uip_conns[i], s)
  /\ Takes(s, Ack(uip_conns[i]))
  /\ UNCHANGED <<uip_conns, appstate>>

RcvSynRcvd(i, s) ==
  /\ InState(i, s, "SYN_RCVD")
  /\ LET old == uip_conns[i]
         c == [uip_add_rcv_nxt(Acked(old, s), Len(s.data)) EXCEPT !.state = "ESTABLISHED"]
         x == AppCall(appstate[i], {"CONNECTED"} \cup NewDataFlag(s), s.data, c.mss)
     IN IF AcksAll(old, s)
        THEN Becomes(i, AfterApp(c, x), x.ps) /\ Takes(s, AppAnswer(c, x))
        ELSE UNCHANGED <<uip_conns, appstate>> /\ Takes(s, Silence)

\* The window becomes the mss unless it is zero or above the initial one.
Windowed(c, s) == [c EXCEPT !.mss = IF s.wnd > c.initialmss \/ s.wnd = 0 THEN c.initialmss ELSE s.wnd]

RcvEstablished(i, s) ==
  /\ InState(i, s, "ESTABLISHED") /\ "FIN" \notin s.flags
  /\ LET old == uip_conns[i]
         c == Windowed(uip_add_rcv_nxt(Acked(old, s), Len(s.data)), s)
         event == AckData(old, s) \cup NewDataFlag(s)
         x == AppCall(appstate[i], event, s.data, c.mss)
     IN IF event # {}
        THEN Becomes(i, AfterApp(c, x), x.ps) /\ Takes(s, AppAnswer(c, x))
        ELSE Becomes(i, c, appstate[i]) /\ Takes(s, Silence)

\* A slip to rule out: a FIN is taken although data is outstanding.
CloseAtOnce(i, s) ==
  /\ InState(i, s, "ESTABLISHED") /\ "FIN" \in s.flags
  /\ LET old == uip_conns[i]
         c == uip_add_rcv_nxt(Acked(old, s), 1 + Len(s.data))
         x == AppCall(appstate[i], AckData(old, s) \cup {"CLOSE"} \cup NewDataFlag(s), s.data, c.mss)
         last == [c EXCEPT !.state = "LAST_ACK", !.len = 1, !.nrtx = 0]
     IN Becomes(i, last, x.ps) /\ Takes(s, FinAck(last))

\* A FIN makes the application close, unless data is still outstanding: then
\* the peer has to send it again.
RcvFin(i, s) ==
  /\ InState(i, s, "ESTABLISHED") /\ "FIN" \in s.flags
  /\ LET old == uip_conns[i]
         c == uip_add_rcv_nxt(Acked(old, s), 1 + Len(s.data))
         x == AppCall(appstate[i], AckData(old, s) \cup {"CLOSE"} \cup NewDataFlag(s), s.data, c.mss)
         last == [c EXCEPT !.state = "LAST_ACK", !.len = 1, !.nrtx = 0]
     IN IF c.len > 0
        THEN Becomes(i, Acked(old, s), appstate[i]) /\ Takes(s, Silence)
        ELSE Becomes(i, last, x.ps) /\ Takes(s, FinAck(last))

RcvLastAck(i, s) ==
  /\ InState(i, s, "LAST_ACK")
  /\ LET old == uip_conns[i]
         c == Acked(old, s)
     IN IF AcksAll(old, s)
        THEN Becomes(i, [c EXCEPT !.state = "CLOSED"], AppCall(appstate[i], {"CLOSE"}, <<>>, c.mss).ps)
        ELSE UNCHANGED <<uip_conns, appstate>>
  /\ Takes(s, Silence)

RcvFinWait1(i, s) ==
  /\ InState(i, s, "FIN_WAIT_1")
  /\ LET old == uip_conns[i]
         c == uip_add_rcv_nxt(Acked(old, s), Len(s.data))
         fin == [uip_add_rcv_nxt(c, 1) EXCEPT !.state = IF AcksAll(old, s) THEN "TIME_WAIT" ELSE "CLOSING",
                                               !.timer = 0]
     IN IF "FIN" \in s.flags
        THEN /\ Becomes(i, fin, AppCall(appstate[i], {"CLOSE"}, s.data, c.mss).ps)
             /\ Takes(s, Ack(fin))
        ELSE IF AcksAll(old, s)
        THEN /\ \E rto \in Rtos : Becomes(i, [c EXCEPT !.state = "FIN_WAIT_2", !.timer = rto], appstate[i])
             /\ Takes(s, Silence)
        ELSE Becomes(i, c, appstate[i]) /\ Takes(s, IF s.data # <<>> THEN Ack(c) ELSE Silence)

RcvFinWait2(i, s) ==
  /\ InState(i, s, "FIN_WAIT_2")
  /\ LET c == uip_add_rcv_nxt(uip_conns[i], Len(s.data))
         fin == [uip_add_rcv_nxt(c, 1) EXCEPT !.state = "TIME_WAIT", !.timer = 0]
     IN IF "FIN" \in s.flags
        THEN Becomes(i, fin, AppCall(appstate[i], {"CLOSE"}, s.data, c.mss).ps) /\ Takes(s, Ack(fin))
        ELSE Becomes(i, c, appstate[i]) /\ Takes(s, IF s.data # <<>> THEN Ack(c) ELSE Silence)

RcvTimeWait(i, s) ==
  /\ InState(i, s, "TIME_WAIT")
  /\ Takes(s, Ack(uip_conns[i]))
  /\ UNCHANGED <<uip_conns, appstate>>

RcvClosing(i, s) ==
  /\ InState(i, s, "CLOSING")
  /\ LET old == uip_conns[i] IN
     Becomes(i, IF AcksAll(old, s) THEN [Acked(old, s) EXCEPT !.state = "TIME_WAIT", !.timer = 0] ELSE old,
             appstate[i])
  /\ Takes(s, Silence)

uip_input(s) ==
  \/ RcvStray(s) \/ RcvSynBusy(s) \/ RcvSyn(s)
  \/ \E i \in Slots :
       \/ RcvRst(i, s) \/ RcvUnexpected(i, s) \/ RcvSynRcvd(i, s) \/ RcvEstablished(i, s)
       \/ RcvFin(i, s) \/ RcvLastAck(i, s) \/ RcvFinWait1(i, s) \/ RcvFinWait2(i, s)
       \/ RcvTimeWait(i, s) \/ RcvClosing(i, s)

---------------------------------------------------------------------------
(* uip_periodic() *)

\* A state that only waits for its time to be over.
WaitOut(i) ==
  /\ uip_conns[i].state \in {"TIME_WAIT", "FIN_WAIT_2"}
  /\ uip_conns' = [uip_conns EXCEPT ![i].timer = @ + 1,
       ![i].state = IF uip_conns[i].timer + 1 = UIP_TIME_WAIT_TIMEOUT THEN "CLOSED" ELSE @]
  /\ UNCHANGED <<appstate, rx, tx>>

Waits(i) == uip_conns[i].state \in {"TIME_WAIT", "FIN_WAIT_2", "CLOSED"}
GivesUp(c) == c.nrtx = UIP_MAXRTX \/ (c.state = "SYN_RCVD" /\ c.nrtx = UIP_MAXSYNRTX)

TimeOut(i) ==
  /\ ~Waits(i) /\ uip_conns[i].len > 0 /\ GivesUp(uip_conns[i])
  /\ LET c == [uip_conns[i] EXCEPT !.state = "CLOSED"] IN
     /\ Becomes(i, c, AppCall(appstate[i], {"TIMEDOUT"}, <<>>, c.mss).ps)
     /\ tx' = Carried(Reply(c, {"RST", "ACK"}, <<>>))
  /\ UNCHANGED rx

\* A slip to rule out: the tries are not counted.
RetransmitForEver(i) ==
  /\ ~Waits(i) /\ uip_conns[i].len > 0 /\ ~GivesUp(uip_conns[i])
  /\ LET c == uip_conns[i]
         x == AppCall(appstate[i], {"REXMIT"}, <<>>, c.mss)
         again == IF c.state = "SYN_RCVD" THEN SynAck(c) ELSE IF c.state = "ESTABLISHED" THEN AppRexmit(c, x)
                  ELSE FinAck(c)
     IN /\ Becomes(i, c, IF c.state = "ESTABLISHED" THEN x.ps ELSE appstate[i])
        /\ tx' = Carried(again)
  /\ UNCHANGED rx

Retransmit(i) ==
  /\ ~Waits(i) /\ uip_conns[i].len > 0 /\ ~GivesUp(uip_conns[i])
  /\ LET c == [uip_conns[i] EXCEPT !.nrtx = @ + 1]
         x == AppCall(appstate[i], {"REXMIT"}, <<>>, c.mss)
         again == CASE c.state = "SYN_RCVD" -> SynAck(c)
                    [] c.state = "ESTABLISHED" -> AppRexmit(c, x)
                    [] c.state \in {"FIN_WAIT_1", "CLOSING", "LAST_ACK"} -> FinAck(c)
     IN /\ Becomes(i, c, IF c.state = "ESTABLISHED" THEN x.ps ELSE appstate[i])
        /\ tx' = Carried(again)
  /\ UNCHANGED rx

Poll(i) ==
  /\ uip_conns[i].state = "ESTABLISHED" /\ uip_conns[i].len = 0
  /\ LET c == uip_conns[i]
         x == AppCall(appstate[i], {"POLL"}, <<>>, c.mss)
     IN /\ Becomes(i, AfterApp(c, x), x.ps)
        /\ tx' = Carried(AppAnswer(c, x))
  /\ UNCHANGED rx

uip_periodic(i) == WaitOut(i) \/ TimeOut(i) \/ Retransmit(i) \/ Poll(i)
=============================================================================
