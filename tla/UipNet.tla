------------------------------- MODULE UipNet -------------------------------
(***************************************************************************)
(* UipTcp and the hosts it serves, over wires that lose and reorder        *)
(* segments; both ends repeat theirs.  A peer is not this program: it is   *)
(* TCP as RFC 793 has it, cut down to a client that sends one line and     *)
(* closes.  Its stream is counted in offsets: 0 is its SYN, 1 .. n its     *)
(* bytes, n + 1 its FIN.                                                   *)
(***************************************************************************)
EXTENDS UipTcp

CONSTANTS
  Line,          \* what a peer sends, up to the end of line
  PeerISS,       \* its initial sequence number
  Windows,       \* the windows and MSS options peers send (0: no option)
  MssOptions,
  Eager          \* the peers that speak and close without waiting for the server

VARIABLE peer
vars == <<uip_conns, appstate, rx, tx, wires, peer>>

ASSUME NetAssumption ==
  /\ Line \in Seq(Bytes) \ {<<>>} /\ Len(Line) < BufSize
  /\ PeerISS \in Seqs /\ Eager \subseteq Peers

EndOfLine == Len(Line)
Unopened == [st |-> "unopened", una |-> 0, nxt |-> 0, rcv |-> 0, got |-> <<>>, fin |-> FALSE]

Gone == [Unopened EXCEPT !.st = "closed"]

Init == uip_init /\ peer = [p \in Peers |-> Unopened]

---------------------------------------------------------------------------
(* The peers *)

Offset(n) == uip_add32(PeerISS, n)
Sends(seg) == rx' = IF Cardinality(rx) = wires.rx THEN rx ELSE rx \cup {seg}

\* What peer p has to send from offset a on, in one segment.
FromPeer(p, a, b, wnd) ==
  LET h == peer[p]
      bytes == SubSeq(Line, IF a = 0 THEN 1 ELSE a, IF b - 1 < EndOfLine THEN b - 1 ELSE EndOfLine)
  IN IF h.st = "synsent" THEN Segment(p, {"SYN"}, PeerISS, 0, <<>>, wnd, 0)
     ELSE Segment(p, {"ACK"} \cup (IF b = EndOfLine + 2 THEN {"FIN"} ELSE {}), Offset(a), h.rcv,
                  IF a = b THEN <<>> ELSE bytes, wnd, 0)

\* A port is used for one connection: TCP keeps it from new ones while old
\* segments may live.
PeerOpen(p) ==
  /\ peer[p].st = "unopened" /\ p \in wires.peers
  /\ peer' = [peer EXCEPT ![p] = [Unopened EXCEPT !.st = "synsent", !.nxt = 1]]
  /\ \E w \in Windows, m \in MssOptions : Sends(Segment(p, {"SYN"}, PeerISS, 0, <<>>, w, m))
  /\ UNCHANGED <<uip_conns, appstate, tx>>

MayTalk(p) == p \in Eager \/ Len(peer[p].got) >= Len(Greeting)

PeerSpeak(p) ==
  /\ peer[p].st = "open" /\ peer[p].nxt = 1 /\ MayTalk(p)
  /\ peer' = [peer EXCEPT ![p].nxt = EndOfLine + 1]
  /\ \E w \in Windows : Sends(FromPeer(p, 1, EndOfLine + 1, w))
  /\ UNCHANGED <<uip_conns, appstate, tx>>

\* A peer closes when the server has, or at any time if it is eager.
PeerClose(p) ==
  /\ peer[p].st = "open" /\ peer[p].nxt = EndOfLine + 1
  /\ peer[p].fin \/ p \in Eager
  /\ peer' = [peer EXCEPT ![p].nxt = EndOfLine + 2]
  /\ \E w \in Windows : Sends(FromPeer(p, EndOfLine + 1, EndOfLine + 2, w))
  /\ UNCHANGED <<uip_conns, appstate, tx>>

PeerRetransmit(p) ==
  /\ peer[p].st \in {"synsent", "open"} /\ peer[p].una < peer[p].nxt
  /\ \E w \in Windows, m \in MssOptions :
       Sends([FromPeer(p, peer[p].una, peer[p].nxt, w) EXCEPT !.mss = IF peer[p].una = 0 THEN m ELSE 0])
  /\ UNCHANGED <<uip_conns, appstate, tx, peer>>

\* The peer is gone: switched off, or done with a connection both have closed.
PeerGone(p) ==
  /\ peer[p].st \in {"synsent", "open"}
  /\ peer' = [peer EXCEPT ![p] = Gone]
  /\ UNCHANGED <<uip_conns, appstate, rx, tx>>

\* The acknowledgement of s, as an offset of p's stream: what it had before
\* unless s acknowledges something it has sent.
Confirmed(p, s) ==
  LET offsets == {n \in peer[p].una .. peer[p].nxt : s.ack = Offset(n)}
  IN IF "ACK" \in s.flags /\ offsets # {} THEN CHOOSE n \in offsets : TRUE ELSE peer[p].una

InOrder(p, s) == s.seq = peer[p].rcv

PeerReceive(p, s) ==
  LET h == peer[p]
      answer(g, w) == Segment(p, {"ACK"}, Offset(g.nxt), g.rcv, <<>>, w, 0)
      reset == Segment(p, {"RST"}, s.ack, 0, <<>>, 0, 0)
      Turns(g) == peer' = [peer EXCEPT ![p] = g]
  IN
  /\ s.peer = p
  /\ tx' = tx \ {s}
  /\ UNCHANGED <<uip_conns, appstate>>
  /\ CASE h.st = "closed" ->
            IF "RST" \in s.flags THEN UNCHANGED <<rx, peer>> ELSE Sends(reset) /\ UNCHANGED peer
       [] h.st = "synsent" /\ s.ack # Offset(1) ->
            IF "RST" \in s.flags THEN UNCHANGED <<rx, peer>> ELSE Sends(reset) /\ UNCHANGED peer
       [] h.st = "synsent" /\ s.ack = Offset(1) ->
            IF "RST" \in s.flags THEN Turns(Gone) /\ UNCHANGED rx
            ELSE IF "SYN" \notin s.flags THEN UNCHANGED <<rx, peer>>
            ELSE LET g == [h EXCEPT !.st = "open", !.una = 1, !.rcv = uip_add32(s.seq, 1)]
                 IN Turns(g) /\ \E w \in Windows : Sends(answer(g, w))
       [] h.st = "open" /\ ~InOrder(p, s) ->
            IF "RST" \in s.flags \/ (s.flags = {"ACK"} /\ s.data = <<>>) THEN UNCHANGED <<rx, peer>>
            ELSE UNCHANGED peer /\ \E w \in Windows : Sends(answer(h, w))
       [] h.st = "open" /\ InOrder(p, s) ->
            IF "RST" \in s.flags THEN Turns(Gone) /\ UNCHANGED rx
            ELSE LET ends == "FIN" \in s.flags
                     size == Len(s.data) + (IF ends THEN 1 ELSE 0)
                     g == [h EXCEPT !.una = Confirmed(p, s), !.rcv = uip_add32(@, size),
                                    !.got = @ \o s.data, !.fin = @ \/ ends]
                 IN Turns(g) /\ IF size = 0 THEN UNCHANGED rx ELSE \E w \in Windows : Sends(answer(g, w))

\* A segment is lost on its way.
Lose ==
  \/ \E s \in rx : rx' = rx \ {s} /\ UNCHANGED <<uip_conns, appstate, tx, peer>>
  \/ \E s \in tx : tx' = tx \ {s} /\ UNCHANGED <<uip_conns, appstate, rx, peer>>

Remote(p) ==
  \/ PeerOpen(p) \/ PeerSpeak(p) \/ PeerClose(p) \/ PeerRetransmit(p) \/ PeerGone(p)
  \/ \E s \in tx : PeerReceive(p, s)

---------------------------------------------------------------------------
(* The server: uip_input() of a segment received, uip_periodic() *)

Input == \E s \in rx : uip_input(s) /\ UNCHANGED peer
Periodic(i) == uip_periodic(i) /\ UNCHANGED peer

World == (\E p \in Peers : Remote(p)) \/ Lose

Next == (Input \/ (\E i \in Slots : Periodic(i)) \/ World) /\ UNCHANGED wires

Spec == Init /\ [][Next]_vars

\* uip_periodic() is called for every connection every interval.
LiveSpec == Spec /\ \A i \in Slots : WF_vars(Periodic(i) /\ UNCHANGED wires)

\* The shipped main loop only takes what the driver has received.
Taken == \E s \in rx : rx' = rx \ {s}
ShippedSpec == Init /\ [][(Input \/ World) /\ UNCHANGED wires]_vars /\ WF_rx(Taken)

---------------------------------------------------------------------------
(* Properties *)

Serves(i, p) == Open(uip_conns[i]) /\ uip_conns[i].peer = p /\ peer[p].st = "open"
Said(ps) == Greeting \o Hello \o ps.name
Ended == {"FIN_WAIT_1", "FIN_WAIT_2", "CLOSING", "TIME_WAIT"}

\* Whatever is lost, repeated or reordered, what a peer has received is the
\* beginning of what the application said to it, byte for byte
\* (psock_send's DATA_SENT and REXMIT, uip_process' len and snd_nxt).
StreamsAgree ==
  \A i \in Slots, p \in Peers :
    Serves(i, p) => IsPrefix(peer[p].got,
                             IF uip_conns[i].state = "ESTABLISHED" /\ appstate[i].pt \in {"greet", "read"}
                             THEN Greeting ELSE Said(appstate[i]))

\* A connection the application closes has delivered all of the answer, to the
\* line that was read (psock_close after psock_send has been acknowledged).
CloseMeansDelivered ==
  \A i \in Slots, p \in Peers :
    Serves(i, p) /\ uip_conns[i].state \in Ended => peer[p].got = Greeting \o Hello \o Line

\* A peer that is told the stream is at its end has all of the messages the
\* application had begun to send: a FIN waits for what is outstanding.
EndIsTheEnd ==
  \A p \in Peers : peer[p].fin => peer[p].got \in {Greeting, Greeting \o Hello, Greeting \o Hello \o Line}

\* What a patient peer knows to be received the application has read: uIP
\* acknowledges data before the application has looked at it.
AckedLineRead ==
  \A i \in Slots, p \in Peers \ Eager :
    Serves(i, p) /\ uip_conns[i].state = "ESTABLISHED" /\ peer[p].una > EndOfLine
      => appstate[i].pt \in {"hello", "name"} /\ appstate[i].name = Line

\* Every slot that is on its way up or down is free again, or established,
\* some time: with the timer called, no peer and no wire can hold it.
SlotsComeBack ==
  \A i \in Slots : uip_conns[i].state \notin {"CLOSED", "ESTABLISHED"}
                     ~> uip_conns[i].state \in {"CLOSED", "ESTABLISHED"}
=============================================================================
