------------------------------- MODULE UipIp -------------------------------
(***************************************************************************)
(* The IP layer of uIP (uip.c, and the packets uip-fw.c rewrites): what of *)
(* a packet is tested before it reaches TCP, UDP or ICMP, and the headers  *)
(* of what is sent.  Checksums are computed as the code does it, in words  *)
(* of two octets with the carry added back, on a processor that keeps the  *)
(* low octet first.  An octet is narrower than 8 bits, an address is one   *)
(* word, and the rest of a packet is octets without a meaning.             *)
(***************************************************************************)
EXTENDS Integers, Sequences, SequencesExt

CONSTANTS
  OctetRange,    \* values of an octet
  IPV4,          \* octet of version and header length
  UIP_TTL,
  uip_hostaddr, RemoteWord, OtherWord,
  RestsTried,         \* octets behind a checksum: sequences, of odd lengths too
  FewRests,          \* the few of them tried with everything else
  Ttls,          \* time to live of a packet that comes in
  UdpBound,      \* sequence of [lport, rport, ripaddr]
  UdpPorts,
  MaxIpid        \* bound on the packets numbered

ASSUME IpAssumption ==
  /\ OctetRange \in Nat /\ OctetRange > 17 /\ IPV4 \in 1 .. OctetRange - 1
  /\ UIP_TTL \in 2 .. OctetRange - 1 /\ Ttls \subseteq 0 .. OctetRange - 1
  /\ {uip_hostaddr, RemoteWord, OtherWord} \subseteq 1 .. OctetRange * OctetRange - 1
  /\ FewRests \subseteq RestsTried
  /\ \A i \in DOMAIN UdpBound : UdpBound[i].lport \in UdpPorts

VARIABLES
  ipPhase,      \* "idle", "in": a packet to look at, "out": looked at
  ipBuf, ipLen,
  ipid,
  arrived,      \* history: the packet that came in
  went          \* history: what became of it
ipVars == <<ipPhase, ipBuf, ipLen, ipid, arrived, went>>

UIP_PROTO_ICMP == 1
UIP_PROTO_TCP == 6
UIP_PROTO_UDP == 17
ICMP_ECHO == 8
ICMP_ECHO_REPLY == 0
ICMP_TE == 11
UIP_IPH_LEN == 16
UIP_UDPH_LEN == 8

---------------------------------------------------------------------------
(* Words and checksums *)

WordRange == OctetRange * OctetRange
HTONS(w) == ((w % OctetRange) * OctetRange) + (w \div OctetRange)
Inverted(w) == WordRange - 1 - w

\* An odd octet at the end counts as the high one of a word.
WordsOf(octets) ==
  [i \in 1 .. (Len(octets) + 1) \div 2 |->
     octets[2 * i - 1] * OctetRange + (IF 2 * i <= Len(octets) THEN octets[2 * i] ELSE 0)]
OctetsOf(words) ==
  [i \in 1 .. 2 * Len(words) |->
     IF i % 2 = 1 THEN words[(i + 1) \div 2] \div OctetRange ELSE words[i \div 2] % OctetRange]

AddWithCarry(sum, t) == LET s == (sum + t) % WordRange IN IF s < t THEN (s + 1) % WordRange ELSE s
chksum(sum, words) ==
  LET after[i \in 0 .. Len(words)] == IF i = 0 THEN sum ELSE AddWithCarry(after[i - 1], words[i])
  IN after[Len(words)]
uip_chksum(words) == HTONS(chksum(0, words))
NonZero(sum) == IF sum = 0 THEN WordRange - 1 ELSE HTONS(sum)

\* The words of a packet as they are sent: the checksums are kept as the processor
\* reads them, everything else as it is on the wire.
IpHeader(p) ==
  << p.vhl * OctetRange, p.len, p.ipid, p.ipoffset, p.ttl * OctetRange + p.proto,
     HTONS(p.ipchksum), p.src, p.dst >>
Upper(p) == p.head \o <<HTONS(p.chk)>> \o WordsOf(p.rest)

uip_ipchksum(p) == NonZero(chksum(0, IpHeader(p)))
upper_layer_chksum(p) ==
  NonZero(chksum(chksum(p.len - UIP_IPH_LEN + p.proto, <<p.src, p.dst>>), Upper(p)))

SealHeader(p) ==
  LET q == [p EXCEPT !.ipchksum = 0] IN [q EXCEPT !.ipchksum = Inverted(uip_ipchksum(q))]
SealTcp(p) ==
  LET q == [p EXCEPT !.chk = 0] IN [q EXCEPT !.chk = Inverted(upper_layer_chksum(q))]
\* No checksum is told from a checksum that is 0.
SealUdp(p) ==
  LET q == SealTcp(p) IN IF q.chk = 0 THEN [q EXCEPT !.chk = WordRange - 1] ELSE q

---------------------------------------------------------------------------
(* Packets that come in *)

SumOf(words) ==
  LET upto[i \in 0 .. Len(words)] == IF i = 0 THEN 0 ELSE upto[i - 1] + words[i]
  IN upto[Len(words)]
\* RFC 1071: the sum without its carries is a multiple of 2^16 - 1, and not 0.
Sound(words) == LET sum == SumOf(words) IN sum > 0 /\ sum % (WordRange - 1) = 0
Pseudo(p) == <<p.len - UIP_IPH_LEN + p.proto, p.src, p.dst>>
IsWhole(p) == Sound(IpHeader(p)) /\ Sound(Pseudo(p) \o Upper(p))

\* The word that makes the others sound.
Seal(words) == HTONS(WordRange - 1 - (SumOf(words) % (WordRange - 1)))

Headed(p) == LET q == [p EXCEPT !.ipchksum = 0] IN [q EXCEPT !.ipchksum = Seal(IpHeader(q))]
Packet(proto, head, rest, src, dst, ttl) ==
  [vhl |-> IPV4, len |-> UIP_IPH_LEN + 2 * (Len(head) + 1) + Len(rest), ipid |-> 0, ipoffset |-> 0,
   ttl |-> ttl, proto |-> proto, ipchksum |-> 0, src |-> src, dst |-> dst,
   head |-> head, chk |-> 0, rest |-> rest]
Summed(p) ==
  [p EXCEPT !.chk = Seal((IF p.proto = UIP_PROTO_ICMP THEN <<>> ELSE Pseudo(p)) \o Upper(p))]

Heads ==
  [proto : {UIP_PROTO_ICMP}, words : {<<ICMP_ECHO * OctetRange>>, <<ICMP_ECHO_REPLY * OctetRange>>}]
  \union [proto : {UIP_PROTO_TCP}, words : {<<5, 9>>}]
  \union [proto : {UIP_PROTO_UDP}, words : {<<s, d, 2>> : s, d \in UdpPorts}]
  \union [proto : {2}, words : {<<1>>}]

\* What the network does to a packet: nothing, or one thing.
IpDamaged(p) ==
  {p, [p EXCEPT !.chk = (@ + 1) % WordRange], [p EXCEPT !.ipchksum = (@ + 1) % WordRange],
   Headed([p EXCEPT !.vhl = IPV4 + 1]), Headed([p EXCEPT !.ipoffset = 1])}
  \union (IF p.proto = UIP_PROTO_UDP THEN {[p EXCEPT !.chk = 0]} ELSE {})

Arrives(h, rest, dst, ttl) ==
  Summed(Headed(Packet(h.proto, h.words, rest, RemoteWord, dst, ttl)))
IpReceive(p, more) ==
  /\ ipPhase' = "in" /\ went' = "none" /\ UNCHANGED ipid
  /\ ipBuf' = p /\ arrived' = p /\ ipLen' = p.len + more

\* A frame may be longer than its packet, and a packet cut short.
IpInput ==
  /\ ipPhase = "idle"
  /\ \E h \in Heads, dst \in {uip_hostaddr, OtherWord}, ttl \in Ttls :
       \/ \E rest \in RestsTried : IpReceive(Arrives(h, rest, dst, ttl), 0)
       \/ \E rest \in FewRests, more \in {-1, 0, 2} :
            \E p \in IpDamaged(Arrives(h, rest, dst, ttl)) : IpReceive(p, more)

---------------------------------------------------------------------------
(* uip_process *)

Looked(what) == ipPhase = "in" /\ ipPhase' = "out" /\ went' = what /\ UNCHANGED arrived

Accepts ==
  /\ ipBuf.vhl = IPV4 /\ ipBuf.len <= ipLen /\ ipBuf.ipoffset = 0
  /\ ipBuf.dst = uip_hostaddr
  /\ uip_ipchksum(ipBuf) = WordRange - 1

\* A slip to rule out: the carry is left out.
EchoChksumCut(w) == (w + HTONS(ICMP_ECHO * OctetRange)) % WordRange

\* The type goes from 8 to 0, so the checksum grows by what the type was worth.
EchoChksum(w) ==
  (w + HTONS(ICMP_ECHO * OctetRange)
     + (IF w >= HTONS(WordRange - 1 - ICMP_ECHO * OctetRange) THEN 1 ELSE 0)) % WordRange

IsEcho == ipBuf.proto = UIP_PROTO_ICMP /\ ipBuf.head[1] = ICMP_ECHO * OctetRange
EchoReply ==
  /\ Looked("icmp") /\ Accepts /\ IsEcho
  /\ ipBuf' = [ipBuf EXCEPT !.head = <<ICMP_ECHO_REPLY * OctetRange>>, !.chk = EchoChksum(@),
                                !.dst = ipBuf.src, !.src = uip_hostaddr]
  /\ ipLen' = ipBuf.len /\ UNCHANGED ipid

\* ip_send_nolen
IpNumbered(p) == SealHeader([p EXCEPT !.vhl = IPV4, !.ipoffset = 0, !.ipid = ipid + 1])
IpSend(p) ==
  /\ ipid < MaxIpid /\ ipid' = ipid + 1
  /\ ipBuf' = IpNumbered(p) /\ ipLen' = p.len

SilenceIp == ipLen' = 0 /\ UNCHANGED <<ipBuf, ipid>>

UdpSound == ipBuf.chk = 0 \/ upper_layer_chksum(ipBuf) = WordRange - 1
Bound(i) ==
  LET c == UdpBound[i] IN
  /\ c.lport = ipBuf.head[2] /\ c.rport \in {0, ipBuf.head[1]}
  /\ c.ripaddr \in {0, WordRange - 1, ipBuf.src}
UdpConn == SelectInSeq([i \in DOMAIN UdpBound |-> Bound(i)], LAMBDA b : b)

\* The answer goes to the port and the address the connection is bound to.
udp_send(c, rest) ==
  LET p == Packet(UIP_PROTO_UDP, <<c.lport, c.rport, Len(rest) + UIP_UDPH_LEN>>, rest,
                  uip_hostaddr, c.ripaddr, UIP_TTL)
  IN IpSend(SealUdp(p))

IsUdp == ipBuf.proto = UIP_PROTO_UDP /\ UdpSound /\ UdpConn > 0
UdpInput ==
  /\ Looked("udp") /\ Accepts /\ IsUdp
  /\ \/ SilenceIp
     \/ \E rest \in FewRests \ {<<>>} : udp_send(UdpBound[UdpConn], rest)

\* UIP_UDP_TIMER
UdpPoll ==
  /\ ipPhase = "idle" /\ ipPhase' = "out" /\ went' = "udp poll" /\ UNCHANGED arrived
  /\ \E i \in DOMAIN UdpBound, rest \in RestsTried \ {<<>>} : udp_send(UdpBound[i], rest)

\* The segment is built in UipTcp; tcp_send_noconn fills in the headers.
tcp_send_noconn(dst, rest) ==
  IpSend(SealTcp(Packet(UIP_PROTO_TCP, <<9, 5>>, rest, uip_hostaddr, dst, UIP_TTL)))
IsTcp == ipBuf.proto = UIP_PROTO_TCP /\ upper_layer_chksum(ipBuf) = WordRange - 1
TcpInput ==
  /\ Looked("tcp") /\ Accepts /\ IsTcp
  /\ \/ SilenceIp
     \/ \E rest \in FewRests : tcp_send_noconn(ipBuf.src, rest)
\* UIP_TIMER
TcpTimer ==
  /\ ipPhase = "idle" /\ ipPhase' = "out" /\ went' = "tcp timer" /\ UNCHANGED arrived
  /\ \E rest \in RestsTried : tcp_send_noconn(RemoteWord, rest)

DropIp == Looked("drop") /\ ~(Accepts /\ (IsEcho \/ IsUdp \/ IsTcp)) /\ SilenceIp

---------------------------------------------------------------------------
(* uip_fw_forward, of a packet that is not for this host; which packets it  *)
(* holds back is in UipFw                                                   *)

\* The time to live is one less, so the checksum is more by as much.
HopChksum(w) ==
  (w + HTONS(OctetRange) + (IF w >= HTONS(WordRange - 1 - OctetRange) THEN 1 ELSE 0)) % WordRange
Hop(p) == [p EXCEPT !.ttl = (@ - 1) % OctetRange, !.ipchksum = HopChksum(@)]

\* The first 8 octets behind the header of what has expired; the buffer is 0 behind
\* a shorter packet.
Quoted(p) == LET o == OctetsOf(p.head \o <<HTONS(p.chk)>>) \o p.rest
             IN [i \in 1 .. 8 |-> IF i <= Len(o) THEN o[i] ELSE 0]

\* The packet goes back to its sender inside an ICMP message, whose words behind the
\* checksum are left as they were.
time_exceeded(p) ==
  LET back == [Packet(UIP_PROTO_ICMP, <<ICMP_TE * OctetRange>>,
                      SubSeq(Quoted(p), 5, 8) \o OctetsOf(IpHeader(p)) \o Quoted(p),
                      uip_hostaddr, p.src, UIP_TTL) EXCEPT !.ipid = p.ipid]
      summed == [back EXCEPT !.chk = Inverted(uip_chksum(Upper(back)))]
  IN SealHeader(summed)

IpForward ==
  /\ Looked("forward") /\ ipBuf.dst # uip_hostaddr /\ ipBuf.ttl > 1
  /\ ipBuf' = Hop(ipBuf) /\ UNCHANGED <<ipLen, ipid>>
IpExpire ==
  /\ Looked("expired") /\ ipBuf.dst # uip_hostaddr /\ ipBuf.ttl <= 1
  /\ IF ipBuf.proto = UIP_PROTO_ICMP THEN ipLen' = 0 /\ ipBuf' = Hop(ipBuf)
     ELSE LET back == time_exceeded(ipBuf) IN ipBuf' = Hop(back) /\ ipLen' = back.len
  /\ UNCHANGED ipid

\* The driver takes what is left in the buffer.
IpTaken ==
  /\ ipPhase = "out" /\ ipPhase' = "idle" /\ ipLen' = 0
  /\ ipBuf' = "none" /\ arrived' = "none" /\ went' = "none" /\ UNCHANGED ipid

IpInit ==
  /\ ipPhase = "idle" /\ ipBuf = "none" /\ ipLen = 0 /\ ipid = 0 /\ arrived = "none" /\ went = "none"

IpNext ==
  \/ IpInput \/ EchoReply \/ UdpInput \/ UdpPoll \/ TcpInput \/ TcpTimer
  \/ DropIp \/ IpForward \/ IpExpire \/ IpTaken
IpSpec == IpInit /\ [][IpNext]_ipVars

---------------------------------------------------------------------------
\* What reaches TCP and UDP came whole, and every packet that goes out passes the
\* tests its receiver makes, whatever its octets: those uIP sums up, and those whose
\* checksum it only adjusts, the reply to a ping and a packet that goes on, if they
\* came whole themselves.  The reply of which every octet is 0 is left out: its
\* checksum comes out as 0 and should be 0xffff (uip.c:998).
PacketsVerify ==
  ipPhase = "out" =>
    /\ went \in {"tcp", "udp"} => Sound(IpHeader(arrived)) /\ (arrived.chk = 0 \/ IsWhole(arrived))
    /\ ipLen > 0 /\ went \in {"tcp", "tcp timer", "udp", "udp poll"} => IsWhole(ipBuf)
    /\ went = "icmp" =>
         /\ Sound(IpHeader(ipBuf))
         /\ SumOf(Upper(ipBuf)) > 0 => (Sound(Upper(ipBuf)) <=> Sound(Upper(arrived)))
    /\ went = "forward" => (Sound(IpHeader(ipBuf)) <=> Sound(IpHeader(arrived)))
    /\ ipLen > 0 /\ went = "expired" => Sound(IpHeader(ipBuf)) /\ Sound(Upper(ipBuf))
=============================================================================
