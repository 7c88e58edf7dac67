------------------------------- MODULE UipArp ------------------------------
(***************************************************************************)
(* The ARP table (uip_arp.c): who claims which address, the age of what is *)
(* known, and the frame each packet leaves in.  The age is a counter of    *)
(* eight bits that wraps; uip_arp_timer advances it.                       *)
(***************************************************************************)
EXTENDS Integers, FiniteSetsExt

CONSTANTS
  UIP_ARPTAB_SIZE, UIP_ARP_MAXAGE,
  ArpTimes,          \* values of arptime: 256 in the code
  Hosts,             \* addresses of the local network
  HalfZero,          \* those with a half of zero
  Zero,              \* the address 0.0.0.0
  uip_draddr,        \* the router's address
  Remote,            \* stands for every address of another network
  Macs, BroadcastMac, ZeroMac

ASSUME ArpAssumption ==
  /\ UIP_ARPTAB_SIZE \in Nat \ {0} /\ ArpTimes \in Nat \ {0}
  /\ HalfZero \subseteq Hosts /\ uip_draddr \in Hosts
  /\ Zero \notin Hosts /\ Remote \notin Hosts \union {Zero} /\ {BroadcastMac, ZeroMac} \intersect Macs = {}

Nobody == [kind |-> "none"]

VARIABLES
  arp_table,  \* entry -> [ipaddr, ethaddr, time]
  arptime,
  frame,      \* what the last call left in uip_buf to be sent
  claims      \* history: address -> the link address that claimed it last, to us
arpVars == <<arp_table, arptime, frame, claims>>

Entries == 1 .. UIP_ARPTAB_SIZE

\* A zeroed table: uip_arp_init clears the addresses, the rest is .bss.
ArpInit ==
  /\ arp_table = [i \in Entries |-> [ipaddr |-> Zero, ethaddr |-> ZeroMac, time |-> 0]]
  /\ arptime = 0 /\ frame = Nobody /\ claims = [h \in Hosts |-> ZeroMac]

uip_arp_init ==
  /\ arp_table' = [i \in Entries |-> [arp_table[i] EXCEPT !.ipaddr = Zero]]
  /\ frame' = Nobody /\ UNCHANGED <<arptime, claims>>

\* The difference is taken in int: after a wrap it is negative.
Old(e, now) == now - e.time >= UIP_ARP_MAXAGE
uip_arp_timer ==
  /\ arptime' = (arptime + 1) % ArpTimes
  /\ arp_table' = [i \in Entries |->
       IF arp_table[i].ipaddr # Zero /\ Old(arp_table[i], arptime')
       THEN [arp_table[i] EXCEPT !.ipaddr = Zero] ELSE arp_table[i]]
  /\ frame' = Nobody /\ UNCHANGED claims

---------------------------------------------------------------------------
(* uip_arp_update *)

\* The entries looked at for an address: one with a half of zero is passed over.
Known(ip) == {i \in Entries :
  arp_table[i].ipaddr = ip /\ arp_table[i].ipaddr \notin HalfZero \union {Zero}}
UnusedEntries == {i \in Entries : arp_table[i].ipaddr = Zero}

\* The first of the entries whose age is the largest above zero; else entry 0.
Age(i) == arptime - arp_table[i].time
Oldest ==
  LET aged == {i \in Entries : Age(i) > 0}
  IN IF aged = {} THEN 1 ELSE Min({i \in aged : \A j \in aged : Age(j) <= Age(i)})

\* A slip to rule out: an unused entry is taken before the address is looked for.
PlaceUnusedFirst(ip) ==
  IF UnusedEntries # {} THEN Min(UnusedEntries) ELSE IF Known(ip) # {} THEN Min(Known(ip)) ELSE Oldest

Place(ip) ==
  IF Known(ip) # {} THEN Min(Known(ip))
  ELSE IF UnusedEntries # {} THEN Min(UnusedEntries) ELSE Oldest

uip_arp_update(ip, mac) ==
  arp_table' = [arp_table EXCEPT ![Place(ip)] = [ipaddr |-> ip, ethaddr |-> mac, time |-> arptime]]

---------------------------------------------------------------------------
(* The handlers *)

Claim(ip, mac) == claims' = [h \in Hosts |-> IF h = ip THEN mac ELSE claims[h]]

\* A request for our address is answered to who sent it; a reply to us is noted.
uip_arp_arpin(opcode, ip, mac) ==
  /\ uip_arp_update(ip, mac) /\ Claim(ip, mac)
  /\ frame' = IF opcode = "request" THEN [kind |-> "arp", to |-> mac] ELSE Nobody
  /\ UNCHANGED arptime
\* A frame that is too short, of another opcode, or for another host.
ArpIgnored == frame # Nobody /\ frame' = Nobody /\ UNCHANGED <<arp_table, arptime, claims>>

NextHop(dest) == IF dest = Remote THEN uip_draddr ELSE dest
Reached(hop) == {i \in Entries : arp_table[i].ipaddr = hop}

\* An IP packet leaves for its next hop; a request for the hop replaces it when
\* the hop is not in the table.
uip_arp_out(dest) ==
  LET hop == NextHop(dest)
  IN /\ frame' = IF Reached(hop) = {} THEN [kind |-> "request", for |-> hop]
                 ELSE [kind |-> "ip", hop |-> hop, to |-> arp_table[Min(Reached(hop))].ethaddr]
     /\ UNCHANGED <<arp_table, arptime, claims>>
ArpOutBroadcast ==
  /\ frame' = [kind |-> "arp", to |-> BroadcastMac]
  /\ UNCHANGED <<arp_table, arptime, claims>>

ArpNext ==
  \/ uip_arp_init \/ uip_arp_timer \/ ArpIgnored \/ ArpOutBroadcast
  \/ \E opcode \in {"request", "reply"}, ip \in Hosts \union {Zero}, mac \in Macs :
       uip_arp_arpin(opcode, ip, mac)
  \/ \E dest \in Hosts \union {Remote} : uip_arp_out(dest)
ArpSpec == ArpInit /\ [][ArpNext]_arpVars

---------------------------------------------------------------------------
\* An address without a zero half has one entry, which holds who claimed it
\* last: no refresh, eviction, probe, expiry or wrap of the age leaves a second
\* entry behind; and a packet to it leaves for the one who claimed it last.
LatestClaim ==
  /\ \A i \in Entries : arp_table[i].ipaddr \in Hosts \ HalfZero =>
       /\ arp_table[i].ethaddr = claims[arp_table[i].ipaddr]
       /\ \A j \in Entries : arp_table[j].ipaddr = arp_table[i].ipaddr => j = i
  /\ frame.kind = "ip" /\ frame.hop \notin HalfZero => frame.to = claims[frame.hop]
=============================================================================
