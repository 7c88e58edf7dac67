-------------------------------- MODULE UipFw ------------------------------
(***************************************************************************)
(* Packet forwarding (uip-fw.c), built with the program and called by      *)
(* nothing in it: the interfaces, the route of a packet, and the cache of  *)
(* what was sent lately, which stops a packet that comes round again.      *)
(* A packet stands for the fields the cache compares.                      *)
(***************************************************************************)
EXTENDS Integers, Sequences, FiniteSets, SequencesExt

CONSTANTS
  FWCACHE_SIZE, FW_TIME,
  Nets,            \* the interfaces
  FwPackets,
  Local,           \* the packets for this host
  Icmp,            \* the ICMP messages among them
  ToAll,           \* the packets to 255.255.255.255
  OnNet,           \* interface -> the packets whose destination is on it
  TimeExceeded,    \* packet -> the message that tells its sender it has expired
  NoPacket, NoNet

ASSUME FwAssumption ==
  /\ FWCACHE_SIZE \in Nat \ {0} /\ FW_TIME \in Nat \ {0}
  /\ Local \union Icmp \union ToAll \subseteq FwPackets
  /\ OnNet \in [Nets -> SUBSET FwPackets] /\ TimeExceeded \in [FwPackets -> Icmp]

VARIABLES
  netifs, defaultnetif,
  fwcache,     \* entry -> [timer, packet]
  delivered,   \* what the last call did: [status, packet, netif]
  remaining    \* history: what is left of FW_TIME since a packet was last sent
fwVars == <<netifs, defaultnetif, fwcache, delivered, remaining>>

Slots == 1 .. FWCACHE_SIZE
Nothing == [status |-> "none", packet |-> NoPacket, netif |-> NoNet]

FwInit ==
  /\ netifs = <<>> /\ defaultnetif = NoNet /\ delivered = Nothing
  /\ fwcache = [i \in Slots |-> [timer |-> 0, packet |-> NoPacket]]
  /\ remaining = [p \in FwPackets |-> 0]

uip_fw_init ==
  /\ netifs' = <<>> /\ defaultnetif' = NoNet /\ delivered' = Nothing
  /\ UNCHANGED <<fwcache, remaining>>
uip_fw_register(n) ==
  /\ ~Contains(netifs, n) /\ netifs' = <<n>> \o netifs /\ delivered' = Nothing
  /\ UNCHANGED <<defaultnetif, fwcache, remaining>>
uip_fw_default(n) ==
  /\ defaultnetif' = n /\ delivered' = Nothing /\ UNCHANGED <<netifs, fwcache, remaining>>

\* The history counts down with the timers.
uip_fw_periodic ==
  /\ fwcache' = [i \in Slots |->
       [fwcache[i] EXCEPT !.timer = IF fwcache[i].timer > 0 THEN fwcache[i].timer - 1 ELSE 0]]
  /\ remaining' = [p \in FwPackets |-> IF remaining[p] > 0 THEN remaining[p] - 1 ELSE 0]
  /\ delivered' = Nothing /\ UNCHANGED <<netifs, defaultnetif>>

---------------------------------------------------------------------------
FreeSlots == {i \in Slots : fwcache[i].timer = 0}
Least == {i \in Slots : \A j \in Slots : fwcache[i].timer <= fwcache[j].timer}

\* A slip to rule out: an entry is taken by its place and not by its time.
VictimByPlace == IF FreeSlots # {} THEN Min(FreeSlots) ELSE Max(Slots)

\* The first entry that is free, or the last of those with the least time left.
Victim == IF FreeSlots # {} THEN Min(FreeSlots) ELSE Max(Least)

fwcache_register(p) ==
  /\ fwcache' = [fwcache EXCEPT ![Victim] = [timer |-> FW_TIME, packet |-> p]]
  /\ remaining' = [remaining EXCEPT ![p] = FW_TIME]

\* The first interface of the list that matches, or the default one.
find_netif(p) ==
  LET on == {i \in DOMAIN netifs : p \in OnNet[netifs[i]]}
  IN IF on = {} THEN defaultnetif ELSE netifs[Min(on)]

\* The packet is registered whether or not it has a route.
uip_fw_output(p, status) ==
  /\ fwcache_register(p)
  /\ delivered' = [status |-> status, packet |-> p, netif |-> find_netif(p)]

Output(p) == uip_fw_output(p, "output") /\ UNCHANGED <<netifs, defaultnetif>>

---------------------------------------------------------------------------
\* uip_fw_forward: a packet for this host is left to the stack, one the cache
\* holds is dropped, one whose time to live is over is answered to its sender,
\* unless it is itself an ICMP message, and every other goes on.
Cached(p) == \E i \in Slots : fwcache[i].timer # 0 /\ fwcache[i].packet = p
Keep(p) ==
  /\ delivered' = [status |-> "local", packet |-> p, netif |-> NoNet]
  /\ UNCHANGED <<fwcache, remaining>>
Drop == delivered' = Nothing /\ UNCHANGED <<fwcache, remaining>>

uip_fw_forward(p, expired) ==
  /\ UNCHANGED <<netifs, defaultnetif>>
  /\ \/ p \in Local /\ Keep(p)
     \/ p \notin Local /\ Cached(p) /\ Drop
     \/ /\ p \notin Local /\ ~Cached(p)
        /\ \/ expired /\ p \in ToAll /\ Keep(p)
           \/ expired /\ p \in Icmp \ ToAll /\ Drop
           \/ expired /\ p \notin Icmp \union ToAll /\ uip_fw_output(TimeExceeded[p], "exceeded")
           \/ ~expired /\ uip_fw_output(p, "forwarded")

FwNext ==
  \/ uip_fw_init \/ uip_fw_periodic
  \/ \E n \in Nets : uip_fw_register(n) \/ uip_fw_default(n)
  \/ \E p \in FwPackets : Output(p)
  \/ \E p \in FwPackets, expired \in BOOLEAN : uip_fw_forward(p, expired)
FwSpec == FwInit /\ [][FwNext]_fwVars

---------------------------------------------------------------------------
\* What was sent less than FW_TIME calls of uip_fw_periodic ago is still in the
\* cache with its time, or every entry is of a packet that was sent no earlier:
\* a packet that comes round again is let through only when the cache was full of
\* packets at least as young.
RemembersTheYoung ==
  \A p \in FwPackets : remaining[p] > 0 =>
    \/ \E i \in Slots : fwcache[i] = [timer |-> remaining[p], packet |-> p]
    \/ \A i \in Slots : fwcache[i].timer >= remaining[p]
=============================================================================
