------------------------------ MODULE UipPorts -----------------------------
(***************************************************************************)
(* Who owns which port in uIP (uip.c): connections the application opens   *)
(* (uip_connect, uip_udp_new), those that come in on the ports it listens  *)
(* to, and the slots and port numbers they take and give back.  What a     *)
(* connection does while it is open is in UipTcp.                          *)
(***************************************************************************)
EXTENDS Integers, FiniteSetsExt

CONSTANTS
  FirstPort, WrapPort, LastPort,   \* 1024, 4096 and 32000
  UIP_CONNS, UIP_UDP_CONNS, UIP_LISTENPORTS,
  Remotes, RemotePorts,
  WellKnown,                       \* the ports the application listens to
  TimeWait                         \* UIP_TIME_WAIT_TIMEOUT

PortsAssumption ==
  /\ {FirstPort, WrapPort, LastPort, TimeWait} \subseteq Nat \ {0}
  /\ {UIP_CONNS, UIP_UDP_CONNS, UIP_LISTENPORTS} \subseteq Nat
  /\ FirstPort < LastPort /\ WrapPort + UIP_CONNS < LastPort /\ WrapPort + UIP_UDP_CONNS < LastPort
  /\ WellKnown \subseteq Nat \ {0}

VARIABLES
  conns,         \* slot -> [state, lport, rport, ripaddr, timer]
  udpPorts,      \* slot -> local port, 0 for none
  listenPorts,   \* slot -> port, 0 for none
  lastport
portVars == <<conns, udpPorts, listenPorts, lastport>>

Conns == 1 .. UIP_CONNS
UdpConns == 1 .. UIP_UDP_CONNS
Listens == 1 .. UIP_LISTENPORTS

\* uip_init
PortsInit ==
  /\ conns = [i \in Conns |-> [state |-> "CLOSED", lport |-> 0, rport |-> 0, ripaddr |-> "none", timer |-> 0]]
  /\ udpPorts = [i \in UdpConns |-> 0] /\ listenPorts = [i \in Listens |-> 0]
  /\ lastport = FirstPort

Live(c) == c.state # "CLOSED"
PortsInUse == {conns[i].lport : i \in {j \in Conns : Live(conns[j])}}

---------------------------------------------------------------------------
NextPort(p) == IF p + 1 >= LastPort THEN WrapPort ELSE p + 1

\* The numbers behind p in turn, as many as last.
Tried(p, last) ==
  LET after[n \in 0 .. last] == IF n = 0 THEN p ELSE NextPort(after[n - 1]) IN after

\* A slip to rule out: the next number is taken as it is.
UnusedAtOnce(p, used) == NextPort(p)

\* They are tried until one is not in use.
Unused(p, used) ==
  LET last == Cardinality(used) + 1
      after == Tried(p, last)
  IN after[Min({n \in 1 .. last : after[n] \notin used})]

\* The first slot that is free, or the one that has been in TIME_WAIT for longest.
Spare ==
  LET closed == {i \in Conns : ~Live(conns[i])}
      waiting == {i \in Conns : conns[i].state = "TIME_WAIT"}
  IN IF closed # {} THEN Min(closed)
     ELSE IF waiting # {}
       THEN Min({i \in waiting : \A j \in waiting : conns[j].timer <= conns[i].timer})
     ELSE 0

FillSlot(state, lport, rport, ripaddr, timer) ==
  conns' = [conns EXCEPT ![Spare] = [state |-> state, lport |-> lport, rport |-> rport,
                                     ripaddr |-> ripaddr, timer |-> timer]]

\* The number is used up although no slot is free.
uip_connect(ripaddr, rport) ==
  /\ lastport' = Unused(lastport, PortsInUse)
  /\ \/ Spare = 0 /\ UNCHANGED conns
     \/ Spare # 0 /\ FillSlot("SYN_SENT", lastport', rport, ripaddr, 1)
  /\ UNCHANGED <<udpPorts, listenPorts>>

uip_udp_new ==
  LET unbound == {i \in UdpConns : udpPorts[i] = 0}
      used == {udpPorts[i] : i \in UdpConns} \ {0}
  IN /\ lastport' = Unused(lastport, used)
     /\ udpPorts' = IF unbound = {} THEN udpPorts ELSE [udpPorts EXCEPT ![Min(unbound)] = lastport']
     /\ UNCHANGED <<conns, listenPorts>>
uip_udp_remove(i) == udpPorts' = [udpPorts EXCEPT ![i] = 0] /\ UNCHANGED <<conns, listenPorts, lastport>>

\* A table that is full is left as it is, and a port may be in it twice.
Put(old, new) ==
  LET at == {i \in Listens : listenPorts[i] = old}
  IN IF at = {} THEN listenPorts ELSE [listenPorts EXCEPT ![Min(at)] = new]
uip_listen(port) == listenPorts' = Put(0, port) /\ UNCHANGED <<conns, udpPorts, lastport>>
uip_unlisten(port) == listenPorts' = Put(port, 0) /\ UNCHANGED <<conns, udpPorts, lastport>>

---------------------------------------------------------------------------
\* A SYN that belongs to no connection opens one on a port that is listened to.
Syn(ripaddr, rport, lport) ==
  /\ ~\E i \in Conns : Live(conns[i]) /\ conns[i].lport = lport /\ conns[i].rport = rport
                       /\ conns[i].ripaddr = ripaddr
  /\ \E i \in Listens : listenPorts[i] = lport
  /\ Spare # 0 /\ FillSlot("SYN_RCVD", lport, rport, ripaddr, 0)
  /\ UNCHANGED <<udpPorts, listenPorts, lastport>>

\* A connection closes, actively or not, and the timer ends the wait.
Close(i) ==
  /\ Live(conns[i]) /\ conns[i].state # "TIME_WAIT"
  /\ \E s \in {"CLOSED", "TIME_WAIT"} : conns' = [conns EXCEPT ![i].state = s, ![i].timer = 0]
  /\ UNCHANGED <<udpPorts, listenPorts, lastport>>
WaitOut(i) ==
  /\ conns[i].state = "TIME_WAIT"
  /\ conns' = [conns EXCEPT ![i].timer = @ + 1,
                            ![i].state = IF conns[i].timer + 1 = TimeWait THEN "CLOSED" ELSE @]
  /\ UNCHANGED <<udpPorts, listenPorts, lastport>>

PortsNext ==
  \/ \E a \in Remotes, r \in RemotePorts :
       uip_connect(a, r) \/ \E l \in WellKnown : Syn(a, r, l)
  \/ \E l \in WellKnown : uip_listen(l) \/ uip_unlisten(l)
  \/ uip_udp_new
  \/ \E i \in UdpConns : uip_udp_remove(i)
  \/ \E i \in Conns : Close(i) \/ WaitOut(i)
PortsSpec == PortsInit /\ [][PortsNext]_portVars

---------------------------------------------------------------------------
\* A segment or a datagram belongs to one connection: no two that are not closed
\* have the same ports and the same host, also when the numbers have come round,
\* the port the application is given is one it listens to, or an old connection is
\* still waiting.
OneOwner ==
  /\ \A i, j \in Conns : i # j /\ Live(conns[i]) /\ Live(conns[j]) =>
       <<conns[i].lport, conns[i].rport, conns[i].ripaddr>>
         # <<conns[j].lport, conns[j].rport, conns[j].ripaddr>>
  /\ \A i, j \in UdpConns : i # j /\ udpPorts[i] # 0 => udpPorts[i] # udpPorts[j]
=============================================================================
